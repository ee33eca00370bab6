\* A tab and a message of each user; each thread opened once or one of them
\* twice, a deletion, a socket that breaks, a handler that fails or a hidden page.
CONSTANTS
  a = a
  b = b
  a1 = a1
  b1 = b1
  m1 = m1
  m2 = m2
  Users = {a, b}
  Tabs = {a1, b1}
  Msgs = {m1, m2}
  Owner <- OwnerOf
  Author <- AuthorOf
  MaxLoads = 2
  MaxDeletes = 1
  MaxTroubles = 1
SPECIFICATION Spec
INVARIANTS
  TypeOK
  
  
CHECK_DEADLOCK FALSE
