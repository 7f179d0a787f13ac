SPECIFICATION Spec
CONSTANTS
  Sockets = {s1, s2}
  Subs = {u1}
  MaxNotes = 1
  NoSocket = NoSocket
PROPERTIES SupersededIsIgnored
CHECK_DEADLOCK FALSE
