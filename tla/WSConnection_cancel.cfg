SPECIFICATION Spec
CONSTANTS
  Sockets = {s1, s2}
  Subs = {u1}
  MaxNotes = 1
  NoSocket = NoSocket
PROPERTIES NoCallbackAfterCancel
CHECK_DEADLOCK FALSE
