\* Two requests at a time, an operator who edits or breaks the file and
\* removes it, and a gate so small that it forgets entries.
CONSTANTS
    Missing = Missing  Nil = Nil
    Requests = {r1, r2}  Ports = {p1, p2}
    Gap = 2  Minute = 3  MaxEntries = 1
    MaxEdits = 2
SPECIFICATION Spec
PROPERTIES AnswersAreCurrent ProbesAreSpaced
CHECK_DEADLOCK FALSE
