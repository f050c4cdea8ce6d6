---------------------------- MODULE AtomicConfig ----------------------------
(***************************************************************************)
(* What applying and undoing connections promises, without files written   *)
(* one by one, receipts, crashes or failed I/O: an application changes all *)
(* live files, the current connection and the stored records in one step   *)
(* or not at all; undoing the last application goes back to what it found; *)
(* bytes of other programs survive; and when atomicity could not be kept,  *)
(* that is flagged and nothing is applied or undone any more.              *)
(***************************************************************************)
CONSTANTS File, Bytes, ExtBytes, Conn, Receipt, None, InitConns, InitCurrent

Cfg == [File -> Bytes]

VARIABLES
  conf,     \* the live files
  stored,   \* the record of each connection
  cur,      \* the current connection
  head,     \* the last application that is still in force
  saved,    \* what each application found
  flagged   \* some operation could be neither completed nor undone

vars == <<conf, stored, cur, head, saved, flagged>>

Init ==
  /\ conf = InitConns[InitCurrent] /\ stored = InitConns /\ cur = InitCurrent
  /\ head = None /\ saved = [r \in Receipt |-> None] /\ flagged = FALSE

\* The files become target, except where another program has just written.
Become(target) ==
  /\ conf' \in Cfg
  /\ \A f \in File : conf'[f] # target[f] => conf'[f] = conf[f] /\ conf[f] \in ExtBytes

\* s is what application r finds.  It stores the record of c and, as the record of
\* one other connection, at most the files it found.
Apply(r, c) ==
  /\ ~flagged /\ saved[r] = None
  /\ LET s == saved'[r]
     IN /\ saved' = [saved EXCEPT ![r] = s] /\ s # None
        /\ s.cur = cur /\ s.head = head
        /\ \A f \in File : s.conf[f] = conf[f] \/ conf[f] \in ExtBytes
        /\ \A x \in Conn : s.stored[x] \in {None, stored[x]}
        /\ \A x \in Conn : stored'[x] # stored[x] =>
             x = c \/ (s.stored[x] # None /\ stored'[x] = s.conf)
  /\ stored'[c] # None /\ Become(stored'[c])
  /\ cur' = c /\ head' = r
  /\ UNCHANGED flagged

Undo(r) ==
  /\ ~flagged /\ head = r /\ saved[r] # None
  /\ LET s == saved[r]
     IN /\ Become(s.conf) /\ cur' = s.cur /\ head' = s.head
        /\ \A x \in Conn : stored'[x] \in {stored[x], s.stored[x]}
  /\ UNCHANGED <<saved, flagged>>

Forget(r) ==
  /\ r # head /\ saved' = [saved EXCEPT ![r] = None]
  /\ UNCHANGED <<conf, stored, cur, head, flagged>>

\* Other programs write.
External ==
  /\ conf' \in Cfg /\ \A f \in File : conf'[f] = conf[f] \/ conf'[f] \in ExtBytes
  /\ UNCHANGED <<stored, cur, head, saved, flagged>>

Edit(c) ==
  /\ stored[c] # None
  /\ \E cfg \in Cfg : stored' = [stored EXCEPT ![c] = cfg]
  /\ UNCHANGED <<conf, cur, head, saved, flagged>>

\* The files of an operation that failed are left as they are, for a person to see.
Flag ==
  /\ ~flagged /\ flagged' = TRUE /\ conf' \in Cfg
  /\ UNCHANGED <<stored, cur, head, saved>>

Next ==
  \/ \E r \in Receipt : Undo(r) \/ Forget(r) \/ \E c \in Conn : Apply(r, c)
  \/ \E c \in Conn : Edit(c)
  \/ External \/ Flag

Spec == Init /\ [][Next]_vars
=============================================================================
