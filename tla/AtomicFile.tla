------------------------------ MODULE AtomicFile ------------------------------
(***************************************************************************)
(* What an open file of gridfs-fuse promises, with no chunks, no cache, no *)
(* locks and no read loop: a file is a list of versions, each of which     *)
(* appears whole, in one step and once; a handle is bound to one version   *)
(* for as long as it is open; a read answers, in one step, with the bytes  *)
(* of that version, or fails.                                              *)
(***************************************************************************)
EXTENDS Integers, Sequences

CONSTANTS
  Handle, Reader, None,
  Version,   \* the versions there can be: records with a number v and a len
  MaxLength

VARIABLES
  visible,  \* the versions of the file, the newest last
  used,     \* the version numbers that are or were visible
  bound,    \* bound[h]: the version h reads, or None
  answer    \* answer[r]: what the read of r returns, or None

vars == <<visible, used, bound, answer>>

\* Bytes off .. off + size - 1 of a version, as far as it has them.
Bytes(ver, off, size) ==
  LET end == IF off + size < ver.len THEN off + size ELSE ver.len
  IN  [i \in 1 .. end - off |-> <<ver.v, off + i - 1>>]

Nothing == [v |-> 0, len |-> 0]

Init ==
  /\ visible = <<>> /\ used = {}
  /\ bound = [h \in Handle |-> None]
  /\ answer = [r \in Reader |-> None]

\* An upload is complete; when it was a handle's, that handle is closed.
Publish(ver) ==
  /\ ver.v \notin used /\ used' = used \cup {ver.v}
  /\ visible' = Append(visible, ver)
  /\ \/ UNCHANGED bound
     \/ \E h \in Handle : bound' = [bound EXCEPT ![h] = None]
  /\ UNCHANGED answer

Withdraw ==
  /\ \E i \in 1 .. Len(visible) :
       visible' = SubSeq(visible, 1, i - 1) \o SubSeq(visible, i + 1, Len(visible))
  /\ UNCHANGED <<used, bound, answer>>

\* Truncation changes a version in place; who is bound to it does not see that.
Shorten ==
  /\ \E i \in 1 .. Len(visible) : visible' = [visible EXCEPT ![i].len = 0]
  /\ UNCHANGED <<used, bound, answer>>

\* The handle gets the newest version, or an empty file when the path has none
\* any more, and keeps it until it is closed.
Bind(h) ==
  /\ bound[h] = None
  /\ bound' = [bound EXCEPT ![h] = IF visible = <<>> THEN Nothing
                                  ELSE visible[Len(visible)]]
  /\ UNCHANGED <<visible, used, answer>>

Unbind(h) ==
  /\ bound' = [bound EXCEPT ![h] = None]
  /\ UNCHANGED <<visible, used, answer>>

Answer(r, h, off, size) ==
  /\ answer[r] = None /\ bound[h] # None
  /\ answer' = [answer EXCEPT ![r] = [h |-> h, off |-> off, size |-> size,
                                     data |-> Bytes(bound[h], off, size)]]
  /\ UNCHANGED <<visible, used, bound>>

Refuse(r) ==
  /\ answer[r] = None
  /\ answer' = [answer EXCEPT ![r] = [h |-> None]]
  /\ UNCHANGED <<visible, used, bound>>

Forget(r) ==
  /\ answer' = [answer EXCEPT ![r] = None]
  /\ UNCHANGED <<visible, used, bound>>

\* The mount dies; the versions stay.
Restart ==
  /\ bound' = [h \in Handle |-> None]
  /\ answer' = [r \in Reader |-> None]
  /\ UNCHANGED <<visible, used>>

Next ==
  \/ \E ver \in Version : Publish(ver)
  \/ Withdraw \/ Shorten \/ Restart
  \/ \E h \in Handle : Bind(h) \/ Unbind(h)
  \/ \E r \in Reader :
       \/ Refuse(r) \/ Forget(r)
       \/ \E h \in Handle, off \in 0 .. MaxLength, size \in 1 .. MaxLength :
            Answer(r, h, off, size)

Spec == Init /\ [][Next]_vars
=============================================================================
