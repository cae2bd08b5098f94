----------------------------- MODULE ContentType -----------------------------
(***************************************************************************)
(* The content type of a document, in which filesystem_entry.cpp keeps the *)
(* attributes for which GridFS has no fields: "m:33188|u:0|g:0|t:1321927". *)
(* Each change parses the whole of it and formats it anew; AttrCache takes *)
(* it for a record.  Other GridFS clients put media types there.           *)
(*                                                                         *)
(* strtok cuts a copy of the text at ':' and '|' alike, and keeps its      *)
(* place in a static variable: the worker threads of a mount share it.  A  *)
(* word is modelled as what the parser sees of it: its first letter (a     *)
(* key, a digit, a sign or another) and what atoi makes of it.             *)
(***************************************************************************)
EXTENDS Integers, Sequences

CONSTANTS
  Thread,       \* FUSE worker threads of one mount
  Half,         \* 2^31: an int is below it; mode_t, uid_t and gid_t go to twice that
  Mode, Id,     \* the modes and the ids that requests carry
  Time,         \* the times that requests carry; a time_t is wider than an int
  Garbage,      \* what an uninitialised time_t may hold
  DefaultMode,  \* S_IFREG | 0644
  DefaultUid, DefaultGid,
  Foreign,      \* content types of other clients
  Stray,        \* words that strtok may find in memory that has been freed
  None,         \* no document; no word; no key; no thread
  MaxCalls      \* bound: requests in a behaviour

VARIABLES
  words,   \* the words of the content type of the newest document, or None
  parser,  \* parser[t]: what thread t is doing with a content type
  olds,    \* strtok's static: the copy it is in, and the words taken from it
  calls    \* requests so far

vars == <<words, parser, olds, calls>>

-----------------------------------------------------------------------------
(* Formatting and parsing *)

Keys == {"m", "u", "g", "t"}

Letter == Keys \cup {"0", "-", "other"}

Word == [letter: Letter, num: Int]

ASSUME ConstantsAssumption ==
  /\ Half \in Nat \ {0}
  /\ DefaultMode \in Mode /\ {DefaultUid, DefaultGid} \subseteq Id
  /\ Mode \cup Id \subseteq 0 .. 2 * Half - 1
  /\ Time \cup Garbage \subseteq Int
  /\ Garbage # {}
  /\ Foreign \subseteq Seq(Word) /\ Stray \subseteq Word
  /\ None \notin Thread \cup Keys \cup Word \cup Seq(Word)
  /\ MaxCalls \in Nat

\* (int) and (unsigned int) of an integer that is too large for it.
ToInt(n) == ((n + Half) % (2 * Half)) - Half
ToUnsigned(n) == n % (2 * Half)

Key(c) == [letter |-> c, num |-> 0]
Number(n) == [letter |-> IF n < 0 THEN "-" ELSE "0", num |-> n]

\* Mutant of Format: a value is missing.
FormatNoOwner(a) ==
  <<Key("m"), Number(a.mode), Key("u"), Key("g"), Number(a.gid),
    Key("t"), Number(a.time)>>

\* Mutant of Format: the time is left to the next utimens().
FormatTimeless(a) ==
  <<Key("m"), Number(a.mode), Key("u"), Number(a.uid), Key("g"), Number(a.gid)>>

\* The content type of a set of attributes.
Format(a) ==
  <<Key("m"), Number(a.mode), Key("u"), Number(a.uid), Key("g"), Number(a.gid),
    Key("t"), Number(a.time)>>

\* Mutant of Assign: the case for 'u' runs into the one for 'g'.
AssignTwice(a, key, n) ==
  CASE key = "m" -> [a EXCEPT !.mode = ToUnsigned(n)]
    [] key = "u" -> [a EXCEPT !.uid = ToUnsigned(n), !.gid = ToUnsigned(n)]
    [] key = "g" -> a
    [] key = "t" -> [a EXCEPT !.time = ToInt(n)]

\* Mutant of Assign: the ids stay the ints that atoi returns.
AssignSigned(a, key, n) ==
  CASE key = "m" -> [a EXCEPT !.mode = ToUnsigned(n)]
    [] key = "u" -> [a EXCEPT !.uid = ToInt(n)]
    [] key = "g" -> [a EXCEPT !.gid = ToInt(n)]
    [] key = "t" -> [a EXCEPT !.time = ToInt(n)]

\* The value of a key: atoi wraps it to an int, and only time stays one.
Assign(a, key, n) ==
  CASE key = "m" -> [a EXCEPT !.mode = ToUnsigned(n)]
    [] key = "u" -> [a EXCEPT !.uid = ToUnsigned(n)]
    [] key = "g" -> [a EXCEPT !.gid = ToUnsigned(n)]
    [] key = "t" -> [a EXCEPT !.time = ToInt(n)]

\* One word: the value of the key before it, a key, or neither.
Take1(s, word) ==
  IF s.key # None THEN [key |-> None, attr |-> Assign(s.attr, s.key, word.num)]
  ELSE [s EXCEPT !.key = IF word.letter \in Keys THEN word.letter ELSE None]

Defaults(garbage) ==
  [mode |-> DefaultMode, uid |-> DefaultUid, gid |-> DefaultGid, time |-> garbage]

\* Where the parse is after each word, when garbage was where the time goes.
After(ws, garbage) ==
  LET state[n \in 0 .. Len(ws)] ==
        IF n = 0 THEN [key |-> None, attr |-> Defaults(garbage)]
        ELSE Take1(state[n - 1], ws[n])
  IN  state

\* FilesystemEntry::stat of a whole content type.  A key without a value makes
\* it call atoi(NULL), which nothing returns from.
Parse(ws, garbage) ==
  LET end == After(ws, garbage)[Len(ws)]
  IN  IF end.key # None THEN None ELSE end.attr

\* All that stat may show of a document.
Shown(ws) == {Parse(ws, garbage) : garbage \in Garbage}

-----------------------------------------------------------------------------
(* Parsing by strtok *)

Idle ==
  [at |-> "idle", op |-> "none",
   copy |-> <<>>,       \* lContentTypeCopy, deleted after the parse
   key |-> None,        \* the key whose value comes next
   attr |-> None,       \* mode, uid, gid and time
   newest |-> FALSE,    \* the document is still the newest one of the path
   crossed |-> FALSE]   \* history: another thread parsed at the same time

Parsing == {t \in Thread : parser[t].at = "parse"}

\* Mutant of Got: the loop ends at the first word that is not a key.
GotUntilOther(s, word) ==
  IF word = None \/ (s.key = None /\ word.letter \notin Keys)
  THEN [s EXCEPT !.at = "parsed"]
  ELSE LET next == Take1([key |-> s.key, attr |-> s.attr], word)
       IN  [s EXCEPT !.key = next.key, !.attr = next.attr]

\* A parser goes on with what strtok has returned; None ends its loop.
Got(s, word) ==
  IF word = None THEN [s EXCEPT !.at = "parsed"]
  ELSE LET next == Take1([key |-> s.key, attr |-> s.attr], word)
       IN  [s EXCEPT !.key = next.key, !.attr = next.attr]

Request == calls < MaxCalls /\ calls' = calls + 1

\* A handler has found the document and calls strtok(copy, ...).
Begin(t, op) ==
  /\ Request
  /\ parser[t].at = "idle" /\ words # None
  /\ \E garbage \in Garbage :
       LET new == [at |-> "parse", op |-> op, copy |-> words, key |-> None,
                   attr |-> Defaults(garbage), newest |-> TRUE,
                   crossed |-> Parsing # {}]
           first == IF words = <<>> THEN None ELSE Head(words)
       IN  parser' = [u \in Thread |->
                        IF u = t THEN Got(new, first)
                        ELSE [parser[u] EXCEPT !.crossed = @ \/ u \in Parsing]]
  /\ olds' = [of |-> t, taken |-> 1]
  /\ UNCHANGED words

\* What strtok(NULL, ...) may return: the next word of the copy that it is in,
\* whosever that is.  When that has been deleted there may be anything.
Tokens ==
  LET s == parser[olds.of] IN
    IF olds.of \notin Parsing THEN Stray \cup {None}
    ELSE IF olds.taken < Len(s.copy) THEN {s.copy[olds.taken + 1]} ELSE {None}

\* A parser calls strtok(NULL, ...).  (A call is taken for one step; threads
\* that are inside of it together may also get the same word, or half of one.)
Take(t) ==
  /\ t \in Parsing
  /\ \E word \in Tokens :
       /\ word = None => parser[t].key = None
       /\ parser' = [parser EXCEPT ![t] = Got(@, word)]
       /\ olds' = [olds EXCEPT !.taken =
                    IF word = None \/ olds.of \notin Parsing THEN @ ELSE @ + 1]
  /\ UNCHANGED <<words, calls>>

\* atoi(NULL): the process of the mount is gone.
Die(t) ==
  /\ t \in Parsing /\ parser[t].key # None /\ None \in Tokens
  /\ parser' = [u \in Thread |-> Idle]
  /\ olds' = [of |-> None, taken |-> 0]
  /\ UNCHANGED <<words, calls>>

-----------------------------------------------------------------------------
(* Handlers *)

Init ==
  /\ words = None /\ olds = [of |-> None, taken |-> 0]
  /\ parser = [t \in Thread |-> Idle] /\ calls = 0

\* There is another newest document, or none.
Replace(ws) ==
  /\ Request
  /\ words' = ws
  /\ parser' = [t \in Thread |-> [parser[t] EXCEPT !.newest = FALSE]]
  /\ UNCHANGED olds

\* FilesystemEntry::create, for create, mkdir and symlink.
Create(mode, now) ==
  /\ words = None
  /\ Replace(Format([mode |-> mode, uid |-> DefaultUid, gid |-> DefaultGid,
                     time |-> now]))

\* Another client uploads a version.
Upload(ws) == words # ws /\ Replace(ws)

\* unlink()
Unlink == words # None /\ Replace(None)

\* updateContentType of the document that was parsed.  (What a request asks for
\* is chosen here, where it is used; the parse does not depend on it.)
Change(t, op, new) ==
  /\ parser[t].at = "parsed" /\ parser[t].op = op
  /\ words' = IF parser[t].newest THEN Format(new) ELSE words
  /\ parser' = [parser EXCEPT ![t] = Idle]
  /\ UNCHANGED <<olds, calls>>

Chmod(t, m) == Change(t, "chmod", [parser[t].attr EXCEPT !.mode = m])

Chown(t, u, g) ==
  Change(t, "chown", [parser[t].attr EXCEPT !.uid = u, !.gid = g])

Utimens(t, s) == Change(t, "utimens", [parser[t].attr EXCEPT !.time = s])

\* A getattr that misses the cache answers.
Getattr(t) ==
  /\ parser[t].at = "parsed" /\ parser[t].op = "getattr"
  /\ parser' = [parser EXCEPT ![t] = Idle]
  /\ UNCHANGED <<words, olds, calls>>

Ops == {"getattr", "chmod", "chown", "utimens"}

Next ==
  \/ \E m \in Mode, now \in Time : Create(m, now)
  \/ \E ws \in Foreign : Upload(ws)
  \/ Unlink
  \/ \E t \in Thread :
       \/ \E op \in Ops : Begin(t, op)
       \/ Take(t) \/ Die(t) \/ Getattr(t)
       \/ \E m \in Mode : Chmod(t, m)
       \/ \E u, g \in Id : Chown(t, u, g)
       \/ \E s \in Time : Utimens(t, s)

Spec == Init /\ [][Next]_vars

-----------------------------------------------------------------------------
(* Properties *)

Attributes == [mode: 0 .. 2 * Half - 1, uid: 0 .. 2 * Half - 1,
               gid: 0 .. 2 * Half - 1, time: Int]

ParserState ==
  [at: {"idle", "parse", "parsed"}, op: Ops \cup {"none"}, copy: Seq(Word),
   key: Keys \cup {None}, attr: Attributes \cup {None}, newest: BOOLEAN,
   crossed: BOOLEAN]

\* A content type is a sequence of words, and what a parse has got has the types
\* of struct stat, wherever its words came from.
TypeOK ==
  /\ words = None \/ words \in Seq(Word)
  /\ parser \in [Thread -> ParserState]
  /\ \A t \in Thread :
       parser[t].at # "idle" => parser[t].attr \in Attributes /\ parser[t].op \in Ops
  /\ olds \in [of: Thread \cup {None}, taken: Nat]
  /\ Parsing # {} => olds.of # None
  /\ calls \in Nat

\* Whatever these handlers have written, in any order, over any content type of
\* another client and after any mix-up of strtok, parses: to attributes that are
\* all determined.
WrittenIsReadable ==
  words \notin Foreign \cup {None} =>
    \E a \in Shown(words) : a \in Attributes /\ Shown(words) = {a}

\* A parse that no other thread crosses, between its first strtok and its last,
\* shows what the document says, whatever has been left in strtok.
AloneIsExact ==
  \A t \in Thread :
    parser[t].at = "parsed" /\ ~parser[t].crossed
      => parser[t].attr \in Shown(parser[t].copy)

FitsInt(n) == n \in -Half .. Half - 1

\* After the step each of these fields is what it was in the document that t has
\* parsed; a time that was not initialised, and does not fit an int, is exempt.
Keeps(t, fields) ==
  parser[t].newest => \A b \in Shown(words') : \E a \in Shown(parser[t].copy) :
    \A f \in fields : a[f] = b[f] \/ (f = "time" /\ ~FitsInt(a.time))

ChangesOnly(t) ==
  /\ (\E m \in Mode : Chmod(t, m)) => Keeps(t, {"uid", "gid", "time"})
  /\ (\E u, g \in Id : Chown(t, u, g)) => Keeps(t, {"mode", "time"})
  /\ (\E s \in Time : Utimens(t, s)) => Keeps(t, {"mode", "uid", "gid"})

\* The fields that a change does not name it leaves as they were, over as many
\* changes as there are, unless another thread parses at the same time.
OthersUnchanged == [][\A t \in Thread : ~parser[t].crossed => ChangesOnly(t)]_vars

\* What a change was given is what every later stat shows, until the next
\* change; utimens only with a time that fits an int (before 2038).  Both ids
\* of chown are taken as given, (uid_t) -1 too, by which libfuse means "keep".
SetIsShown ==
  [][\A t \in Thread : parser[t].newest =>
       /\ \A m \in Mode : Chmod(t, m) => \A b \in Shown(words') : b.mode = m
       /\ \A u, g \in Id : Chown(t, u, g) =>
            \A b \in Shown(words') : b.uid = u /\ b.gid = g
       /\ \A s \in Time : Utimens(t, s) /\ FitsInt(s) =>
            \A b \in Shown(words') : b.time = s]_vars

-----------------------------------------------------------------------------
(* A claim of the repository that the code does not keep *)

\* filesystem_entry.cpp, in chown(), chmod() and utimes(): "we need the
\* mode/time to leave it unchanged".
LeavesUnchanged == [][\A t \in Thread : ChangesOnly(t)]_vars

=============================================================================
