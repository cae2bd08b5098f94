--------------------------- MODULE ContentTypeProofs ---------------------------
(***************************************************************************)
(* What ContentType guarantees for content types of any length, ints of    *)
(* any width and any number of threads.                                    *)
(***************************************************************************)
EXTENDS ContentType, WellFoundedInduction, TLAPS

-----------------------------------------------------------------------------
(* Integers *)

\* A value that fits its type is not changed by a conversion to it, and every
\* conversion gives a value of the type.
LEMMA Conversions ==
  /\ \A n \in Int : ToUnsigned(n) \in 0 .. 2 * Half - 1
  /\ \A n \in Int : ToInt(n) \in Int
  /\ \A n \in 0 .. 2 * Half - 1 : ToUnsigned(n) = n
  /\ \A n \in Int : FitsInt(n) => ToInt(n) = n
<1>1. Half \in Nat /\ Half > 0
  BY ConstantsAssumption
<1>2. \A n \in Int : n % (2 * Half) \in 0 .. 2 * Half - 1
  BY <1>1
<1>3. \A n \in 0 .. 2 * Half - 1 : n % (2 * Half) = n
  BY <1>1
<1>4. \A n \in Int : FitsInt(n) => (n + Half) % (2 * Half) = n + Half
  BY <1>1, <1>3 DEF FitsInt
<1> QED BY <1>1, <1>2, <1>3, <1>4 DEF ToUnsigned, ToInt

-----------------------------------------------------------------------------
(* Parsing a whole content type *)

Start(garbage) == [key |-> None, attr |-> Defaults(garbage)]

\* What After promises of each word: that the recursion defines it.
IsRun(run, ws, garbage, n) ==
  run = [i \in 0 .. n |-> IF i = 0 THEN Start(garbage)
                          ELSE Take1(run[i - 1], ws[i])]

\* There is such a run over every number of words.
LEMMA RunExists ==
  ASSUME NEW ws, NEW garbage
  PROVE  \A n \in Nat : \E run : IsRun(run, ws, garbage, n)
<1> DEFINE Bad == {n \in Nat : ~ \E run : IsRun(run, ws, garbage, n)}
<1> SUFFICES ASSUME Bad # {} PROVE FALSE
  OBVIOUS
<1>1. PICK m \in Bad : \A n \in Bad : ~(<<n, m>> \in OpToRel(<, Nat))
  BY NatLessThanWellFounded, WFMin, Zenon
<1>2. \A n \in Bad : ~(n < m)
  BY <1>1 DEF OpToRel
<1>3. m # 0
  <2>1. IsRun([i \in 0 .. 0 |-> Start(garbage)], ws, garbage, 0)
    BY DEF IsRun
  <2> QED BY <2>1
<1>4. PICK run : IsRun(run, ws, garbage, m - 1)
  BY <1>2, <1>3
<1>5. IsRun([i \in 0 .. m |-> IF i = m THEN Take1(run[m - 1], ws[m]) ELSE run[i]],
            ws, garbage, m)
  BY <1>3, <1>4 DEF IsRun
<1> QED BY <1>5

\* After is the parse word by word: its recursion defines what it says.
LEMMA AfterEach ==
  ASSUME NEW ws \in Seq(Word), NEW garbage
  PROVE  /\ After(ws, garbage)[0] = Start(garbage)
         /\ \A n \in 1 .. Len(ws) :
              After(ws, garbage)[n] = Take1(After(ws, garbage)[n - 1], ws[n])
<1>1. After(ws, garbage) = CHOOSE run : IsRun(run, ws, garbage, Len(ws))
  BY DEF After, IsRun, Start
<1>2. Len(ws) \in Nat
  OBVIOUS
<1>3. IsRun(After(ws, garbage), ws, garbage, Len(ws))
  BY <1>1, <1>2, RunExists
<1> QED BY <1>2, <1>3 DEF IsRun

\* One more word leaves attributes with the types of struct stat.
LEMMA Take1Type ==
  ASSUME NEW word \in Word, NEW key \in Keys \cup {None}, NEW attr \in Attributes
  PROVE  LET s == Take1([key |-> key, attr |-> attr], word)
         IN  s.key \in Keys \cup {None} /\ s.attr \in Attributes
             /\ s = [key |-> s.key, attr |-> s.attr]
<1> DEFINE s == Take1([key |-> key, attr |-> attr], word)
<1>1. word.num \in Int
  BY DEF Word
<1>2. CASE key = None
  BY <1>2 DEF Take1
<1>3. CASE key # None
  <2>1. s = [key |-> None, attr |-> Assign(attr, key, word.num)]
    BY <1>3 DEF Take1
  <2>2. Assign(attr, key, word.num) \in Attributes
    BY <1>1, <1>3, Conversions DEF Assign, Attributes, Keys
  <2> QED BY <2>1, <2>2
<1> QED BY <1>2, <1>3

\* The attributes that are there before the first word have the types as well.
LEMMA DefaultsType ==
  ASSUME NEW garbage \in Garbage
  PROVE  Defaults(garbage) \in Attributes
BY ConstantsAssumption DEF Defaults, Attributes

-----------------------------------------------------------------------------
(* What is written can be read *)

\* What every reader gets of attributes that were formatted.
Read(a) ==
  [mode |-> ToUnsigned(a.mode), uid |-> ToUnsigned(a.uid),
   gid |-> ToUnsigned(a.gid), time |-> ToInt(a.time)]

\* A formatted content type is a content type.
LEMMA FormatType ==
  ASSUME NEW a \in Attributes
  PROVE  Format(a) \in Seq(Word) /\ Len(Format(a)) = 8
<1>1. a.mode \in Int /\ a.uid \in Int /\ a.gid \in Int /\ a.time \in Int
  BY DEF Attributes
<1>2. \A n \in Int : Number(n) \in Word
  BY DEF Number, Word, Letter
<1>3. Key("m") \in Word /\ Key("u") \in Word /\ Key("g") \in Word
      /\ Key("t") \in Word
  BY DEF Key, Word, Letter, Keys
<1> QED BY <1>1, <1>2, <1>3 DEF Format

\* Parsing what was formatted: four keys, four values, nothing left over of
\* what was there before.
LEMMA FormatParsed ==
  ASSUME NEW a \in Attributes, NEW garbage \in Garbage
  PROVE  Parse(Format(a), garbage) = Read(a)
<1> DEFINE ws == Format(a)
           at(n) == After(ws, garbage)[n]
<1>1. ws \in Seq(Word) /\ Len(ws) = 8
  BY FormatType
<1>2. /\ ws[1] = Key("m") /\ ws[2] = Number(a.mode)
      /\ ws[3] = Key("u") /\ ws[4] = Number(a.uid)
      /\ ws[5] = Key("g") /\ ws[6] = Number(a.gid)
      /\ ws[7] = Key("t") /\ ws[8] = Number(a.time)
  BY DEF Format
<1> HIDE DEF ws
<1>3. /\ at(0) = [key |-> None, attr |-> Defaults(garbage)]
      /\ at(1) = Take1(at(0), ws[1]) /\ at(2) = Take1(at(1), ws[2])
      /\ at(3) = Take1(at(2), ws[3]) /\ at(4) = Take1(at(3), ws[4])
      /\ at(5) = Take1(at(4), ws[5]) /\ at(6) = Take1(at(5), ws[6])
      /\ at(7) = Take1(at(6), ws[7]) /\ at(8) = Take1(at(7), ws[8])
  <2>1. at(0) = Start(garbage)
    BY <1>1, AfterEach
  <2>2. \A n \in 1 .. 8 : at(n) = Take1(at(n - 1), ws[n])
    <3>1. \A n \in 1 .. Len(ws) :
            After(ws, garbage)[n] = Take1(After(ws, garbage)[n - 1], ws[n])
      BY <1>1, AfterEach
    <3> QED BY <1>1, <3>1
  <2>3. /\ at(1) = Take1(at(0), ws[1]) /\ at(2) = Take1(at(1), ws[2])
        /\ at(3) = Take1(at(2), ws[3]) /\ at(4) = Take1(at(3), ws[4])
        /\ at(5) = Take1(at(4), ws[5]) /\ at(6) = Take1(at(5), ws[6])
        /\ at(7) = Take1(at(6), ws[7]) /\ at(8) = Take1(at(7), ws[8])
    <3> HIDE DEF at
    <3> QED BY <2>2
  <2> QED BY <2>1, <2>3 DEF Start
<1> HIDE DEF at
<1>4. ASSUME NEW key \in Keys, NEW attr
      PROVE  Take1([key |-> None, attr |-> attr], Key(key))
               = [key |-> key, attr |-> attr]
  BY DEF Take1, Key
<1>5. ASSUME NEW key \in Keys, NEW attr, NEW n
      PROVE  Take1([key |-> key, attr |-> attr], Number(n))
               = [key |-> None, attr |-> Assign(attr, key, n)]
  BY ConstantsAssumption DEF Take1, Number
<1>6. {"m", "u", "g", "t"} = Keys
  BY DEF Keys
<1> DEFINE d0 == Defaults(garbage)
           d1 == Assign(d0, "m", a.mode)
           d2 == Assign(d1, "u", a.uid)
           d3 == Assign(d2, "g", a.gid)
           d4 == Assign(d3, "t", a.time)
<1>7. d4 = Read(a)
  BY DEF Assign, Defaults, Read
<1> HIDE DEF d0, d1, d2, d3, d4
<1>8. at(1) = [key |-> "m", attr |-> d0]
  BY <1>2, <1>3, <1>4, <1>6 DEF d0
<1>9. at(2) = [key |-> None, attr |-> d1]
  <2>1. Take1([key |-> "m", attr |-> d0], Number(a.mode))
          = [key |-> None, attr |-> Assign(d0, "m", a.mode)]
    BY <1>5, <1>6
  <2> QED BY <1>2, <1>3, <1>8, <2>1 DEF d1
<1>10. at(3) = [key |-> "u", attr |-> d1]
  BY <1>2, <1>3, <1>4, <1>6, <1>9
<1>11. at(4) = [key |-> None, attr |-> d2]
  <2>1. Take1([key |-> "u", attr |-> d1], Number(a.uid))
          = [key |-> None, attr |-> Assign(d1, "u", a.uid)]
    BY <1>5, <1>6
  <2> QED BY <1>2, <1>3, <1>10, <2>1 DEF d2
<1>12. at(5) = [key |-> "g", attr |-> d2]
  BY <1>2, <1>3, <1>4, <1>6, <1>11
<1>13. at(6) = [key |-> None, attr |-> d3]
  <2>1. Take1([key |-> "g", attr |-> d2], Number(a.gid))
          = [key |-> None, attr |-> Assign(d2, "g", a.gid)]
    BY <1>5, <1>6
  <2> QED BY <1>2, <1>3, <1>12, <2>1 DEF d3
<1>14. at(7) = [key |-> "t", attr |-> d3]
  BY <1>2, <1>3, <1>4, <1>6, <1>13
<1>15. at(8) = [key |-> None, attr |-> d4]
  <2>1. Take1([key |-> "t", attr |-> d3], Number(a.time))
          = [key |-> None, attr |-> Assign(d3, "t", a.time)]
    BY <1>5, <1>6
  <2> QED BY <1>2, <1>3, <1>14, <2>1 DEF d4
<1>16. After(Format(a), garbage)[Len(Format(a))] = [key |-> None, attr |-> d4]
  BY <1>1, <1>15 DEF at, ws
<1> QED BY <1>7, <1>16 DEF Parse

\* And all that a reader may be shown is that.
LEMMA FormatShown ==
  ASSUME NEW a \in Attributes
  PROVE  Shown(Format(a)) = {Read(a)} /\ Read(a) \in Attributes
<1>1. Shown(Format(a)) = {Read(a)}
  BY FormatParsed, ConstantsAssumption DEF Shown
<1>2. Read(a) \in Attributes
  BY Conversions DEF Read, Attributes
<1> QED BY <1>1, <1>2

-----------------------------------------------------------------------------
(* Type correctness *)

\* A parser goes on with a word, or ends, and is the same parser.
LEMMA GotWord ==
  ASSUME NEW s \in ParserState, s.at = "parse", s.attr \in Attributes,
         NEW word \in Word \cup {None}
  PROVE  /\ Got(s, word) \in ParserState /\ Got(s, word).attr \in Attributes
         /\ Got(s, word).op = s.op /\ Got(s, word).copy = s.copy
         /\ Got(s, word).newest = s.newest /\ Got(s, word).crossed = s.crossed
         /\ Got(s, word).at = IF word = None THEN "parsed" ELSE "parse"
         /\ [key |-> Got(s, word).key, attr |-> Got(s, word).attr]
              = IF word = None THEN [key |-> s.key, attr |-> s.attr]
                ELSE Take1([key |-> s.key, attr |-> s.attr], word)
<1>1. CASE word = None
  <2> DEFINE g == [s EXCEPT !.at = "parsed"]
  <2>1. Got(s, word) = g
    BY <1>1 DEF Got
  <2>2. g \in ParserState
    BY DEF ParserState
  <2>3. /\ g.attr = s.attr /\ g.op = s.op /\ g.copy = s.copy /\ g.key = s.key
        /\ g.newest = s.newest /\ g.crossed = s.crossed /\ g.at = "parsed"
    BY DEF ParserState
  <2> HIDE DEF g
  <2> QED BY <1>1, <2>1, <2>2, <2>3
<1>2. CASE word # None
  <2>1. s.key \in Keys \cup {None}
    BY DEF ParserState
  <2>2. PICK key \in Keys \cup {None}, attr \in Attributes :
          Take1([key |-> s.key, attr |-> s.attr], word)
            = [key |-> key, attr |-> attr]
    BY <1>2, <2>1, Take1Type
  <2> DEFINE g == [s EXCEPT !.key = key, !.attr = attr]
  <2>3. Got(s, word) = g
    <3> DEFINE next == Take1([key |-> s.key, attr |-> s.attr], word)
    <3>1. Got(s, word) = [s EXCEPT !.key = next.key, !.attr = next.attr]
      BY <1>2 DEF Got
    <3>2. next.key = key /\ next.attr = attr
      BY <2>2
    <3> QED BY <3>1, <3>2
  <2>4. g \in ParserState
    BY DEF ParserState
  <2>5. /\ g.attr = attr /\ g.op = s.op /\ g.copy = s.copy /\ g.key = key
        /\ g.newest = s.newest /\ g.crossed = s.crossed /\ g.at = "parse"
    BY DEF ParserState
  <2> HIDE DEF g
  <2> QED BY <1>2, <2>2, <2>3, <2>4, <2>5
<1> QED BY <1>1, <1>2

\* A parser that begins.
NewParser(t, op, garbage) ==
  [at |-> "parse", op |-> op, copy |-> words, key |-> None,
   attr |-> Defaults(garbage), newest |-> TRUE, crossed |-> Parsing # {}]

LEMMA NewParserType ==
  ASSUME TypeOK, words # None, NEW t \in Thread, NEW op \in Ops,
         NEW garbage \in Garbage
  PROVE  /\ NewParser(t, op, garbage) \in ParserState
         /\ NewParser(t, op, garbage).at = "parse"
         /\ NewParser(t, op, garbage).op = op
         /\ NewParser(t, op, garbage).copy = words
         /\ NewParser(t, op, garbage).key = None
         /\ NewParser(t, op, garbage).attr = Defaults(garbage)
         /\ NewParser(t, op, garbage).attr \in Attributes
         /\ NewParser(t, op, garbage).crossed = (Parsing # {})
<1>1. (Parsing # {}) \in BOOLEAN
  OBVIOUS
<1>2. Defaults(garbage) \in Attributes
  BY DefaultsType
<1> QED BY <1>1, <1>2 DEF NewParser, ParserState, TypeOK

\* What a parser gets from strtok is a word or the end.
LEMMA TokensType ==
  ASSUME TypeOK, Parsing # {}
  PROVE  Tokens \subseteq Word \cup {None}
<1>1. olds.of \in Thread /\ olds.taken \in Nat
  BY DEF TypeOK
<1>2. parser[olds.of].copy \in Seq(Word)
  BY <1>1 DEF TypeOK, ParserState
<1>3. olds.taken < Len(parser[olds.of].copy)
        => parser[olds.of].copy[olds.taken + 1] \in Word
  BY <1>1, <1>2
<1> QED BY <1>3, ConstantsAssumption DEF Tokens

\* A handler that begins to parse.
LEMMA BeginType ==
  ASSUME TypeOK, NEW t \in Thread, NEW op \in Ops, Begin(t, op)
  PROVE  TypeOK'
<1>1. words # None /\ parser[t].at = "idle" /\ words \in Seq(Word)
  BY DEF Begin, TypeOK
<1>2. PICK garbage \in Garbage :
        parser' = [u \in Thread |->
                     IF u = t
                     THEN Got(NewParser(t, op, garbage),
                              IF words = <<>> THEN None ELSE Head(words))
                     ELSE [parser[u] EXCEPT !.crossed = @ \/ u \in Parsing]]
  BY DEF Begin, NewParser
<1>3. (IF words = <<>> THEN None ELSE Head(words)) \in Word \cup {None}
  BY <1>1
<1>4. /\ parser'[t] \in ParserState /\ parser'[t].attr \in Attributes
      /\ parser'[t].op \in Ops
  <2> DEFINE new == NewParser(t, op, garbage)
             first == IF words = <<>> THEN None ELSE Head(words)
  <2>1. new \in ParserState /\ new.at = "parse" /\ new.attr \in Attributes
        /\ new.op = op
    BY <1>1, NewParserType
  <2>2. parser'[t] = Got(new, first) /\ first \in Word \cup {None}
    BY <1>2, <1>3
  <2> HIDE DEF new, first
  <2>3. Got(new, first) \in ParserState /\ Got(new, first).attr \in Attributes
        /\ Got(new, first).op = new.op
    BY <2>1, <2>2, GotWord
  <2> QED BY <2>1, <2>2, <2>3
<1>5. ASSUME NEW u \in Thread, u # t
      PROVE  /\ parser'[u] \in ParserState
             /\ parser'[u].at = parser[u].at /\ parser'[u].op = parser[u].op
             /\ parser'[u].attr = parser[u].attr
  <2>1. parser'[u] = [parser[u] EXCEPT !.crossed = parser[u].crossed \/ u \in Parsing]
    BY <1>2, <1>5
  <2>2. parser[u] \in ParserState
    BY DEF TypeOK
  <2>3. (parser[u].crossed \/ u \in Parsing) \in BOOLEAN
    OBVIOUS
  <2> QED BY <2>1, <2>2, <2>3 DEF ParserState
<1>6. parser' \in [Thread -> ParserState]
  BY <1>2, <1>4, <1>5
<1>7. olds' = [of |-> t, taken |-> 1] /\ calls' \in Nat /\ words' = words
  BY DEF Begin, Request, TypeOK
<1> QED BY <1>1, <1>4, <1>5, <1>6, <1>7, ConstantsAssumption DEF TypeOK

\* A parser that goes on.
LEMMA TakeType ==
  ASSUME TypeOK, NEW t \in Thread, Take(t)
  PROVE  TypeOK'
<1>1. t \in Parsing /\ words' = words /\ calls' = calls
  BY DEF Take
<1>2. PICK word \in Tokens :
        /\ parser' = [parser EXCEPT ![t] = Got(parser[t], word)]
        /\ olds' = [olds EXCEPT !.taken =
                      IF word = None \/ olds.of \notin Parsing THEN @ ELSE @ + 1]
  BY DEF Take
<1>3. word \in Word \cup {None}
  BY <1>1, TokensType
<1>4. /\ Got(parser[t], word) \in ParserState
      /\ Got(parser[t], word).attr \in Attributes
      /\ Got(parser[t], word).op \in Ops
  BY <1>1, <1>3, GotWord DEF TypeOK, Parsing
<1>5. parser' \in [Thread -> ParserState] /\ parser'[t] = Got(parser[t], word)
      /\ \A u \in Thread \ {t} : parser'[u] = parser[u]
  BY <1>2, <1>4 DEF TypeOK
<1>6. olds' \in [of: Thread \cup {None}, taken: Nat] /\ olds'.of = olds.of
  BY <1>2 DEF TypeOK
<1> QED BY <1>1, <1>4, <1>5, <1>6 DEF TypeOK

\* Nobody is parsing after a restart.
LEMMA IdleType == Idle \in ParserState /\ Idle.at = "idle" /\ ~Idle.crossed
BY DEF Idle, ParserState

LEMMA DieType ==
  ASSUME TypeOK, NEW t \in Thread, Die(t)
  PROVE  TypeOK'
BY IdleType, ConstantsAssumption DEF TypeOK, Die, Parsing

\* Another document, or none.
LEMMA ReplaceType ==
  ASSUME TypeOK, NEW ws, ws = None \/ ws \in Seq(Word), Replace(ws)
  PROVE  TypeOK'
<1>1. ASSUME NEW t \in Thread
      PROVE  /\ parser'[t] \in ParserState
             /\ parser'[t].at = parser[t].at /\ parser'[t].op = parser[t].op
             /\ parser'[t].attr = parser[t].attr
  BY <1>1 DEF Replace, TypeOK, ParserState
<1>2. Parsing' = Parsing
  BY <1>1 DEF Parsing
<1> QED BY <1>1, <1>2 DEF TypeOK, Replace, Request

\* The answer of a handler: it is idle again, and the content type it wrote is one.
LEMMA EndType ==
  ASSUME TypeOK, NEW t \in Thread, parser[t].at = "parsed",
         parser' = [parser EXCEPT ![t] = Idle], UNCHANGED <<olds, calls>>,
         words' = words \/ words' \in Seq(Word)
  PROVE  TypeOK'
<1>1. Parsing' = Parsing
  BY IdleType DEF Parsing, TypeOK
<1> QED BY <1>1, IdleType DEF TypeOK

\* What the handlers that change a document write.
LEMMA NewAttributes ==
  ASSUME NEW attr \in Attributes
  PROVE  /\ \A m \in Mode : [attr EXCEPT !.mode = m] \in Attributes
         /\ \A i, j \in Id : [attr EXCEPT !.uid = i, !.gid = j] \in Attributes
         /\ \A n \in Time : [attr EXCEPT !.time = n] \in Attributes
<1>1. Mode \cup Id \subseteq 0 .. 2 * Half - 1 /\ Time \subseteq Int
  BY ConstantsAssumption
<1> QED BY <1>1 DEF Attributes

\* Their steps, and what of it is written.
LEMMA ChangeWrites ==
  ASSUME TypeOK, NEW t \in Thread,
         \/ \E m \in Mode : Chmod(t, m)
         \/ \E i, j \in Id : Chown(t, i, j)
         \/ \E n \in Time : Utimens(t, n)
  PROVE  /\ parser[t].at = "parsed" /\ parser' = [parser EXCEPT ![t] = Idle]
         /\ UNCHANGED <<olds, calls>>
         /\ words' = words \/ \E a \in Attributes : words' = Format(a)
<1>1. parser[t].at = "parsed" => parser[t].attr \in Attributes
  BY DEF TypeOK
<1> QED BY <1>1, NewAttributes DEF Chmod, Chown, Utimens, Change

\* create writes attributes, too.
LEMMA CreateWrites ==
  ASSUME NEW m \in Mode, NEW now \in Time, Create(m, now)
  PROVE  \E a \in Attributes : Replace(Format(a))
<1>1. Mode \cup Id \subseteq 0 .. 2 * Half - 1 /\ Time \subseteq Int
      /\ DefaultUid \in Id /\ DefaultGid \in Id
  BY ConstantsAssumption
<1>2. [mode |-> m, uid |-> DefaultUid, gid |-> DefaultGid, time |-> now] \in Attributes
  BY <1>1 DEF Attributes
<1> QED BY <1>2 DEF Create

\* Every variable has its type at all times.
THEOREM TypeCorrect == Spec => []TypeOK
<1>1. Init => TypeOK
  BY IdleType DEF Init, TypeOK, Parsing
<1>2. TypeOK /\ [Next]_vars => TypeOK'
  <2> SUFFICES ASSUME TypeOK, [Next]_vars PROVE TypeOK'
    OBVIOUS
  <2>1. ASSUME NEW m \in Mode, NEW now \in Time, Create(m, now) PROVE TypeOK'
    BY <2>1, CreateWrites, ReplaceType, FormatType
  <2>2. ASSUME NEW ws \in Foreign, Upload(ws) PROVE TypeOK'
    BY <2>2, ReplaceType, ConstantsAssumption DEF Upload
  <2>3. CASE Unlink
    BY <2>3, ReplaceType DEF Unlink
  <2>4. ASSUME NEW t \in Thread,
               \/ \E m \in Mode : Chmod(t, m)
               \/ \E i, j \in Id : Chown(t, i, j)
               \/ \E n \in Time : Utimens(t, n)
        PROVE  TypeOK'
    BY <2>4, ChangeWrites, EndType, FormatType
  <2>5. ASSUME NEW t \in Thread, Getattr(t) PROVE TypeOK'
    BY <2>5, EndType DEF Getattr
  <2>6. ASSUME NEW t \in Thread, NEW op \in Ops, Begin(t, op) PROVE TypeOK'
    BY <2>6, BeginType
  <2>7. ASSUME NEW t \in Thread, Take(t) \/ Die(t) PROVE TypeOK'
    BY <2>7, TakeType, DieType
  <2>8. CASE UNCHANGED vars
    BY <2>8 DEF vars, TypeOK, Parsing
  <2> QED BY <2>1, <2>2, <2>3, <2>4, <2>5, <2>6, <2>7, <2>8 DEF Next
<1> QED BY <1>1, <1>2, PTL DEF Spec

-----------------------------------------------------------------------------
(* A document that one of the handlers has written *)

\* It is the format of some attributes.
WrittenInv == words \in Foreign \cup {None} \/ \E a \in Attributes : words = Format(a)

\* Every change formats attributes, whatever it has parsed.
THEOREM WrittenInductive == Spec => []WrittenInv
<1>1. Init => WrittenInv
  BY DEF Init, WrittenInv
<1>2. TypeOK /\ WrittenInv /\ [Next]_vars => WrittenInv'
  <2> SUFFICES ASSUME TypeOK, WrittenInv, [Next]_vars PROVE WrittenInv'
    OBVIOUS
  <2>1. ASSUME NEW m \in Mode, NEW now \in Time, Create(m, now) PROVE WrittenInv'
    BY <2>1, CreateWrites DEF Replace, WrittenInv
  <2>2. CASE Unlink \/ \E ws \in Foreign : Upload(ws)
    BY <2>2 DEF Unlink, Upload, Replace, WrittenInv
  <2>3. ASSUME NEW t \in Thread,
               \/ \E m \in Mode : Chmod(t, m)
               \/ \E i, j \in Id : Chown(t, i, j)
               \/ \E n \in Time : Utimens(t, n)
        PROVE  WrittenInv'
    BY <2>3, ChangeWrites DEF WrittenInv
  <2>4. CASE UNCHANGED words
    BY <2>4 DEF WrittenInv
  <2> QED BY <2>1, <2>2, <2>3, <2>4 DEF Next, Begin, Take, Die, Getattr, vars
<1> QED BY <1>1, <1>2, TypeCorrect, PTL DEF Spec

\* Whatever the handlers have written parses, to attributes that no garbage on
\* the stack of a reader has a part in.
THEOREM WritesAreReadable == Spec => []WrittenIsReadable
<1>1. WrittenInv => WrittenIsReadable
  BY FormatShown DEF WrittenInv, WrittenIsReadable
<1> QED BY <1>1, WrittenInductive, PTL

-----------------------------------------------------------------------------
(* A parse that no other thread crosses *)

\* s has parsed n words of its copy, in their order.
HasParsed(s, n) ==
  \E garbage \in Garbage :
    After(s.copy, garbage)[n] = [key |-> s.key, attr |-> s.attr]

\* A parser that has not been crossed is the only one, strtok's static is its
\* own, and it has taken from its copy what strtok says; one that has ended has
\* taken all of it.
AloneInv ==
  \A t \in Thread : ~parser[t].crossed =>
    /\ parser[t].at = "parse" =>
         /\ Parsing = {t} /\ olds.of = t
         /\ olds.taken \in 1 .. Len(parser[t].copy)
         /\ HasParsed(parser[t], olds.taken)
    /\ parser[t].at = "parsed" =>
         /\ parser[t].key = None
         /\ HasParsed(parser[t], Len(parser[t].copy))

\* A parse that begins makes all others crossed, and is itself if there is one.
LEMMA BeginAlone ==
  ASSUME TypeOK, AloneInv, NEW t \in Thread, NEW op \in Ops, Begin(t, op)
  PROVE  AloneInv'
<1>1. words # None /\ parser[t].at = "idle" /\ words \in Seq(Word)
  BY DEF Begin, TypeOK
<1>2. PICK garbage \in Garbage :
        parser' = [u \in Thread |->
                     IF u = t
                     THEN Got(NewParser(t, op, garbage),
                              IF words = <<>> THEN None ELSE Head(words))
                     ELSE [parser[u] EXCEPT !.crossed = @ \/ u \in Parsing]]
  BY DEF Begin, NewParser
<1> DEFINE new == NewParser(t, op, garbage)
           first == IF words = <<>> THEN None ELSE Head(words)
<1>3. /\ new \in ParserState /\ new.at = "parse" /\ new.attr \in Attributes
      /\ new.copy = words /\ new.key = None /\ new.attr = Defaults(garbage)
      /\ new.crossed = (Parsing # {})
  BY <1>1, NewParserType
<1>4. parser'[t] = Got(new, first) /\ first \in Word \cup {None}
  BY <1>1, <1>2
<1>5. /\ words = <<>> => first = None /\ Len(words) = 0
      /\ words # <<>> => first = words[1] /\ first # None /\ Len(words) >= 1
  BY <1>1, ConstantsAssumption
<1> HIDE DEF new, first
<1>6. /\ parser'[t].copy = words /\ parser'[t].crossed = (Parsing # {})
      /\ parser'[t].at = IF first = None THEN "parsed" ELSE "parse"
      /\ [key |-> parser'[t].key, attr |-> parser'[t].attr]
           = IF first = None THEN [key |-> new.key, attr |-> new.attr]
             ELSE Take1([key |-> new.key, attr |-> new.attr], first)
  BY <1>3, <1>4, GotWord
<1>7. olds'.of = t /\ olds'.taken = 1
  BY DEF Begin
<1>8. ASSUME NEW u \in Thread, u # t
      PROVE  /\ parser'[u].at = parser[u].at /\ parser'[u].copy = parser[u].copy
             /\ parser'[u].key = parser[u].key /\ parser'[u].attr = parser[u].attr
             /\ ~parser'[u].crossed => ~parser[u].crossed /\ parser[u].at # "parse"
  <2>1. parser'[u] = [parser[u] EXCEPT !.crossed = parser[u].crossed \/ u \in Parsing]
    BY <1>2, <1>8
  <2>2. parser[u] \in ParserState
    BY DEF TypeOK
  <2> QED BY <2>1, <2>2 DEF ParserState, Parsing
<1>9. ASSUME NEW u \in Thread, u # t, ~parser'[u].crossed
      PROVE  /\ parser'[u].at # "parse"
             /\ parser'[u].at = "parsed" =>
                  /\ parser'[u].key = None
                  /\ HasParsed(parser'[u], Len(parser'[u].copy))
  BY <1>8, <1>9 DEF AloneInv, HasParsed
<1>10. ASSUME ~parser'[t].crossed
       PROVE  /\ parser'[t].at = "parse" =>
                   /\ Parsing' = {t} /\ 1 \in 1 .. Len(words)
                   /\ HasParsed(parser'[t], 1)
              /\ parser'[t].at = "parsed" =>
                   /\ parser'[t].key = None
                   /\ HasParsed(parser'[t], Len(words))
  <2>1. After(words, garbage)[0] = [key |-> None, attr |-> Defaults(garbage)]
    BY <1>1, AfterEach DEF Start
  <2>2. CASE first = None
    <3>1. parser'[t].key = None /\ parser'[t].attr = Defaults(garbage)
      BY <1>3, <1>6, <2>2
    <3> QED BY <1>5, <1>6, <2>1, <2>2, <3>1 DEF HasParsed
  <2>3. CASE first # None
    <3>1. 1 \in 1 .. Len(words) /\ first = words[1]
      BY <1>1, <1>5, <2>3
    <3>2. After(words, garbage)[1] = Take1(After(words, garbage)[1 - 1], words[1])
      BY <1>1, <3>1, AfterEach
    <3>3. After(words, garbage)[1]
            = [key |-> parser'[t].key, attr |-> parser'[t].attr]
      BY <1>3, <1>6, <2>1, <2>3, <3>1, <3>2
    <3>4. parser'[t].at = "parse" /\ Parsing = {}
      BY <1>6, <1>10, <2>3
    <3>5. Parsing' = {t}
      BY <1>8, <3>4 DEF Parsing
    <3>6. HasParsed(parser'[t], 1)
      BY <1>6, <3>3 DEF HasParsed
    <3>7. parser'[t].at # "parsed"
      BY <3>4
    <3> QED BY <3>1, <3>4, <3>5, <3>6, <3>7
  <2> QED BY <2>2, <2>3
<1>11. ASSUME NEW u \in Thread, ~parser'[u].crossed
       PROVE  /\ parser'[u].at = "parse" =>
                   /\ Parsing' = {u} /\ olds'.of = u
                   /\ olds'.taken \in 1 .. Len(parser'[u].copy)
                   /\ HasParsed(parser'[u], olds'.taken)
              /\ parser'[u].at = "parsed" =>
                   /\ parser'[u].key = None
                   /\ HasParsed(parser'[u], Len(parser'[u].copy))
  <2>1. CASE u = t
    BY <1>6, <1>7, <1>10, <1>11, <2>1
  <2>2. CASE u # t
    BY <1>9, <1>11, <2>2
  <2> QED BY <2>1, <2>2
<1> QED BY <1>11 DEF AloneInv

\* A parser that is alone gets the next word of its own copy.
LEMMA TakeAlone ==
  ASSUME TypeOK, AloneInv, NEW t \in Thread, Take(t)
  PROVE  AloneInv'
<1> DEFINE s == parser[t]
<1>1. t \in Parsing /\ s.at = "parse" /\ s \in ParserState /\ s.attr \in Attributes
  BY DEF Take, Parsing, TypeOK
<1>2. PICK word \in Tokens :
        /\ word = None => s.key = None
        /\ parser' = [parser EXCEPT ![t] = Got(s, word)]
        /\ olds' = [olds EXCEPT !.taken =
                      IF word = None \/ olds.of \notin Parsing THEN @ ELSE @ + 1]
  BY DEF Take
<1>3. word \in Word \cup {None}
  BY <1>1, TokensType
<1>4. /\ parser'[t].copy = s.copy /\ parser'[t].crossed = s.crossed
      /\ parser'[t].at = IF word = None THEN "parsed" ELSE "parse"
      /\ [key |-> parser'[t].key, attr |-> parser'[t].attr]
           = IF word = None THEN [key |-> s.key, attr |-> s.attr]
             ELSE Take1([key |-> s.key, attr |-> s.attr], word)
  <2>1. parser'[t] = Got(s, word)
    BY <1>2 DEF TypeOK
  <2> HIDE DEF s
  <2> QED BY <1>1, <1>3, <2>1, GotWord
<1>5. \A u \in Thread \ {t} : parser'[u] = parser[u]
  BY <1>2 DEF TypeOK
<1>6. ASSUME NEW u \in Thread, u # t, ~parser'[u].crossed
      PROVE  /\ parser'[u].at # "parse"
             /\ parser'[u].at = "parsed" =>
                  /\ parser'[u].key = None
                  /\ HasParsed(parser'[u], Len(parser'[u].copy))
  <2>1. parser'[u] = parser[u]
    BY <1>5, <1>6
  <2>2. parser[u].at # "parse"
    BY <1>1, <1>6, <2>1 DEF AloneInv
  <2> QED BY <1>6, <2>1, <2>2 DEF AloneInv
<1>7. ASSUME ~parser'[t].crossed
      PROVE  /\ parser'[t].at = "parse" =>
                  /\ Parsing' = {t} /\ olds'.of = t
                  /\ olds'.taken \in 1 .. Len(s.copy)
                  /\ HasParsed(parser'[t], olds'.taken)
             /\ parser'[t].at = "parsed" =>
                  /\ parser'[t].key = None
                  /\ HasParsed(parser'[t], Len(s.copy))
  <2>1. /\ Parsing = {t} /\ olds.of = t /\ olds.taken \in 1 .. Len(s.copy)
        /\ HasParsed(s, olds.taken) /\ s.copy \in Seq(Word)
    BY <1>1, <1>4, <1>7 DEF AloneInv, ParserState
  <2>2. PICK garbage \in Garbage :
          After(s.copy, garbage)[olds.taken] = [key |-> s.key, attr |-> s.attr]
    BY <2>1 DEF HasParsed
  <2>3. word = IF olds.taken < Len(s.copy) THEN s.copy[olds.taken + 1] ELSE None
    BY <1>1, <1>2, <2>1 DEF Tokens
  <2>4. CASE word = None
    <3>1. olds.taken = Len(s.copy)
      <4>1. olds.taken < Len(s.copy) => s.copy[olds.taken + 1] \in Word
        BY <2>1
      <4> QED BY <2>1, <2>3, <2>4, <4>1, ConstantsAssumption
    <3>2. parser'[t].key = s.key /\ parser'[t].attr = s.attr /\ s.key = None
      BY <1>2, <1>4, <2>4
    <3> QED BY <1>4, <2>2, <2>4, <3>1, <3>2 DEF HasParsed
  <2>5. CASE word # None
    <3>1. olds.taken + 1 \in 1 .. Len(s.copy) /\ word = s.copy[olds.taken + 1]
      BY <2>1, <2>3, <2>5
    <3>2. After(s.copy, garbage)[olds.taken + 1]
            = Take1(After(s.copy, garbage)[olds.taken + 1 - 1], s.copy[olds.taken + 1])
      BY <2>1, <3>1, AfterEach
    <3>3. After(s.copy, garbage)[olds.taken + 1]
            = [key |-> parser'[t].key, attr |-> parser'[t].attr]
      BY <1>4, <2>1, <2>2, <2>5, <3>1, <3>2
    <3>4. olds'.of = t /\ olds'.taken = olds.taken + 1
      BY <1>2, <2>1, <2>5 DEF TypeOK
    <3>5. Parsing' = {t} /\ parser'[t].at = "parse"
      BY <1>4, <1>5, <2>1, <2>5 DEF Parsing
    <3> QED BY <1>4, <3>1, <3>3, <3>4, <3>5 DEF HasParsed
  <2> QED BY <2>4, <2>5
<1> QED BY <1>4, <1>6, <1>7 DEF AloneInv

\* What a parser knows of its copy outlives what becomes of the document.
LEMMA AloneKept ==
  ASSUME AloneInv, UNCHANGED olds, Parsing' = Parsing,
         \A t \in Thread :
           \/ parser'[t].at = "idle"
           \/ /\ parser'[t].at = parser[t].at /\ parser'[t].copy = parser[t].copy
              /\ parser'[t].key = parser[t].key /\ parser'[t].attr = parser[t].attr
              /\ parser'[t].crossed = parser[t].crossed
  PROVE  AloneInv'
BY DEF AloneInv, HasParsed

\* As long as it is alone, a parser has parsed its copy and nothing else.
THEOREM AloneInductive == Spec => []AloneInv
<1>1. Init => AloneInv
  BY IdleType DEF Init, AloneInv
<1>2. TypeOK /\ AloneInv /\ [Next]_vars => AloneInv'
  <2> SUFFICES ASSUME TypeOK, AloneInv, [Next]_vars PROVE AloneInv'
    OBVIOUS
  <2>1. ASSUME NEW ws, Replace(ws) PROVE AloneInv'
    <3>1. ASSUME NEW t \in Thread
          PROVE  /\ parser'[t].at = parser[t].at /\ parser'[t].copy = parser[t].copy
                 /\ parser'[t].key = parser[t].key /\ parser'[t].attr = parser[t].attr
                 /\ parser'[t].crossed = parser[t].crossed
      BY <2>1, <3>1 DEF Replace, TypeOK, ParserState
    <3>2. Parsing' = Parsing
      BY <3>1 DEF Parsing
    <3> QED BY <2>1, <3>1, <3>2, AloneKept DEF Replace
  <2>2. ASSUME NEW t \in Thread, parser[t].at = "parsed",
               parser' = [parser EXCEPT ![t] = Idle], UNCHANGED olds
        PROVE  AloneInv'
    <3>1. parser'[t].at = "idle" /\ \A u \in Thread \ {t} : parser'[u] = parser[u]
      BY <2>2, IdleType DEF TypeOK
    <3>2. Parsing' = Parsing
      BY <2>2, <3>1 DEF Parsing
    <3> QED BY <2>2, <3>1, <3>2, AloneKept
  <2>3. ASSUME NEW t \in Thread,
               \/ \E m \in Mode : Chmod(t, m)
               \/ \E i, j \in Id : Chown(t, i, j)
               \/ \E n \in Time : Utimens(t, n)
        PROVE  AloneInv'
    BY <2>2, <2>3, ChangeWrites
  <2>4. ASSUME NEW t \in Thread, Getattr(t) PROVE AloneInv'
    BY <2>2, <2>4 DEF Getattr
  <2>5. ASSUME NEW t \in Thread, NEW op \in Ops, Begin(t, op) PROVE AloneInv'
    BY <2>5, BeginAlone
  <2>6. ASSUME NEW t \in Thread, Take(t) PROVE AloneInv'
    BY <2>6, TakeAlone
  <2>7. ASSUME NEW t \in Thread, Die(t) PROVE AloneInv'
    BY <2>7, IdleType DEF Die, AloneInv
  <2>8. CASE UNCHANGED vars
    BY <2>8 DEF vars, AloneInv, Parsing
  <2> QED BY <2>1, <2>3, <2>4, <2>5, <2>6, <2>7, <2>8
          DEF Next, Create, Upload, Unlink
<1> QED BY <1>1, <1>2, TypeCorrect, PTL DEF Spec

\* A parse that no other thread crosses shows what the document says, however
\* long that is and whatever strtok was left with.
THEOREM AloneParsesAreExact == Spec => []AloneIsExact
<1>1. AloneInv => AloneIsExact
  <2> SUFFICES ASSUME AloneInv, NEW t \in Thread, parser[t].at = "parsed",
                      ~parser[t].crossed
               PROVE  parser[t].attr \in Shown(parser[t].copy)
    BY DEF AloneIsExact
  <2>1. PICK garbage \in Garbage :
          After(parser[t].copy, garbage)[Len(parser[t].copy)]
            = [key |-> None, attr |-> parser[t].attr]
    <3>1. parser[t].key = None /\ HasParsed(parser[t], Len(parser[t].copy))
      BY DEF AloneInv
    <3> QED BY <3>1 DEF HasParsed
  <2>2. Parse(parser[t].copy, garbage) = parser[t].attr
    BY <2>1 DEF Parse
  <2> QED BY <2>2 DEF Shown
<1> QED BY <1>1, AloneInductive, PTL

-----------------------------------------------------------------------------
(* What a change leaves and what it sets *)

\* After a change that was not crossed, the fields that it does not name are
\* what they were in the document: it took them over from an exact parse, and
\* formatting and parsing give back every value of its type.
THEOREM OthersAreKept == Spec => OthersUnchanged
<1>1. TypeOK /\ AloneIsExact => \A t \in Thread : ~parser[t].crossed => ChangesOnly(t)
  <2> SUFFICES ASSUME TypeOK, AloneIsExact, NEW t \in Thread, ~parser[t].crossed
               PROVE  ChangesOnly(t)
    OBVIOUS
  <2> DEFINE a == parser[t].attr
  <2>1. ASSUME parser[t].at = "parsed"
        PROVE  a \in Attributes /\ a \in Shown(parser[t].copy)
    BY <2>1 DEF TypeOK, AloneIsExact
  <2>2. ASSUME NEW new \in Attributes, NEW fields,
               fields \subseteq {"mode", "uid", "gid", "time"},
               parser[t].at = "parsed", parser[t].newest => words' = Format(new),
               \A f \in fields : new[f] = a[f]
        PROVE  Keeps(t, fields)
    <3> SUFFICES ASSUME parser[t].newest, NEW b \in Shown(words')
                 PROVE  \A f \in fields : a[f] = b[f] \/ (f = "time" /\ ~FitsInt(a.time))
      BY <2>1, <2>2 DEF Keeps
    <3>1. b = Read(new)
      BY <2>2, FormatShown
    <3>2. /\ new.mode \in 0 .. 2 * Half - 1 /\ new.uid \in 0 .. 2 * Half - 1
          /\ new.gid \in 0 .. 2 * Half - 1 /\ new.time \in Int
      BY <2>2 DEF Attributes
    <3>3. /\ b.mode = new.mode /\ b.uid = new.uid /\ b.gid = new.gid
          /\ FitsInt(new.time) => b.time = new.time
      BY <3>1, <3>2, Conversions DEF Read
    <3>4. CASE "time" \in fields
      <4>1. new.time = a.time
        BY <2>2, <3>4
      <4> QED BY <2>2, <3>3, <4>1
    <3>5. CASE "time" \notin fields
      BY <2>2, <3>3, <3>5
    <3> QED BY <3>4, <3>5
  <2>3. ASSUME NEW m \in Mode, Chmod(t, m) PROVE Keeps(t, {"uid", "gid", "time"})
    <3> DEFINE new == [a EXCEPT !.mode = m]
    <3>1. /\ new \in Attributes /\ parser[t].at = "parsed"
          /\ parser[t].newest => words' = Format(new)
      BY <2>1, <2>3, NewAttributes DEF Chmod, Change
    <3>2. new.uid = a.uid /\ new.gid = a.gid /\ new.time = a.time
      BY <2>1, <3>1 DEF Attributes
    <3> HIDE DEF new
    <3> QED BY <2>2, <3>1, <3>2
  <2>4. ASSUME NEW i \in Id, NEW j \in Id, Chown(t, i, j)
        PROVE  Keeps(t, {"mode", "time"})
    <3> DEFINE new == [a EXCEPT !.uid = i, !.gid = j]
    <3>1. /\ new \in Attributes /\ parser[t].at = "parsed"
          /\ parser[t].newest => words' = Format(new)
      BY <2>1, <2>4, NewAttributes DEF Chown, Change
    <3>2. new.mode = a.mode /\ new.time = a.time
      BY <2>1, <3>1 DEF Attributes
    <3> HIDE DEF new
    <3> QED BY <2>2, <3>1, <3>2
  <2>5. ASSUME NEW n \in Time, Utimens(t, n) PROVE Keeps(t, {"mode", "uid", "gid"})
    <3> DEFINE new == [a EXCEPT !.time = n]
    <3>1. /\ new \in Attributes /\ parser[t].at = "parsed"
          /\ parser[t].newest => words' = Format(new)
      BY <2>1, <2>5, NewAttributes DEF Utimens, Change
    <3>2. new.mode = a.mode /\ new.uid = a.uid /\ new.gid = a.gid
      BY <2>1, <3>1 DEF Attributes
    <3> HIDE DEF new
    <3> QED BY <2>2, <3>1, <3>2
  <2> QED BY <2>3, <2>4, <2>5 DEF ChangesOnly
<1> QED BY <1>1, TypeCorrect, AloneParsesAreExact, PTL DEF OthersUnchanged

\* What a change sets is what is shown from then on, crossed or not.
THEOREM ChangesAreShown == Spec => SetIsShown
<1>1. TypeOK =>
        \A t \in Thread : parser[t].newest =>
          /\ \A m \in Mode : Chmod(t, m) => \A b \in Shown(words') : b.mode = m
          /\ \A u, g \in Id : Chown(t, u, g) =>
               \A b \in Shown(words') : b.uid = u /\ b.gid = g
          /\ \A s \in Time : Utimens(t, s) /\ FitsInt(s) =>
               \A b \in Shown(words') : b.time = s
  <2> SUFFICES ASSUME TypeOK, NEW t \in Thread, parser[t].newest
               PROVE  /\ \A m \in Mode : Chmod(t, m) =>
                           \A b \in Shown(words') : b.mode = m
                      /\ \A u, g \in Id : Chown(t, u, g) =>
                           \A b \in Shown(words') : b.uid = u /\ b.gid = g
                      /\ \A s \in Time : Utimens(t, s) /\ FitsInt(s) =>
                           \A b \in Shown(words') : b.time = s
    OBVIOUS
  <2> DEFINE a == parser[t].attr
  <2>1. parser[t].at = "parsed" => a \in Attributes
    BY DEF TypeOK
  <2>2. ASSUME NEW new \in Attributes, words' = Format(new), NEW b \in Shown(words')
        PROVE  /\ b.mode = new.mode /\ b.uid = new.uid /\ b.gid = new.gid
               /\ FitsInt(new.time) => b.time = new.time
    <3>1. b = Read(new)
      BY <2>2, FormatShown
    <3>2. /\ new.mode \in 0 .. 2 * Half - 1 /\ new.uid \in 0 .. 2 * Half - 1
          /\ new.gid \in 0 .. 2 * Half - 1 /\ new.time \in Int
      BY <2>2 DEF Attributes
    <3> QED BY <3>1, <3>2, Conversions DEF Read
  <2>3. ASSUME NEW m \in Mode, Chmod(t, m), NEW b \in Shown(words') PROVE b.mode = m
    <3>1. /\ words' = Format([a EXCEPT !.mode = m])
          /\ [a EXCEPT !.mode = m] \in Attributes
      BY <2>1, <2>3, NewAttributes DEF Chmod, Change
    <3>2. b.mode = [a EXCEPT !.mode = m].mode
      BY <2>2, <2>3, <3>1
    <3> QED BY <2>1, <2>3, <3>2 DEF Chmod, Change, Attributes
  <2>4. ASSUME NEW i \in Id, NEW j \in Id, Chown(t, i, j), NEW b \in Shown(words')
        PROVE  b.uid = i /\ b.gid = j
    <3>1. /\ words' = Format([a EXCEPT !.uid = i, !.gid = j])
          /\ [a EXCEPT !.uid = i, !.gid = j] \in Attributes
      BY <2>1, <2>4, NewAttributes DEF Chown, Change
    <3>2. /\ b.uid = [a EXCEPT !.uid = i, !.gid = j].uid
          /\ b.gid = [a EXCEPT !.uid = i, !.gid = j].gid
      BY <2>2, <2>4, <3>1
    <3> QED BY <2>1, <2>4, <3>2 DEF Chown, Change, Attributes
  <2>5. ASSUME NEW n \in Time, Utimens(t, n), FitsInt(n), NEW b \in Shown(words')
        PROVE  b.time = n
    <3>1. /\ words' = Format([a EXCEPT !.time = n])
          /\ [a EXCEPT !.time = n] \in Attributes
      BY <2>1, <2>5, NewAttributes DEF Utimens, Change
    <3>2. [a EXCEPT !.time = n].time = n
      BY <2>1, <2>5 DEF Utimens, Change, Attributes
    <3> QED BY <2>2, <2>5, <3>1, <3>2
  <2> QED BY <2>3, <2>4, <2>5
<1> QED BY <1>1, TypeCorrect, PTL DEF SetIsShown

=============================================================================
