------------------------------ MODULE ToolProofs ------------------------------
(***************************************************************************)
(* ToolInv is kept by every step of CommandTools, and with it files are    *)
(* replaced whole, reports are true and nothing is left running, for any   *)
(* number of calls.                                                        *)
(***************************************************************************)
EXTENDS ToolInv, FiniteSetTheorems, SequenceTheorems, TLAPS

USE DEF calls, files, commands, bounded, system

------------------------------------------------------------------------------
(* Sequences of messages.                                                  *)

\* Sequences of one value differ in length only.
LEMMA LengthTells ==
  ASSUME NEW v, NEW s \in Seq({v}), NEW t \in Seq({v}), Len(s) = Len(t)
  PROVE  s = t
<1>1. \A i \in 1 .. Len(s) : s[i] = t[i]
  <2>1. \A i \in 1 .. Len(s) : s[i] \in {v} /\ t[i] \in {v}
    BY ElementOfSeq
  <2>2. QED
    BY <2>1
<1>2. QED
  BY <1>1, SeqEqual

\* Two halves make a whole.
LEMMA Halves ==
  ASSUME NEW v
  PROVE  /\ Empty # <<v>> /\ Empty # Whole(v) /\ <<v>> # Whole(v)
         /\ Len(Empty) = 0 /\ Len(<<v>>) = 1 /\ Len(Whole(v)) = 2
         /\ Append(Empty, v) = <<v>> /\ Append(<<v>>, v) = Whole(v)
         /\ Empty \o SubSeq(Whole(v), 1, 1) = <<v>>
         /\ <<v>> \o SubSeq(Whole(v), 2, 2) = Whole(v)
<1> /\ Empty \in Seq({v}) /\ <<v>> \in Seq({v}) /\ Whole(v) \in Seq({v})
    /\ Len(Empty) = 0 /\ Len(<<v>>) = 1 /\ Len(Whole(v)) = 2
  BY DEF Empty, Whole
<1>1. Empty # <<v>> /\ Empty # Whole(v) /\ <<v>> # Whole(v)
  BY DEF Empty, Whole
<1>2. Append(Empty, v) = <<v>>
  <2>1. Append(Empty, v) \in Seq({v}) /\ Len(Append(Empty, v)) = 1
    BY AppendProperties
  <2>2. QED
    BY <2>1, LengthTells
<1>3. Append(<<v>>, v) = Whole(v)
  <2>1. Append(<<v>>, v) \in Seq({v}) /\ Len(Append(<<v>>, v)) = 2
    BY AppendProperties
  <2>2. QED
    BY <2>1, LengthTells
<1>4. SubSeq(Whole(v), 1, 1) = <<v>> /\ SubSeq(Whole(v), 2, 2) = <<v>>
  <2>1. \A i \in 1 .. 2 : Whole(v)[i] \in {v}
    BY DEF Whole
  <2>2. \A i \in 1 .. 2 : SubSeq(Whole(v), i, i) \in Seq({v}) /\ Len(SubSeq(Whole(v), i, i)) = 1
    BY <2>1, SubSeqProperties
  <2>3. \A i \in 1 .. 2 : SubSeq(Whole(v), i, i) = <<v>>
    <3> SUFFICES ASSUME NEW i \in 1 .. 2 PROVE SubSeq(Whole(v), i, i) = <<v>>
      OBVIOUS
    <3> DEFINE half == SubSeq(Whole(v), i, i)
    <3>1. half \in Seq({v}) /\ Len(half) = 1
      BY <2>2
    <3> HIDE DEF half
    <3>2. half = <<v>>
      BY <3>1, LengthTells
    <3>3. QED
      BY <3>2 DEF half
  <2>4. QED
    BY <2>3
<1>5. Empty \o <<v>> = <<v>>
  BY ConcatEmptySeq DEF Empty
<1>6. <<v>> \o <<v>> = Whole(v)
  <2>1. <<v>> \o <<v>> \in Seq({v}) /\ Len(<<v>> \o <<v>>) = 2
    BY ConcatProperties
  <2>2. QED
    BY <2>1, LengthTells
<1>7. QED
  BY <1>1, <1>2, <1>3, <1>4, <1>5, <1>6

\* Whatever order the cancels of S are posted in, each is posted, and nothing else.
LEMMA CancelsOfAll ==
  ASSUME NEW S \in SUBSET Calls, NEW s \in Cancels(S)
  PROVE  /\ s \in Seq(Cancellations)
         /\ \A i \in DOMAIN s : \E c \in S : s[i] = Message("cancel", c)
         /\ \A c \in S : \E i \in DOMAIN s : s[i] = Message("cancel", c)
<1> DEFINE M == {Message("cancel", c) : c \in S}
           n == Cardinality(S)
           f == [c \in S |-> Message("cancel", c)]
<1>1. IsFiniteSet(S)
  BY FS_Subset, FileToolsAssumption
<1>2. n \in Nat
  BY <1>1, FS_CardinalityType
<1>3. f \in Bijection(S, M)
  <2>1. \A c, d \in S : f[c] = f[d] => c = d
    BY DEF Message
  <2>2. f \in [S -> M]
    OBVIOUS
  <2>3. \A m \in M : \E c \in S : f[c] = m
    OBVIOUS
  <2>4. QED
    BY <2>1, <2>2, <2>3 DEF Bijection, Injection, Surjection, IsInjective
<1>4. IsFiniteSet(M) /\ Cardinality(M) = n
  BY <1>1, <1>3, FS_Bijection DEF ExistsBijection
<1>5. s \in [1 .. n -> M] /\ IsInjective(s)
  BY DEF Cancels
<1>6. s \in Injection(1 .. n, M)
  BY <1>5 DEF Injection
<1>7. Cardinality(1 .. n) = n
  BY <1>2, FS_Interval
<1>8. s \in Surjection(1 .. n, M)
  BY <1>4, <1>6, <1>7, FS_Injection
<1>9. DOMAIN s = 1 .. n
  BY <1>5
<1>10. M \subseteq Cancellations
  BY DEF Cancellations
<1>11. s \in Seq(Cancellations)
  BY <1>2, <1>5, <1>10
<1>12. \A m \in M : \E i \in 1 .. n : s[i] = m
  BY <1>8 DEF Surjection
<1>13. QED
  BY <1>5, <1>9, <1>11, <1>12

\* Half a content is none of the whole ones.
LEMMA HalfIsNotWhole ==
  ASSUME NEW v, NEW d
  PROVE  /\ Len(d) < 2 => d # Whole(v)
         /\ Len(d) >= Len(Whole(v)) => d # Empty /\ \A u : d # <<u>>
<1>1. Len(Whole(v)) = 2 /\ Len(Empty) = 0 /\ \A u : Len(<<u>>) = 1
  BY DEF Whole, Empty
<1>2. ASSUME Len(d) < 2, d = Whole(v) PROVE FALSE
  BY <1>1, <1>2
<1>3. ASSUME Len(d) >= Len(Whole(v)), d = Empty PROVE FALSE
  BY <1>1, <1>3
<1>4. ASSUME Len(d) >= Len(Whole(v)), NEW u, d = <<u>> PROVE FALSE
  BY <1>1, <1>4
<1>5. QED
  BY <1>2, <1>3, <1>4

LEMMA MessageParts ==
  ASSUME NEW t, NEW u, NEW c, NEW d
  PROVE  Message(t, c) = Message(u, d) <=> t = u /\ c = d
<1>1. /\ Message(t, c).type = t /\ Message(u, d).type = u
      /\ Message(t, c).call = c /\ Message(u, d).call = d
  BY DEF Message
<1>2. QED
  BY <1>1

\* Posting cancels adds them, changes no request, and puts them behind every
\* request.
LEMMA PostingCancels ==
  ASSUME NEW q \in Seq(Messages), NEW s \in Seq(Cancellations)
  PROVE  /\ q \o s \in Seq(Messages)
         /\ Range(q \o s) = Range(q) \cup Range(s)
         /\ OnceOnly(q) => OnceOnly(q \o s)
         /\ \A c \in Calls :
              CancelFollows(q, c) \/ Message("cancel", c) \in Range(s) => CancelFollows(q \o s, c)
<1> DEFINE p == q \o s
           n == Len(q)
           m == Len(s)
<1>1. s \in Seq(Messages)
  BY SeqMonotonic DEF Messages
<1>2. /\ p \in Seq(Messages) /\ Len(p) = n + m
      /\ \A i \in 1 .. n + m : p[i] = IF i <= n THEN q[i] ELSE s[i - n]
  BY <1>1, ConcatProperties
<1>3. n \in Nat /\ m \in Nat /\ DOMAIN q = 1 .. n /\ DOMAIN s = 1 .. m /\ DOMAIN p = 1 .. n + m
  BY <1>2, LenProperties
<1> HIDE DEF p, n, m
<1>4. \A i \in DOMAIN q : i \in DOMAIN p /\ p[i] = q[i]
  BY <1>2, <1>3
<1>5. \A j \in DOMAIN s : n + j \in DOMAIN p /\ p[n + j] = s[j]
  BY <1>2, <1>3
<1>6. \A i \in 1 .. n + m : i \in 1 .. n \/ (i - n \in 1 .. m /\ p[i] = s[i - n])
  <2>1. ASSUME NEW i \in 1 .. n + m, ~(i <= n) PROVE i - n \in 1 .. m
    BY <1>3, <2>1
  <2>2. \A i \in 1 .. n + m : ~(i <= n) => i - n \in 1 .. m /\ p[i] = s[i - n]
    BY <1>2, <2>1
  <2>3. \A i \in 1 .. n + m : i <= n => i \in 1 .. n
    BY <1>3
  <2>4. QED
    BY <2>2, <2>3
<1>7. \A i \in DOMAIN s : s[i] \in Cancellations
  BY <1>3, ElementOfSeq DEF m
<1>8. \A e \in Cancellations : e \notin Requests
  BY MessageParts DEF Cancellations, Requests
<1>9. Range(p) = Range(q) \cup Range(s)
  <2>1. Range(q) \subseteq Range(p)
    BY <1>4 DEF Range
  <2>2. Range(s) \subseteq Range(p)
    BY <1>5 DEF Range
  <2>3. Range(p) \subseteq Range(q) \cup Range(s)
    BY <1>3, <1>4, <1>6 DEF Range
  <2>4. QED
    BY <2>1, <2>2, <2>3
<1>10. OnceOnly(q) => OnceOnly(p)
  <2>1. \A i \in DOMAIN p : p[i] \in Requests => i \in DOMAIN q
    BY <1>3, <1>6, <1>7, <1>8
  <2>2. QED
    BY <1>4, <2>1 DEF OnceOnly
<1>11. ASSUME NEW c \in Calls, CancelFollows(q, c) PROVE CancelFollows(p, c)
  <2>1. PICK i \in DOMAIN q : /\ q[i] = Message("cancel", c)
                              /\ \A j \in DOMAIN q : q[j] = Message("request", c) => j < i
    BY <1>11 DEF CancelFollows
  <2>2. \A j \in DOMAIN p : p[j] = Message("request", c) => j \in DOMAIN q
    BY <1>3, <1>6, <1>7, <1>8 DEF Requests
  <2>3. QED
    BY <1>4, <2>1, <2>2 DEF CancelFollows
<1>12. ASSUME NEW c \in Calls, Message("cancel", c) \in Range(s) PROVE CancelFollows(p, c)
  <2>1. PICK k \in DOMAIN s : s[k] = Message("cancel", c)
    BY <1>12 DEF Range
  <2>2. \A j \in DOMAIN p : p[j] = Message("request", c) => j \in DOMAIN q
    BY <1>3, <1>6, <1>7, <1>8 DEF Requests
  <2>3. \A j \in DOMAIN q : j < n + k
    BY <1>3, <2>1
  <2>4. QED
    BY <1>5, <2>1, <2>2, <2>3 DEF CancelFollows
<1>13. QED
  BY <1>2, <1>9, <1>10, <1>11, <1>12 DEF p

\* Posting a first request of a call leaves the others' cancels where they are.
LEMMA PostingRequest ==
  ASSUME NEW q \in Seq(Messages), NEW c \in Calls, Message("request", c) \notin Range(q)
  PROVE  /\ q \o <<Message("request", c)>> \in Seq(Messages)
         /\ Range(q \o <<Message("request", c)>>) = Range(q) \cup {Message("request", c)}
         /\ OnceOnly(q) => OnceOnly(q \o <<Message("request", c)>>)
         /\ \A d \in Calls \ {c} :
              CancelFollows(q, d) => CancelFollows(q \o <<Message("request", c)>>, d)
<1> DEFINE e == Message("request", c)
           s == <<e>>
           p == q \o s
           n == Len(q)
<1>1. s \in Seq(Messages) /\ Len(s) = 1 /\ s[1] = e
  BY DEF Messages, Requests
<1> HIDE DEF s
<1>2. /\ p \in Seq(Messages) /\ Len(p) = n + Len(s)
      /\ \A i \in 1 .. n + Len(s) : p[i] = IF i <= n THEN q[i] ELSE s[i - n]
  BY <1>1, ConcatProperties
<1>3. n \in Nat /\ DOMAIN q = 1 .. n /\ DOMAIN p = 1 .. n + 1
  BY <1>1, <1>2, LenProperties
<1> HIDE DEF p, n, e
<1>4. \A i \in DOMAIN q : i \in DOMAIN p /\ p[i] = q[i]
  BY <1>2, <1>3
<1>5. n + 1 \in DOMAIN p /\ p[n + 1] = e
  BY <1>1, <1>2, <1>3
<1>6. \A i \in DOMAIN p : i \in DOMAIN q \/ i = n + 1
  BY <1>3
<1>7. \A i \in DOMAIN q : q[i] # e
  BY DEF Range, e
<1>8. Range(p) = Range(q) \cup {e}
  <2>1. Range(q) \subseteq Range(p)
    BY <1>4 DEF Range
  <2>2. e \in Range(p)
    BY <1>5 DEF Range
  <2>3. Range(p) \subseteq Range(q) \cup {e}
    BY <1>4, <1>5, <1>6 DEF Range
  <2>4. QED
    BY <2>1, <2>2, <2>3
<1>9. OnceOnly(q) => OnceOnly(p)
  BY <1>4, <1>5, <1>6, <1>7 DEF OnceOnly
<1>10. ASSUME NEW d \in Calls \ {c}, CancelFollows(q, d) PROVE CancelFollows(p, d)
  <2>1. PICK i \in DOMAIN q : /\ q[i] = Message("cancel", d)
                              /\ \A j \in DOMAIN q : q[j] = Message("request", d) => j < i
    BY <1>10 DEF CancelFollows
  <2>2. e # Message("request", d)
    BY MessageParts DEF e
  <2>3. \A j \in DOMAIN p : p[j] = Message("request", d) => j < i
    BY <1>4, <1>5, <1>6, <2>1, <2>2
  <2>4. QED
    BY <1>4, <2>1, <2>3 DEF CancelFollows
<1>11. QED
  BY <1>2, <1>8, <1>9, <1>10 DEF p, e, s

\* Receiving a message that is not its cancel leaves a cancel on its way.
LEMMA Receiving ==
  ASSUME NEW q \in Seq(Messages), q # <<>>
  PROVE  /\ Head(q) \in Messages /\ Head(q) \in Range(q)
         /\ Tail(q) \in Seq(Messages)
         /\ Range(Tail(q)) \subseteq Range(q)
         /\ OnceOnly(q) => /\ OnceOnly(Tail(q))
                           /\ Head(q) \in Requests => Head(q) \notin Range(Tail(q))
         /\ \A c \in Calls :
              /\ CancelFollows(q, c)
              /\ Head(q) # Message("cancel", c) \/ Message("request", c) \in Range(Tail(q))
              => CancelFollows(Tail(q), c)
<1> DEFINE t == Tail(q)
           n == Len(q)
<1>1. /\ Head(q) \in Messages /\ Head(q) = q[1]
      /\ t \in Seq(Messages) /\ Len(t) = n - 1
      /\ \A i \in 1 .. Len(t) : t[i] = q[i + 1]
  BY HeadTailProperties
<1>2. n \in Nat \ {0} /\ DOMAIN q = 1 .. n /\ DOMAIN t = 1 .. n - 1
  BY <1>1, LenProperties, EmptySeq
<1> HIDE DEF t, n
<1>3. \A i \in DOMAIN t : i \in Nat /\ i + 1 \in DOMAIN q /\ t[i] = q[i + 1]
  BY <1>1, <1>2
<1>4. \A i \in DOMAIN q : i # 1 => i \in Nat /\ i - 1 \in DOMAIN t /\ q[i] = t[i - 1]
  <2> SUFFICES ASSUME NEW i \in 1 .. n, i # 1
               PROVE  i \in Nat /\ i - 1 \in 1 .. n - 1 /\ q[i] = t[i - 1]
    BY <1>2
  <2>1. i \in Nat /\ i - 1 \in 1 .. n - 1 /\ (i - 1) + 1 = i
    BY <1>2
  <2>2. t[i - 1] = q[(i - 1) + 1]
    BY <1>2, <1>3, <2>1
  <2>3. QED
    BY <2>1, <2>2
<1>5. 1 \in DOMAIN q
  BY <1>2
<1>6. Head(q) \in Range(q) /\ Range(t) \subseteq Range(q)
  BY <1>1, <1>3, <1>5 DEF Range
<1>7. ASSUME OnceOnly(q)
      PROVE  /\ OnceOnly(t)
             /\ Head(q) \in Requests => Head(q) \notin Range(t)
  <2>1. ASSUME NEW i \in DOMAIN t, NEW j \in DOMAIN t, t[i] = t[j], t[i] \in Requests PROVE i = j
    <3>1. i + 1 = j + 1
      BY <1>3, <1>7, <2>1 DEF OnceOnly
    <3>2. QED
      BY <1>3, <3>1
  <2>2. ASSUME NEW i \in DOMAIN t, t[i] = Head(q), Head(q) \in Requests PROVE FALSE
    <3>1. i + 1 = 1
      BY <1>1, <1>3, <1>5, <1>7, <2>2 DEF OnceOnly
    <3>2. QED
      BY <1>2, <3>1
  <2>3. QED
    BY <2>1, <2>2 DEF OnceOnly, Range
<1>8. ASSUME NEW c \in Calls, CancelFollows(q, c),
             Head(q) # Message("cancel", c) \/ Message("request", c) \in Range(t)
      PROVE  CancelFollows(t, c)
  <2>1. PICK i \in DOMAIN q : /\ q[i] = Message("cancel", c)
                              /\ \A j \in DOMAIN q : q[j] = Message("request", c) => j < i
    BY <1>8 DEF CancelFollows
  <2>2. i # 1
    <3>1. CASE Head(q) # Message("cancel", c)
      BY <1>1, <2>1, <3>1
    <3>2. CASE Message("request", c) \in Range(t)
      <4>1. PICK j \in DOMAIN t : t[j] = Message("request", c)
        BY <3>2 DEF Range
      <4>2. j \in Nat /\ j + 1 < i
        BY <1>3, <2>1, <4>1
      <4>3. QED
        BY <4>2
    <3>3. QED
      BY <1>8, <3>1, <3>2
  <2>3. i \in Nat /\ i - 1 \in DOMAIN t /\ t[i - 1] = Message("cancel", c)
    BY <1>4, <2>1, <2>2
  <2>4. \A j \in DOMAIN t : t[j] = Message("request", c) => j < i - 1
    BY <1>3, <2>1, <2>3
  <2>5. QED
    BY <2>3, <2>4 DEF CancelFollows
<1>9. QED
  BY <1>1, <1>6, <1>7, <1>8 DEF t

\* Answers are added at the end and taken from the front.
LEMMA Answering ==
  ASSUME NEW q \in Seq(Answers)
  PROVE  /\ \A a \in Answers : /\ Append(q, a) \in Seq(Answers)
                               /\ Range(Append(q, a)) = Range(q) \cup {a}
         /\ q # <<>> => /\ Head(q) \in Range(q) /\ Head(q) \in Answers
                        /\ Tail(q) \in Seq(Answers)
                        /\ Range(Tail(q)) \subseteq Range(q)
<1>1. ASSUME NEW a \in Answers PROVE /\ Append(q, a) \in Seq(Answers)
                                     /\ Range(Append(q, a)) = Range(q) \cup {a}
  <2> DEFINE p == Append(q, a)
             n == Len(q)
  <2>1. /\ p \in Seq(Answers) /\ Len(p) = n + 1 /\ p[n + 1] = a
        /\ \A i \in 1 .. n : p[i] = q[i]
    BY AppendProperties
  <2>2. n \in Nat /\ DOMAIN q = 1 .. n /\ DOMAIN p = 1 .. n + 1
    BY <2>1, LenProperties
  <2> HIDE DEF p, n
  <2>3. \A i \in DOMAIN q : i \in DOMAIN p /\ p[i] = q[i]
    BY <2>1, <2>2
  <2>4. \A i \in DOMAIN p : i \in DOMAIN q \/ i = n + 1
    BY <2>2
  <2>5. n + 1 \in DOMAIN p
    BY <2>2
  <2>6. Range(p) = Range(q) \cup {a}
    BY <2>1, <2>3, <2>4, <2>5 DEF Range
  <2>7. QED
    BY <2>1, <2>6 DEF p
<1>2. ASSUME q # <<>> PROVE /\ Head(q) \in Range(q) /\ Head(q) \in Answers
                            /\ Tail(q) \in Seq(Answers)
                            /\ Range(Tail(q)) \subseteq Range(q)
  <2> DEFINE t == Tail(q)
             n == Len(q)
  <2>1. /\ Head(q) \in Answers /\ Head(q) = q[1]
        /\ t \in Seq(Answers) /\ Len(t) = n - 1
        /\ \A i \in 1 .. Len(t) : t[i] = q[i + 1]
    BY <1>2, HeadTailProperties
  <2>2. n \in Nat \ {0} /\ DOMAIN q = 1 .. n /\ DOMAIN t = 1 .. n - 1
    BY <1>2, <2>1, LenProperties, EmptySeq
  <2> HIDE DEF t, n
  <2>3. 1 \in DOMAIN q /\ \A i \in DOMAIN t : i + 1 \in DOMAIN q /\ t[i] = q[i + 1]
    BY <2>1, <2>2
  <2>4. QED
    BY <2>1, <2>3 DEF Range, t
<1>3. QED
  BY <1>1, <1>2

------------------------------------------------------------------------------
(* What steps do.                                                          *)

\* A step on files moves one call that does not wait for the main process.
LEMMA FileStepMoves ==
  ASSUME CallTypes, NEW c \in Calls, FileStep(c)
  PROVE  /\ UNCHANGED <<tool, aborted>>
         /\ step[c] \notin {"new", "waiting", "over"} /\ step'[c] # "waiting"
         /\ \A d \in Calls \ {c} : step'[d] = step[d]
<1> USE DEF CallTypes, At
<1>1. CASE Refuse(c) \/ Inspect(c)
  BY <1>1 DEF Refuse, Inspect, Settle, Goto
<1>2. CASE WriteHalf(c) \/ WriteFails(c) \/ Written(c)
  BY <1>2 DEF WriteHalf, WriteFails, Written, Goto
<1>3. CASE Rename(c) \/ RenameFails(c) \/ Unlink(c)
  BY <1>3 DEF Rename, RenameFails, Unlink, Settle, Goto
<1>4. CASE Open(c)
  BY <1>4 DEF Open, Settle, Goto
<1>5. CASE ReadHalf(c) \/ ReadEnds(c)
  BY <1>5 DEF ReadHalf, ReadEnds, Settle
<1>6. QED
  BY <1>1, <1>2, <1>3, <1>4, <1>5 DEF FileStep

\* A step of a full command moves its call.
LEMMA FullStepMoves ==
  ASSUME CallTypes, NEW c \in Calls, FullStep(c)
  PROVE  /\ UNCHANGED <<tool, aborted, files, bounded, system>>
         /\ tool[c] = "full"
         /\ \A d \in Calls \ {c} : step'[d] = step[d]
<1> USE DEF CallTypes, At, FullStep
<1>1. CASE Spawn(c)
  BY <1>1 DEF Spawn, Settle, Goto
<1>2. CASE Close(c) \/ Timeout(c)
  BY <1>2 DEF Close, Timeout, Settle
<1>3. CASE Stopped(c) \/ GraceOver(c) \/ StopFails(c)
  BY <1>3 DEF Stopped, GraceOver, StopFails, Settle
<1>4. QED
  BY <1>1, <1>2, <1>3

\* A message taken by the host settles a call that waits for it, or nothing.
LEMMA RespondMoves ==
  ASSUME MessageTypes, Respond
  PROVE  /\ \/ UNCHANGED <<calls, pending>>
            \/ \E c \in pending, how \in Outcomes :
                 /\ Message(how, c) \in Range(responses)
                 /\ pending' = pending \ {c}
                 /\ Settle(c, how)
         /\ responses' \in Seq(Answers)
         /\ Range(responses') \subseteq Range(responses)
<1>1. /\ Head(responses) \in Range(responses) /\ Head(responses) \in Answers
      /\ responses' \in Seq(Answers) /\ Range(responses') \subseteq Range(responses)
  BY Answering DEF MessageTypes, Respond
<1>2. PICK how \in Outcomes, c \in Calls : Head(responses) = Message(how, c)
  BY <1>1 DEF Answers
<1>3. Head(responses).call = c /\ Head(responses).type = how
  BY <1>2 DEF Message
<1>4. IF c \in pending THEN pending' = pending \ {c} /\ Settle(c, how)
                       ELSE UNCHANGED <<pending, calls>>
  BY <1>3 DEF Respond
<1>5. QED
  BY <1>1, <1>2, <1>4

\* The main process takes a request or a cancel of some call.
LEMMA ReceiveMoves ==
  ASSUME MessageTypes, MainReceives
  PROVE  \E c \in Calls :
           \/ /\ Head(toMain) = Message("request", c)
              /\ entry' = [entry EXCEPT ![c] = "running"]
           \/ /\ Head(toMain) = Message("cancel", c)
              /\ entry' = [entry EXCEPT ![c] = IF entry[c] = "running" THEN "stopping" ELSE entry[c]]
<1>1. Head(toMain) \in Messages
  BY Receiving DEF MessageTypes, MainReceives
<1>2. PICK c \in Calls : Head(toMain) = Message("request", c) \/ Head(toMain) = Message("cancel", c)
  BY <1>1 DEF Messages, Requests, Cancellations
<1>3. CASE Head(toMain) = Message("request", c)
  <2>1. Head(toMain).call = c /\ Head(toMain).type = "request"
    BY <1>3 DEF Message
  <2>2. QED
    BY <1>3, <2>1 DEF MainReceives
<1>4. CASE Head(toMain) = Message("cancel", c)
  <2>1. Head(toMain).call = c /\ Head(toMain).type = "cancel"
    BY <1>4 DEF Message
  <2>2. QED
    BY <1>4, <2>1 DEF MainReceives
<1>5. QED
  BY <1>2, <1>3, <1>4

\* A reader takes the next half of its inode.
LEMMA ReadHalfMoves ==
  ASSUME NEW c \in Calls, FileTypes, ReadsOfStep, ReadHalf(c)
  PROVE  /\ got[c] # Whole(fd[c])
         /\ got' = [got EXCEPT ![c] = IF got[c] = Empty THEN <<fd[c]>> ELSE Whole(fd[c])]
<1> DEFINE i == fd[c]
           n == Len(got[c])
<1>1. data[i] = Whole(i) /\ got[c] \in {Empty, <<i>>, Whole(i)} /\ n < 2
  BY DEF ReadHalf, ReadsOfStep, At
<1>2. got' = [got EXCEPT ![c] = got[c] \o SubSeq(data[i], n + 1, n + 1)]
  BY DEF ReadHalf
<1>3. CASE got[c] = Empty
  <2>1. n + 1 = 1
    BY <1>3 DEF Empty
  <2>2. got[c] \o SubSeq(data[i], n + 1, n + 1) = <<i>>
    BY <1>1, <1>3, <2>1, Halves
  <2>3. QED
    BY <1>2, <1>3, <2>2, Halves
<1>4. CASE got[c] = <<i>>
  <2>1. n + 1 = 2
    BY <1>4, Halves
  <2>2. got[c] \o SubSeq(data[i], n + 1, n + 1) = Whole(i)
    BY <1>1, <1>4, <2>1, Halves
  <2>3. QED
    BY <1>2, <1>4, <2>2, Halves
<1>5. got[c] # Whole(i)
  <2>1. Len(Whole(i)) = 2
    BY DEF Whole
  <2>2. ASSUME got[c] = Whole(i) PROVE FALSE
    <3>1. n = 2
      BY <2>1, <2>2, Zenon
    <3>2. QED
      BY <1>1, <3>1
  <2>3. QED
    BY <2>2
<1>6. QED
  BY <1>1, <1>3, <1>4, <1>5, SMTT(30)

------------------------------------------------------------------------------
(* Every step keeps each part of ToolInv.                                  *)
\* Every variable keeps its shape.
LEMMA CallTypesKept == ToolInv /\ [Next]_vars => CallTypes'
<1> SUFFICES ASSUME ToolInv, [Next]_vars PROVE CallTypes'
  OBVIOUS
<1> USE FileToolsAssumption DEF None, ToolInv, TypeOK, CallTypes, Outcomes, At
<1>1. ASSUME NEW c \in Calls, Begin(c) PROVE CallTypes'
  BY <1>1 DEF Begin
<1>2. ASSUME NEW c \in Calls, Abort(c) PROVE CallTypes'
  BY <1>2 DEF Abort, InFlight, Listeners, Terminate
<1>3. ASSUME NEW c \in Calls, Alive, UNCHANGED <<commands, bounded, system>>,
    Refuse(c) PROVE CallTypes'
  BY <1>3 DEF Refuse, Settle
<1>4. ASSUME NEW c \in Calls, Alive, UNCHANGED <<commands, bounded, system>>,
    Inspect(c) PROVE CallTypes'
  <2>1. CASE aborted[c]
    BY <1>4, <2>1 DEF Inspect, Settle
  <2>2. CASE ~aborted[c]
    BY <1>4, <2>2 DEF Inspect, Goto
  <2>3. QED
    BY <2>1, <2>2
<1>5. ASSUME NEW c \in Calls, Alive, UNCHANGED <<commands, bounded, system>>,
    WriteHalf(c) PROVE CallTypes'
  BY <1>5 DEF WriteHalf
<1>6. ASSUME NEW c \in Calls, Alive, UNCHANGED <<commands, bounded, system>>,
    WriteFails(c) PROVE CallTypes'
  BY <1>6 DEF WriteFails, Goto
<1>7. ASSUME NEW c \in Calls, Alive, UNCHANGED <<commands, bounded, system>>,
    Written(c) PROVE CallTypes'
  BY <1>7 DEF Written, Goto
<1>8. ASSUME NEW c \in Calls, Alive, UNCHANGED <<commands, bounded, system>>,
    Rename(c) PROVE CallTypes'
  BY <1>8 DEF Rename, Settle
<1>9. ASSUME NEW c \in Calls, Alive, UNCHANGED <<commands, bounded, system>>,
    RenameFails(c) PROVE CallTypes'
  BY <1>9 DEF RenameFails, Goto
<1>10. ASSUME NEW c \in Calls, Alive, UNCHANGED <<commands, bounded, system>>,
    Unlink(c) PROVE CallTypes'
  BY <1>10 DEF Unlink, Settle, Failure
<1>11. ASSUME NEW c \in Calls, Alive, UNCHANGED <<commands, bounded, system>>, Open(c)
    PROVE CallTypes'
  <2>1. CASE aborted[c]
    BY <1>11, <2>1 DEF Open, Settle
  <2>2. CASE ~aborted[c] /\ target = None
    BY <1>11, <2>2 DEF Open, Settle
  <2>3. CASE ~aborted[c] /\ target # None
    BY <1>11, <2>3 DEF Open, Goto
  <2>4. QED
    BY <2>1, <2>2, <2>3
<1>12. ASSUME NEW c \in Calls, Alive, UNCHANGED <<commands, bounded, system>>,
    ReadHalf(c) PROVE CallTypes'
  BY <1>12 DEF ReadHalf
<1>13. ASSUME NEW c \in Calls, Alive, UNCHANGED <<commands, bounded, system>>,
    ReadEnds(c) PROVE CallTypes'
  <2>1. CASE Len(got[c]) >= Len(data[fd[c]]) /\ Settle(c, "ok")
    BY <1>13, <2>1 DEF ReadEnds, Settle
  <2>2. CASE Settle(c, Failure(c))
    BY <1>13, <2>2 DEF ReadEnds, Settle, Failure
  <2>3. QED
    BY <1>13, <2>1, <2>2 DEF ReadEnds
<1>14. ASSUME NEW c \in Calls, Alive, UNCHANGED <<files, bounded, system>>, Spawn(c)
    PROVE CallTypes'
  <2>1. CASE aborted[c] /\ Settle(c, "cancelled") /\ UNCHANGED commands
    BY <1>14, <2>1 DEF Spawn, Settle
  <2>2. CASE Settle(c, "error") /\ UNCHANGED commands
    BY <1>14, <2>2 DEF Spawn, Settle
  <2>3. CASE /\ ~aborted[c] /\ Goto(c, "running") /\ UNCHANGED <<reason, stage>>
             /\ \E g \in SUBSET {"child", "daemon"} : group' = [group EXCEPT ![c] = g \cup {"shell"}]
    BY <1>14, <2>3 DEF Spawn, Goto
  <2>4. QED
    BY <1>14, <2>1, <2>2, <2>3 DEF Spawn
<1>15. ASSUME NEW c \in Calls, Alive, UNCHANGED <<files, bounded, system>>, Close(c)
    PROVE CallTypes'
  BY <1>15 DEF Close, Settle
<1>16. ASSUME NEW c \in Calls, Alive, UNCHANGED <<files, bounded, system>>, Timeout(c)
    PROVE CallTypes'
  BY <1>16 DEF Timeout, Terminate
<1>17. ASSUME NEW c \in Calls, Alive, UNCHANGED <<files, bounded, system>>, Stopped(c)
    PROVE CallTypes'
  BY <1>17 DEF Stopped, Settle, Gone, CommandTypes
<1>18. ASSUME NEW c \in Calls, Alive, UNCHANGED <<files, bounded, system>>,
    GraceOver(c) PROVE CallTypes'
  BY <1>18 DEF GraceOver, Gone
<1>19. ASSUME NEW c \in Calls, Alive, UNCHANGED <<files, bounded, system>>,
    StopFails(c) PROVE CallTypes'
  BY <1>19 DEF StopFails, Settle, Gone
<1>20. ASSUME NEW c \in Calls, UNCHANGED <<calls, files, bounded, system>>, Exits(c)
    PROVE CallTypes'
  BY <1>20 DEF Exits
<1>21. ASSUME NEW c \in Calls, MainStep(c) PROVE CallTypes'
  BY <1>21 DEF MainStep, MainEnds, MainReceives, MainNotices
<1>22. ASSUME NEW c \in Calls, Alive, UNCHANGED <<files, commands, system>>,
    Request(c) PROVE CallTypes'
  <2>1. CASE closed
    BY <1>22, <2>1 DEF Request, Settle
  <2>2. CASE ~closed
    BY <1>22, <2>2 DEF Request, Goto
  <2>3. QED
    BY <2>1, <2>2
<1>23. ASSUME Alive, UNCHANGED <<files, commands, system>>, Respond PROVE CallTypes'
  <2>1. CASE UNCHANGED <<calls, pending>>
    BY <1>23, <2>1 DEF Respond
  <2>2. CASE ~UNCHANGED <<calls, pending>>
    <3>1. PICK c \in pending, how \in Outcomes :
            /\ Message(how, c) \in Range(responses)
            /\ pending' = pending \ {c}
            /\ Settle(c, how)
      BY <1>23, <2>2, RespondMoves
    <3>2. QED
      BY <1>23, <3>1 DEF Respond, Settle
  <2>3. QED
    BY <2>1, <2>2
<1>24. ASSUME Shutdown PROVE CallTypes'
  BY <1>24 DEF Shutdown, InFlight, Terminate
<1>25. ASSUME Exit PROVE CallTypes'
  BY <1>25 DEF Exit
<1>26. ASSUME Crash PROVE CallTypes'
  BY <1>26 DEF Crash
<1>27. CASE UNCHANGED vars
  BY <1>27 DEF vars
<1> HIDE DEF None, ToolInv, TypeOK, CallTypes, Outcomes, At
<1>28. QED
  BY <1>1, <1>2, <1>3, <1>4, <1>5, <1>6, <1>7, <1>8, <1>9, <1>10, <1>11, <1>12, <1>13,
      <1>14, <1>15, <1>16, <1>17, <1>18, <1>19, <1>20, <1>21, <1>22, <1>23, <1>24, <1>25,
      <1>26, <1>27 DEF Next, FileStep, FullStep, BoundedStep
\* The files keep theirs.
LEMMA FileTypesKept == ToolInv /\ [Next]_vars => FileTypes'
<1> SUFFICES ASSUME ToolInv, [Next]_vars PROVE FileTypes'
  OBVIOUS
<1> USE FileToolsAssumption DEF None, ToolInv, TypeOK, FileTypes, At
<1>1. ASSUME NEW c \in Calls, Begin(c) PROVE FileTypes'
  BY <1>1 DEF Begin
<1>2. ASSUME NEW c \in Calls, Abort(c) PROVE FileTypes'
  BY <1>2 DEF Abort, InFlight, Listeners, Terminate
<1>3. ASSUME NEW c \in Calls, Alive, UNCHANGED <<commands, bounded, system>>,
    Refuse(c) PROVE FileTypes'
  BY <1>3 DEF Refuse, Settle
<1>4. ASSUME NEW c \in Calls, Alive, UNCHANGED <<commands, bounded, system>>,
    Inspect(c) PROVE FileTypes'
  <2>1. CASE aborted[c]
    BY <1>4, <2>1 DEF Inspect, Settle
  <2>2. CASE ~aborted[c]
    BY <1>4, <2>2 DEF Inspect, Goto
  <2>3. QED
    BY <2>1, <2>2
<1>5. ASSUME NEW c \in Calls, Alive, UNCHANGED <<commands, bounded, system>>,
    WriteHalf(c) PROVE FileTypes'
  <2>1. data' = [data EXCEPT ![c] = Append(data[c], c)] /\ Len(data[c]) < 2 /\ temp' = temp \cup {c}
    BY <1>5 DEF WriteHalf
  <2>2. Append(data[c], c) \in Contents
    <3>1. data[c] \in {Empty, <<c>>, Whole(c)}
      BY DEF WritesOfStep
    <3>2. data[c] # Whole(c)
      BY <2>1, HalfIsNotWhole
    <3>3. QED
      BY <3>1, <3>2, Halves DEF Contents
  <2>3. QED
    BY <1>5, <2>1, <2>2 DEF WriteHalf
<1>6. ASSUME NEW c \in Calls, Alive, UNCHANGED <<commands, bounded, system>>,
    WriteFails(c) PROVE FileTypes'
  BY <1>6 DEF WriteFails, Goto
<1>7. ASSUME NEW c \in Calls, Alive, UNCHANGED <<commands, bounded, system>>,
    Written(c) PROVE FileTypes'
  BY <1>7 DEF Written, Goto
<1>8. ASSUME NEW c \in Calls, Alive, UNCHANGED <<commands, bounded, system>>,
    Rename(c) PROVE FileTypes'
  BY <1>8 DEF Rename, Settle
<1>9. ASSUME NEW c \in Calls, Alive, UNCHANGED <<commands, bounded, system>>,
    RenameFails(c) PROVE FileTypes'
  BY <1>9 DEF RenameFails, Goto
<1>10. ASSUME NEW c \in Calls, Alive, UNCHANGED <<commands, bounded, system>>,
    Unlink(c) PROVE FileTypes'
  BY <1>10 DEF Unlink, Settle, Failure
<1>11. ASSUME NEW c \in Calls, Alive, UNCHANGED <<commands, bounded, system>>, Open(c)
    PROVE FileTypes'
  <2>1. CASE aborted[c]
    BY <1>11, <2>1 DEF Open, Settle
  <2>2. CASE ~aborted[c] /\ target = None
    BY <1>11, <2>2 DEF Open, Settle
  <2>3. CASE ~aborted[c] /\ target # None
    BY <1>11, <2>3 DEF Open, Goto
  <2>4. QED
    BY <2>1, <2>2, <2>3
<1>12. ASSUME NEW c \in Calls, Alive, UNCHANGED <<commands, bounded, system>>,
    ReadHalf(c) PROVE FileTypes'
  <2>1. fd[c] # None /\ fd[c] \in Calls \cup {Old} /\ data[fd[c]] = Whole(fd[c])
    BY <1>12 DEF ReadHalf, ReadsOfStep
  <2>2. got' = [got EXCEPT ![c] = IF got[c] = Empty THEN <<fd[c]>> ELSE Whole(fd[c])]
    BY <1>12, ReadHalfMoves
  <2>3. <<fd[c]>> \in Contents /\ Whole(fd[c]) \in Contents
    BY <2>1 DEF Contents
  <2>4. UNCHANGED <<target, data, temp, fd>>
    BY <1>12 DEF ReadHalf
  <2>5. QED
    BY <2>2, <2>3, <2>4
<1>13. ASSUME NEW c \in Calls, Alive, UNCHANGED <<commands, bounded, system>>,
    ReadEnds(c) PROVE FileTypes'
  <2>1. CASE Len(got[c]) >= Len(data[fd[c]]) /\ Settle(c, "ok")
    BY <1>13, <2>1 DEF ReadEnds, Settle
  <2>2. CASE Settle(c, Failure(c))
    BY <1>13, <2>2 DEF ReadEnds, Settle, Failure
  <2>3. QED
    BY <1>13, <2>1, <2>2 DEF ReadEnds
<1>14. ASSUME NEW c \in Calls, FullStep(c) PROVE FileTypes'
  BY <1>14 DEF FullStep
<1>15. ASSUME NEW c \in Calls, UNCHANGED <<calls, files, bounded, system>>, Exits(c)
    PROVE FileTypes'
  BY <1>15 DEF Exits
<1>16. ASSUME NEW c \in Calls, MainStep(c) PROVE FileTypes'
  BY <1>16 DEF MainStep, MainEnds, MainReceives, MainNotices
<1>17. ASSUME BoundedStep PROVE FileTypes'
  BY <1>17 DEF BoundedStep
<1>18. ASSUME Shutdown PROVE FileTypes'
  BY <1>18 DEF Shutdown, InFlight, Terminate
<1>19. ASSUME Exit PROVE FileTypes'
  BY <1>19 DEF Exit
<1>20. ASSUME Crash PROVE FileTypes'
  BY <1>20 DEF Crash
<1>21. CASE UNCHANGED vars
  BY <1>21 DEF vars
<1> HIDE DEF None, ToolInv, TypeOK, FileTypes, At
<1>22. QED
  BY <1>1, <1>2, <1>3, <1>4, <1>5, <1>6, <1>7, <1>8, <1>9, <1>10, <1>11, <1>12, <1>13,
      <1>14, <1>15, <1>16, <1>17, <1>18, <1>19, <1>20, <1>21 DEF Next, FileStep
\* So do the commands.
LEMMA CommandTypesKept == ToolInv /\ [Next]_vars => CommandTypes'
<1> SUFFICES ASSUME ToolInv, [Next]_vars PROVE CommandTypes'
  OBVIOUS
<1> USE FileToolsAssumption DEF None, ToolInv, TypeOK, CommandTypes, At
<1>1. ASSUME NEW c \in Calls, Begin(c) PROVE CommandTypes'
  BY <1>1 DEF Begin
<1>2. ASSUME NEW c \in Calls, Abort(c) PROVE CommandTypes'
  BY <1>2 DEF Abort, InFlight, Listeners, Terminate
<1>3. ASSUME NEW c \in Calls, Alive, UNCHANGED <<commands, bounded, system>>,
    FileStep(c) PROVE CommandTypes'
  BY <1>3 DEF FileStep
<1>4. ASSUME NEW c \in Calls, Alive, UNCHANGED <<files, bounded, system>>, Spawn(c)
    PROVE CommandTypes'
  <2>1. CASE aborted[c] /\ Settle(c, "cancelled") /\ UNCHANGED commands
    BY <1>4, <2>1 DEF Spawn, Settle
  <2>2. CASE Settle(c, "error") /\ UNCHANGED commands
    BY <1>4, <2>2 DEF Spawn, Settle
  <2>3. CASE /\ ~aborted[c] /\ Goto(c, "running") /\ UNCHANGED <<reason, stage>>
             /\ \E g \in SUBSET {"child", "daemon"} : group' = [group EXCEPT ![c] = g \cup {"shell"}]
    BY <1>4, <2>3 DEF Spawn, Goto
  <2>4. QED
    BY <1>4, <2>1, <2>2, <2>3 DEF Spawn
<1>5. ASSUME NEW c \in Calls, Alive, UNCHANGED <<files, bounded, system>>, Close(c)
    PROVE CommandTypes'
  BY <1>5 DEF Close, Settle
<1>6. ASSUME NEW c \in Calls, Alive, UNCHANGED <<files, bounded, system>>, Timeout(c)
    PROVE CommandTypes'
  BY <1>6 DEF Timeout, Terminate
<1>7. ASSUME NEW c \in Calls, Alive, UNCHANGED <<files, bounded, system>>, Stopped(c)
    PROVE CommandTypes'
  BY <1>7 DEF Stopped, Settle, Gone
<1>8. ASSUME NEW c \in Calls, Alive, UNCHANGED <<files, bounded, system>>,
    GraceOver(c) PROVE CommandTypes'
  BY <1>8 DEF GraceOver, Gone
<1>9. ASSUME NEW c \in Calls, Alive, UNCHANGED <<files, bounded, system>>,
    StopFails(c) PROVE CommandTypes'
  BY <1>9 DEF StopFails, Settle, Gone
<1>10. ASSUME NEW c \in Calls, UNCHANGED <<calls, files, bounded, system>>, Exits(c)
    PROVE CommandTypes'
  BY <1>10 DEF Exits
<1>11. ASSUME NEW c \in Calls, MainStep(c) PROVE CommandTypes'
  BY <1>11 DEF MainStep, MainEnds, MainReceives, MainNotices
<1>12. ASSUME BoundedStep PROVE CommandTypes'
  BY <1>12 DEF BoundedStep
<1>13. ASSUME Shutdown PROVE CommandTypes'
  BY <1>13 DEF Shutdown, InFlight, Terminate
<1>14. ASSUME Exit PROVE CommandTypes'
  BY <1>14 DEF Exit
<1>15. ASSUME Crash PROVE CommandTypes'
  BY <1>15 DEF Crash
<1>16. CASE UNCHANGED vars
  BY <1>16 DEF vars
<1> HIDE DEF None, ToolInv, TypeOK, CommandTypes, At
<1>17. QED
  BY <1>1, <1>2, <1>3, <1>4, <1>5, <1>6, <1>7, <1>8, <1>9, <1>10, <1>11, <1>12, <1>13,
      <1>14, <1>15, <1>16 DEF Next, FullStep
\* And the messages.
LEMMA MessageTypesKept == ToolInv /\ [Next]_vars => MessageTypes'
<1> SUFFICES ASSUME ToolInv, [Next]_vars PROVE MessageTypes'
  OBVIOUS
<1> USE FileToolsAssumption DEF None, ToolInv, TypeOK, MessageTypes
<1>1. ASSUME NEW c \in Calls, Begin(c) PROVE MessageTypes'
  BY <1>1 DEF Begin
<1>2. ASSUME NEW c \in Calls, Abort(c) PROVE MessageTypes'
  <2>1. PICK s \in Cancels({c} \cap pending) : toMain' = toMain \o s
    BY <1>2 DEF Abort, Listeners
  <2>2. toMain' \in Seq(Messages)
    BY <2>1, CancelsOfAll, PostingCancels
  <2>3. QED
    BY <1>2, <2>2 DEF Abort
<1>3. ASSUME NEW c \in Calls, Alive, UNCHANGED <<commands, bounded, system>>,
    FileStep(c) PROVE MessageTypes'
  BY <1>3 DEF FileStep
<1>4. ASSUME NEW c \in Calls, FullStep(c) PROVE MessageTypes'
  BY <1>4 DEF FullStep
<1>5. ASSUME NEW c \in Calls, UNCHANGED <<calls, files, bounded, system>>, Exits(c)
    PROVE MessageTypes'
  BY <1>5 DEF Exits
<1>6. ASSUME NEW c \in Calls, UNCHANGED <<calls, files, commands, system>>,
    MainEnds(c) PROVE MessageTypes'
  <2>1. PICK how \in Outcomes : responses' = Append(responses, Message(how, c))
    BY <1>6 DEF MainEnds, Outcomes
  <2>2. responses' \in Seq(Answers)
    BY <2>1, Answering DEF Answers
  <2>3. QED
    BY <1>6, <2>2 DEF MainEnds
<1>7. ASSUME UNCHANGED <<calls, files, commands, system>>, MainReceives PROVE
    MessageTypes'
  <2>1. toMain' \in Seq(Messages)
    BY <1>7, Receiving DEF MainReceives
  <2>2. QED
    BY <1>7, <2>1, ReceiveMoves DEF MainReceives
<1>8. ASSUME UNCHANGED <<calls, files, commands, system>>, MainNotices PROVE
    MessageTypes'
  BY <1>8 DEF MainNotices
<1>9. ASSUME NEW c \in Calls, Alive, UNCHANGED <<files, commands, system>>, Request(c)
    PROVE MessageTypes'
  <2>1. Message("cancel", c) \in Messages /\ Message("request", c) \in Messages
    BY DEF Cancellations, Requests, Messages
  <2>2. \A x, y \in Messages : toMain \o <<x>> \o <<>> \in Seq(Messages) /\ toMain \o <<x>> \o <<y>> \in Seq(Messages)
    <3> SUFFICES ASSUME NEW x \in Messages, NEW y \in Messages
                 PROVE  toMain \o <<x>> \o <<>> \in Seq(Messages) /\ toMain \o <<x>> \o <<y>> \in Seq(Messages)
      OBVIOUS
    <3>1. <<>> \in Seq(Messages) /\ <<x>> \in Seq(Messages) /\ <<y>> \in Seq(Messages)
      OBVIOUS
    <3>2. toMain \o <<x>> \in Seq(Messages)
      BY <3>1, ConcatProperties
    <3>3. QED
      BY <3>1, <3>2, ConcatProperties
  <2>3. toMain' \in Seq(Messages)
    <3>1. CASE toMain' = toMain
      BY <3>1
    <3>2. CASE toMain' = toMain \o <<Message("request", c)>> \o <<>>
      BY <2>1, <2>2, <3>2
    <3>3. CASE toMain' = toMain \o <<Message("request", c)>> \o <<Message("cancel", c)>>
      BY <2>1, <2>2, <3>3
    <3>4. QED
      BY <1>9, <3>1, <3>2, <3>3 DEF Request
  <2>4. QED
    BY <1>9, <2>3 DEF Request
<1>10. ASSUME Alive, UNCHANGED <<files, commands, system>>, Respond PROVE MessageTypes'
  <2>1. CASE UNCHANGED <<calls, pending>>
    BY <1>10, <2>1 DEF Respond
  <2>2. CASE ~UNCHANGED <<calls, pending>>
    <3>1. PICK c \in pending, how \in Outcomes :
            /\ Message(how, c) \in Range(responses)
            /\ pending' = pending \ {c}
            /\ Settle(c, how)
      BY <1>10, <2>2, RespondMoves
    <3>2. QED
      BY <1>10, <3>1 DEF Respond, Settle
  <2>3. QED
    BY <2>1, <2>2
<1>11. ASSUME Shutdown PROVE MessageTypes'
  <2> DEFINE now == {c \in Calls : InFlight(c) /\ ~aborted[c]}
  <2>1. PICK s \in Cancels(now \cap pending), t \in Cancels(pending) :
          toMain' = toMain \o s \o t
    BY <1>11 DEF Shutdown
  <2>2. toMain \o s \in Seq(Messages)
    BY CancelsOfAll, PostingCancels
  <2>3. \A q \in Seq(Messages) : q \o t \in Seq(Messages)
    <3>1. pending \in SUBSET Calls
      BY DEF CallTypes
    <3>2. t \in Seq(Cancellations)
      BY <3>1, CancelsOfAll
    <3>3. QED
      BY <3>2, PostingCancels
  <2>4. toMain' \in Seq(Messages)
    BY <2>1, <2>2, <2>3
  <2>5. QED
    BY <1>11, <2>4 DEF Shutdown
<1>12. ASSUME Exit PROVE MessageTypes'
  BY <1>12 DEF Exit
<1>13. ASSUME Crash PROVE MessageTypes'
  BY <1>13 DEF Crash
<1>14. CASE UNCHANGED vars
  BY <1>14 DEF vars
<1> HIDE DEF None, ToolInv, TypeOK, MessageTypes
<1>15. QED
  BY <1>1, <1>2, <1>3, <1>4, <1>5, <1>6, <1>7, <1>8, <1>9, <1>10, <1>11, <1>12, <1>13,
      <1>14 DEF Next, MainStep, BoundedStep
\* And the host.
LEMMA HostTypesKept == ToolInv /\ [Next]_vars => HostTypes'
<1> SUFFICES ASSUME ToolInv, [Next]_vars PROVE HostTypes'
  OBVIOUS
<1> USE FileToolsAssumption DEF None, ToolInv, TypeOK, HostTypes, CallTypes
<1>1. ASSUME NEW c \in Calls, Begin(c) PROVE HostTypes'
  BY <1>1 DEF Begin
<1>2. ASSUME NEW c \in Calls, Abort(c) PROVE HostTypes'
  BY <1>2 DEF Abort, InFlight, Listeners, Terminate
<1>3. ASSUME NEW c \in Calls, Alive, UNCHANGED <<commands, bounded, system>>,
    FileStep(c) PROVE HostTypes'
  BY <1>3 DEF FileStep
<1>4. ASSUME NEW c \in Calls, FullStep(c) PROVE HostTypes'
  BY <1>4 DEF FullStep
<1>5. ASSUME NEW c \in Calls, UNCHANGED <<calls, files, bounded, system>>, Exits(c)
    PROVE HostTypes'
  BY <1>5 DEF Exits
<1>6. ASSUME NEW c \in Calls, MainStep(c) PROVE HostTypes'
  BY <1>6 DEF MainStep, MainEnds, MainReceives, MainNotices
<1>7. ASSUME NEW c \in Calls, Alive, UNCHANGED <<files, commands, system>>, Request(c)
    PROVE HostTypes'
  <2>1. CASE closed
    BY <1>7, <2>1 DEF Request, Settle
  <2>2. CASE ~closed
    BY <1>7, <2>2 DEF Request, Goto
  <2>3. QED
    BY <2>1, <2>2
<1>8. ASSUME Alive, UNCHANGED <<files, commands, system>>, Respond PROVE HostTypes'
  <2>1. CASE UNCHANGED <<calls, pending>>
    BY <1>8, <2>1 DEF Respond
  <2>2. CASE ~UNCHANGED <<calls, pending>>
    <3>1. PICK c \in pending, how \in Outcomes :
            /\ Message(how, c) \in Range(responses)
            /\ pending' = pending \ {c}
            /\ Settle(c, how)
      BY <1>8, <2>2, RespondMoves
    <3>2. QED
      BY <1>8, <3>1 DEF Respond, Settle
  <2>3. QED
    BY <2>1, <2>2
<1>9. ASSUME Shutdown PROVE HostTypes'
  BY <1>9 DEF Shutdown, InFlight, Terminate
<1>10. ASSUME Exit PROVE HostTypes'
  BY <1>10 DEF Exit
<1>11. ASSUME Crash PROVE HostTypes'
  BY <1>11 DEF Crash
<1>12. CASE UNCHANGED vars
  BY <1>12 DEF vars
<1> HIDE DEF None, ToolInv, TypeOK, HostTypes, CallTypes
<1>13. QED
  BY <1>1, <1>2, <1>3, <1>4, <1>5, <1>6, <1>7, <1>8, <1>9, <1>10, <1>11, <1>12 DEF
      Next, BoundedStep
\* Steps follow tools.
LEMMA StepsKept == ToolInv /\ [Next]_vars => StepOfTool'
<1> SUFFICES ASSUME ToolInv, [Next]_vars PROVE StepOfTool'
  OBVIOUS
<1> USE FileToolsAssumption DEF None, ToolInv, TypeOK, CallTypes, StepOfTool,
    Outcomes, At
<1>1. ASSUME NEW c \in Calls, Begin(c) PROVE StepOfTool'
  BY <1>1 DEF Begin
<1>2. ASSUME NEW c \in Calls, Abort(c) PROVE StepOfTool'
  BY <1>2 DEF Abort, InFlight, Listeners, Terminate
<1>3. ASSUME NEW c \in Calls, Alive, UNCHANGED <<commands, bounded, system>>,
    Refuse(c) PROVE StepOfTool'
  BY <1>3 DEF Refuse, Settle
<1>4. ASSUME NEW c \in Calls, Alive, UNCHANGED <<commands, bounded, system>>,
    Inspect(c) PROVE StepOfTool'
  <2>1. CASE aborted[c]
    BY <1>4, <2>1 DEF Inspect, Settle
  <2>2. CASE ~aborted[c]
    BY <1>4, <2>2 DEF Inspect, Goto
  <2>3. QED
    BY <2>1, <2>2
<1>5. ASSUME NEW c \in Calls, Alive, UNCHANGED <<commands, bounded, system>>,
    WriteHalf(c) PROVE StepOfTool'
  BY <1>5 DEF WriteHalf
<1>6. ASSUME NEW c \in Calls, Alive, UNCHANGED <<commands, bounded, system>>,
    WriteFails(c) PROVE StepOfTool'
  BY <1>6 DEF WriteFails, Goto
<1>7. ASSUME NEW c \in Calls, Alive, UNCHANGED <<commands, bounded, system>>,
    Written(c) PROVE StepOfTool'
  BY <1>7 DEF Written, Goto
<1>8. ASSUME NEW c \in Calls, Alive, UNCHANGED <<commands, bounded, system>>,
    Rename(c) PROVE StepOfTool'
  BY <1>8 DEF Rename, Settle
<1>9. ASSUME NEW c \in Calls, Alive, UNCHANGED <<commands, bounded, system>>,
    RenameFails(c) PROVE StepOfTool'
  BY <1>9 DEF RenameFails, Goto
<1>10. ASSUME NEW c \in Calls, Alive, UNCHANGED <<commands, bounded, system>>,
    Unlink(c) PROVE StepOfTool'
  BY <1>10 DEF Unlink, Settle, Failure
<1>11. ASSUME NEW c \in Calls, Alive, UNCHANGED <<commands, bounded, system>>, Open(c)
    PROVE StepOfTool'
  <2>1. CASE aborted[c]
    BY <1>11, <2>1 DEF Open, Settle
  <2>2. CASE ~aborted[c] /\ target = None
    BY <1>11, <2>2 DEF Open, Settle
  <2>3. CASE ~aborted[c] /\ target # None
    BY <1>11, <2>3 DEF Open, Goto
  <2>4. QED
    BY <2>1, <2>2, <2>3
<1>12. ASSUME NEW c \in Calls, Alive, UNCHANGED <<commands, bounded, system>>,
    ReadHalf(c) PROVE StepOfTool'
  BY <1>12 DEF ReadHalf
<1>13. ASSUME NEW c \in Calls, Alive, UNCHANGED <<commands, bounded, system>>,
    ReadEnds(c) PROVE StepOfTool'
  <2>1. CASE Len(got[c]) >= Len(data[fd[c]]) /\ Settle(c, "ok")
    BY <1>13, <2>1 DEF ReadEnds, Settle
  <2>2. CASE Settle(c, Failure(c))
    BY <1>13, <2>2 DEF ReadEnds, Settle, Failure
  <2>3. QED
    BY <1>13, <2>1, <2>2 DEF ReadEnds
<1>14. ASSUME NEW c \in Calls, Alive, UNCHANGED <<files, bounded, system>>, Spawn(c)
    PROVE StepOfTool'
  <2>1. CASE aborted[c] /\ Settle(c, "cancelled") /\ UNCHANGED commands
    BY <1>14, <2>1 DEF Spawn, Settle
  <2>2. CASE Settle(c, "error") /\ UNCHANGED commands
    BY <1>14, <2>2 DEF Spawn, Settle
  <2>3. CASE /\ ~aborted[c] /\ Goto(c, "running") /\ UNCHANGED <<reason, stage>>
             /\ \E g \in SUBSET {"child", "daemon"} : group' = [group EXCEPT ![c] = g \cup {"shell"}]
    BY <1>14, <2>3 DEF Spawn, Goto
  <2>4. QED
    BY <1>14, <2>1, <2>2, <2>3 DEF Spawn
<1>15. ASSUME NEW c \in Calls, Alive, UNCHANGED <<files, bounded, system>>, Close(c)
    PROVE StepOfTool'
  BY <1>15 DEF Close, Settle
<1>16. ASSUME NEW c \in Calls, Alive, UNCHANGED <<files, bounded, system>>, Timeout(c)
    PROVE StepOfTool'
  BY <1>16 DEF Timeout, Terminate
<1>17. ASSUME NEW c \in Calls, Alive, UNCHANGED <<files, bounded, system>>, Stopped(c)
    PROVE StepOfTool'
  BY <1>17 DEF Stopped, Settle, Gone, CommandTypes
<1>18. ASSUME NEW c \in Calls, Alive, UNCHANGED <<files, bounded, system>>,
    GraceOver(c) PROVE StepOfTool'
  BY <1>18 DEF GraceOver, Gone
<1>19. ASSUME NEW c \in Calls, Alive, UNCHANGED <<files, bounded, system>>,
    StopFails(c) PROVE StepOfTool'
  BY <1>19 DEF StopFails, Settle, Gone
<1>20. ASSUME NEW c \in Calls, UNCHANGED <<calls, files, bounded, system>>, Exits(c)
    PROVE StepOfTool'
  BY <1>20 DEF Exits
<1>21. ASSUME NEW c \in Calls, MainStep(c) PROVE StepOfTool'
  BY <1>21 DEF MainStep, MainEnds, MainReceives, MainNotices
<1>22. ASSUME NEW c \in Calls, Alive, UNCHANGED <<files, commands, system>>,
    Request(c) PROVE StepOfTool'
  <2>1. CASE closed
    BY <1>22, <2>1 DEF Request, Settle
  <2>2. CASE ~closed
    BY <1>22, <2>2 DEF Request, Goto
  <2>3. QED
    BY <2>1, <2>2
<1>23. ASSUME Alive, UNCHANGED <<files, commands, system>>, Respond PROVE StepOfTool'
  <2>1. CASE UNCHANGED <<calls, pending>>
    BY <1>23, <2>1 DEF Respond
  <2>2. CASE ~UNCHANGED <<calls, pending>>
    <3>1. PICK c \in pending, how \in Outcomes :
            /\ Message(how, c) \in Range(responses)
            /\ pending' = pending \ {c}
            /\ Settle(c, how)
      BY <1>23, <2>2, RespondMoves
    <3>2. QED
      BY <1>23, <3>1 DEF Respond, Settle
  <2>3. QED
    BY <2>1, <2>2
<1>24. ASSUME Shutdown PROVE StepOfTool'
  BY <1>24 DEF Shutdown, InFlight, Terminate
<1>25. ASSUME Exit PROVE StepOfTool'
  BY <1>25 DEF Exit
<1>26. ASSUME Crash PROVE StepOfTool'
  BY <1>26 DEF Crash
<1>27. CASE UNCHANGED vars
  BY <1>27 DEF vars
<1> HIDE DEF None, ToolInv, TypeOK, CallTypes, StepOfTool, Outcomes, At
<1>28. QED
  BY <1>1, <1>2, <1>3, <1>4, <1>5, <1>6, <1>7, <1>8, <1>9, <1>10, <1>11, <1>12, <1>13,
      <1>14, <1>15, <1>16, <1>17, <1>18, <1>19, <1>20, <1>21, <1>22, <1>23, <1>24, <1>25,
      <1>26, <1>27 DEF Next, FileStep, FullStep, BoundedStep
\* A file gets the name whole, or not.
LEMMA WritesKept == ToolInv /\ [Next]_vars => WritesOfStep'
<1> SUFFICES ASSUME ToolInv, [Next]_vars PROVE WritesOfStep'
  OBVIOUS
<1> USE FileToolsAssumption DEF None, ToolInv, TypeOK, CallTypes, FileTypes,
    StepOfTool, WritesOfStep, Outcomes, At
<1>1. ASSUME NEW c \in Calls, Begin(c) PROVE WritesOfStep'
  <2>1. /\ outcome[c] = None /\ UNCHANGED <<outcome, files>>
        /\ step'[c] = "begun" /\ \A d \in Calls \ {c} : tool'[d] = tool[d] /\ step'[d] = step[d]
    BY <1>1 DEF Begin
  <2>2. target # c
    BY <2>1
  <2>3. QED
    BY <2>1, <2>2
<1>2. ASSUME NEW c \in Calls, Abort(c) PROVE WritesOfStep'
  BY <1>2 DEF Abort, InFlight, Listeners, Terminate
<1>3. ASSUME NEW c \in Calls, Alive, UNCHANGED <<commands, bounded, system>>,
    Refuse(c) PROVE WritesOfStep'
  BY <1>3 DEF Refuse, Settle
<1>4. ASSUME NEW c \in Calls, Alive, UNCHANGED <<commands, bounded, system>>,
    Inspect(c) PROVE WritesOfStep'
  <2>1. CASE aborted[c]
    BY <1>4, <2>1 DEF Inspect, Settle
  <2>2. CASE ~aborted[c]
    BY <1>4, <2>2 DEF Inspect, Goto
  <2>3. QED
    BY <2>1, <2>2
<1>5. ASSUME NEW c \in Calls, Alive, UNCHANGED <<commands, bounded, system>>,
    WriteHalf(c) PROVE WritesOfStep'
  <2>1. /\ UNCHANGED <<calls, target>> /\ temp' = temp \cup {c}
        /\ data' = [data EXCEPT ![c] = Append(data[c], c)]
        /\ tool[c] = "write" /\ step[c] = "writing" /\ Len(data[c]) < 2
    BY <1>5 DEF WriteHalf
  <2>2. data[c] # Whole(c)
    BY <2>1, HalfIsNotWhole
  <2>3. Append(data[c], c) \in {<<c>>, Whole(c)}
    <3>1. data[c] = Empty \/ data[c] = <<c>>
      BY <2>2
    <3>2. Append(Empty, c) = <<c>> /\ Append(<<c>>, c) = Whole(c)
      BY Halves
    <3>3. Append(data[c], c) = <<c>> \/ Append(data[c], c) = Whole(c)
      BY <3>1, <3>2, Zenon
    <3>4. QED
      BY <3>3, Zenon
  <2>4. /\ data'[c] \in {<<c>>, Whole(c)}
        /\ \A i \in (Calls \cup {Old}) \ {c} : data'[i] = data[i]
    BY <2>1, <2>3
  <2>5. target # c /\ outcome[c] = None
    BY <2>1, <2>2
  <2>6. QED
    BY <2>1, <2>4, <2>5
<1>6. ASSUME NEW c \in Calls, Alive, UNCHANGED <<commands, bounded, system>>,
    WriteFails(c) PROVE WritesOfStep'
  BY <1>6 DEF WriteFails, Goto
<1>7. ASSUME NEW c \in Calls, Alive, UNCHANGED <<commands, bounded, system>>,
    Written(c) PROVE WritesOfStep'
  BY <1>7 DEF Written, Goto
<1>8. ASSUME NEW c \in Calls, Alive, UNCHANGED <<commands, bounded, system>>,
    Rename(c) PROVE WritesOfStep'
  BY <1>8 DEF Rename, Settle
<1>9. ASSUME NEW c \in Calls, Alive, UNCHANGED <<commands, bounded, system>>,
    RenameFails(c) PROVE WritesOfStep'
  BY <1>9 DEF RenameFails, Goto
<1>10. ASSUME NEW c \in Calls, Alive, UNCHANGED <<commands, bounded, system>>,
    Unlink(c) PROVE WritesOfStep'
  BY <1>10 DEF Unlink, Settle, Failure
<1>11. ASSUME NEW c \in Calls, Alive, UNCHANGED <<commands, bounded, system>>, Open(c)
    PROVE WritesOfStep'
  <2>1. CASE aborted[c]
    BY <1>11, <2>1 DEF Open, Settle
  <2>2. CASE ~aborted[c] /\ target = None
    BY <1>11, <2>2 DEF Open, Settle
  <2>3. CASE ~aborted[c] /\ target # None
    BY <1>11, <2>3 DEF Open, Goto
  <2>4. QED
    BY <2>1, <2>2, <2>3
<1>12. ASSUME NEW c \in Calls, Alive, UNCHANGED <<commands, bounded, system>>,
    ReadHalf(c) PROVE WritesOfStep'
  BY <1>12 DEF ReadHalf
<1>13. ASSUME NEW c \in Calls, Alive, UNCHANGED <<commands, bounded, system>>,
    ReadEnds(c) PROVE WritesOfStep'
  <2>1. CASE Len(got[c]) >= Len(data[fd[c]]) /\ Settle(c, "ok")
    BY <1>13, <2>1 DEF ReadEnds, Settle
  <2>2. CASE Settle(c, Failure(c))
    BY <1>13, <2>2 DEF ReadEnds, Settle, Failure
  <2>3. QED
    BY <1>13, <2>1, <2>2 DEF ReadEnds
<1>14. ASSUME NEW c \in Calls, Alive, UNCHANGED <<files, bounded, system>>, Spawn(c)
    PROVE WritesOfStep'
  <2>1. CASE aborted[c] /\ Settle(c, "cancelled") /\ UNCHANGED commands
    BY <1>14, <2>1 DEF Spawn, Settle
  <2>2. CASE Settle(c, "error") /\ UNCHANGED commands
    BY <1>14, <2>2 DEF Spawn, Settle
  <2>3. CASE /\ ~aborted[c] /\ Goto(c, "running") /\ UNCHANGED <<reason, stage>>
             /\ \E g \in SUBSET {"child", "daemon"} : group' = [group EXCEPT ![c] = g \cup {"shell"}]
    BY <1>14, <2>3 DEF Spawn, Goto
  <2>4. QED
    BY <1>14, <2>1, <2>2, <2>3 DEF Spawn
<1>15. ASSUME NEW c \in Calls, Alive, UNCHANGED <<files, bounded, system>>, Close(c)
    PROVE WritesOfStep'
  BY <1>15 DEF Close, Settle
<1>16. ASSUME NEW c \in Calls, Alive, UNCHANGED <<files, bounded, system>>, Timeout(c)
    PROVE WritesOfStep'
  BY <1>16 DEF Timeout, Terminate
<1>17. ASSUME NEW c \in Calls, Alive, UNCHANGED <<files, bounded, system>>, Stopped(c)
    PROVE WritesOfStep'
  BY <1>17 DEF Stopped, Settle, Gone
<1>18. ASSUME NEW c \in Calls, Alive, UNCHANGED <<files, bounded, system>>,
    GraceOver(c) PROVE WritesOfStep'
  BY <1>18 DEF GraceOver, Gone
<1>19. ASSUME NEW c \in Calls, Alive, UNCHANGED <<files, bounded, system>>,
    StopFails(c) PROVE WritesOfStep'
  BY <1>19 DEF StopFails, Settle, Gone
<1>20. ASSUME NEW c \in Calls, UNCHANGED <<calls, files, bounded, system>>, Exits(c)
    PROVE WritesOfStep'
  BY <1>20 DEF Exits
<1>21. ASSUME NEW c \in Calls, MainStep(c) PROVE WritesOfStep'
  BY <1>21 DEF MainStep, MainEnds, MainReceives, MainNotices
<1>22. ASSUME NEW c \in Calls, Alive, UNCHANGED <<files, commands, system>>,
    Request(c) PROVE WritesOfStep'
  <2>1. CASE closed
    BY <1>22, <2>1 DEF Request, Settle
  <2>2. CASE ~closed
    BY <1>22, <2>2 DEF Request, Goto
  <2>3. QED
    BY <2>1, <2>2
<1>23. ASSUME Alive, UNCHANGED <<files, commands, system>>, Respond PROVE WritesOfStep'
  <2>1. CASE UNCHANGED <<calls, pending>>
    BY <1>23, <2>1 DEF Respond
  <2>2. CASE ~UNCHANGED <<calls, pending>>
    <3>1. PICK c \in pending, how \in Outcomes :
            /\ Message(how, c) \in Range(responses)
            /\ pending' = pending \ {c}
            /\ Settle(c, how)
      BY <1>23, <2>2, RespondMoves
    <3>2. QED
      BY <1>23, <3>1 DEF Respond, Settle
  <2>3. QED
    BY <2>1, <2>2
<1>24. ASSUME Shutdown PROVE WritesOfStep'
  BY <1>24 DEF Shutdown, InFlight, Terminate
<1>25. ASSUME Exit PROVE WritesOfStep'
  BY <1>25 DEF Exit
<1>26. ASSUME Crash PROVE WritesOfStep'
  BY <1>26 DEF Crash
<1>27. CASE UNCHANGED vars
  BY <1>27 DEF vars
<1> HIDE DEF None, ToolInv, TypeOK, CallTypes, FileTypes, StepOfTool, WritesOfStep,
    Outcomes, At
<1>28. QED
  BY <1>1, <1>2, <1>3, <1>4, <1>5, <1>6, <1>7, <1>8, <1>9, <1>10, <1>11, <1>12, <1>13,
      <1>14, <1>15, <1>16, <1>17, <1>18, <1>19, <1>20, <1>21, <1>22, <1>23, <1>24, <1>25,
      <1>26, <1>27 DEF Next, FileStep, FullStep, BoundedStep
\* Reads go through whole inodes.
LEMMA ReadsKept == ToolInv /\ [Next]_vars => ReadsOfStep'
<1> SUFFICES ASSUME ToolInv, [Next]_vars PROVE ReadsOfStep'
  OBVIOUS
<1> USE FileToolsAssumption DEF None, ToolInv, TypeOK, CallTypes, FileTypes,
    StepOfTool, WritesOfStep, ReadsOfStep, Outcomes, At
<1>1. ASSUME NEW c \in Calls, Begin(c) PROVE ReadsOfStep'
  BY <1>1 DEF Begin
<1>2. ASSUME NEW c \in Calls, Abort(c) PROVE ReadsOfStep'
  BY <1>2 DEF Abort, InFlight, Listeners, Terminate
<1>3. ASSUME NEW c \in Calls, Alive, UNCHANGED <<commands, bounded, system>>,
    Refuse(c) PROVE ReadsOfStep'
  BY <1>3 DEF Refuse, Settle
<1>4. ASSUME NEW c \in Calls, Alive, UNCHANGED <<commands, bounded, system>>,
    Inspect(c) PROVE ReadsOfStep'
  <2>1. CASE aborted[c]
    BY <1>4, <2>1 DEF Inspect, Settle
  <2>2. CASE ~aborted[c]
    BY <1>4, <2>2 DEF Inspect, Goto
  <2>3. QED
    BY <2>1, <2>2
<1>5. ASSUME NEW c \in Calls, Alive, UNCHANGED <<commands, bounded, system>>,
    WriteHalf(c) PROVE ReadsOfStep'
  <2>1. /\ UNCHANGED <<calls, target, fd, got>>
        /\ data' = [data EXCEPT ![c] = Append(data[c], c)]
        /\ Len(data[c]) < 2
    BY <1>5 DEF WriteHalf
  <2>2. data[c] # Whole(c)
    BY <2>1, HalfIsNotWhole
  <2>3. \A d \in Calls : fd[d] # c
    BY <2>2
  <2>4. \A i \in (Calls \cup {Old}) \ {c} : data'[i] = data[i]
    BY <2>1
  <2>5. QED
    BY <2>1, <2>3, <2>4
<1>6. ASSUME NEW c \in Calls, Alive, UNCHANGED <<commands, bounded, system>>,
    WriteFails(c) PROVE ReadsOfStep'
  BY <1>6 DEF WriteFails, Goto
<1>7. ASSUME NEW c \in Calls, Alive, UNCHANGED <<commands, bounded, system>>,
    Written(c) PROVE ReadsOfStep'
  BY <1>7 DEF Written, Goto
<1>8. ASSUME NEW c \in Calls, Alive, UNCHANGED <<commands, bounded, system>>,
    Rename(c) PROVE ReadsOfStep'
  BY <1>8 DEF Rename, Settle
<1>9. ASSUME NEW c \in Calls, Alive, UNCHANGED <<commands, bounded, system>>,
    RenameFails(c) PROVE ReadsOfStep'
  BY <1>9 DEF RenameFails, Goto
<1>10. ASSUME NEW c \in Calls, Alive, UNCHANGED <<commands, bounded, system>>,
    Unlink(c) PROVE ReadsOfStep'
  BY <1>10 DEF Unlink, Settle, Failure
<1>11. ASSUME NEW c \in Calls, Alive, UNCHANGED <<commands, bounded, system>>, Open(c)
    PROVE ReadsOfStep'
  <2>1. CASE aborted[c]
    BY <1>11, <2>1 DEF Open, Settle
  <2>2. CASE ~aborted[c] /\ target = None
    BY <1>11, <2>2 DEF Open, Settle
  <2>3. CASE ~aborted[c] /\ target # None
    <3>1. data[target] = Whole(target)
      BY <2>3
    <3>2. fd[c] = None /\ got[c] = Empty /\ outcome[c] = None /\ tool[c] = "read"
      BY <1>11 DEF Open
    <3>3. /\ UNCHANGED <<tool, outcome, data, got>>
          /\ step' = [step EXCEPT ![c] = "reading"] /\ fd' = [fd EXCEPT ![c] = target]
      BY <1>11, <2>3 DEF Open, Goto
    <3>4. QED
      BY <2>3, <3>1, <3>2, <3>3
  <2>4. QED
    BY <2>1, <2>2, <2>3
<1>12. ASSUME NEW c \in Calls, Alive, UNCHANGED <<commands, bounded, system>>,
    ReadHalf(c) PROVE ReadsOfStep'
  <2>1. /\ UNCHANGED <<calls, data, fd>> /\ step[c] = "reading" /\ tool[c] = "read"
        /\ outcome[c] = None /\ fd[c] # None
    BY <1>12 DEF ReadHalf
  <2>2. got' = [got EXCEPT ![c] = IF got[c] = Empty THEN <<fd[c]>> ELSE Whole(fd[c])]
    BY <1>12, ReadHalfMoves
  <2>3. got'[c] \in {<<fd[c]>>, Whole(fd[c])} /\ \A d \in Calls \ {c} : got'[d] = got[d]
    BY <2>2
  <2>4. QED
    BY <2>1, <2>3
<1>13. ASSUME NEW c \in Calls, Alive, UNCHANGED <<commands, bounded, system>>,
    ReadEnds(c) PROVE ReadsOfStep'
  <2>1. UNCHANGED <<data, fd, got>> /\ step[c] = "reading" /\ tool[c] = "read" /\ fd[c] # None
    BY <1>13 DEF ReadEnds
  <2>2. CASE Len(got[c]) >= Len(data[fd[c]]) /\ Settle(c, "ok")
    <3>1. data[fd[c]] = Whole(fd[c]) /\ got[c] \in {Empty, <<fd[c]>>, Whole(fd[c])}
      BY <2>1
    <3>2. got[c] = Whole(fd[c])
      BY <2>2, <3>1, HalfIsNotWhole
    <3>3. QED
      BY <2>1, <2>2, <3>2 DEF Settle
  <2>3. CASE Settle(c, Failure(c))
    BY <2>1, <2>3 DEF Settle, Failure
  <2>4. QED
    BY <1>13, <2>2, <2>3 DEF ReadEnds
<1>14. ASSUME NEW c \in Calls, Alive, UNCHANGED <<files, bounded, system>>, Spawn(c)
    PROVE ReadsOfStep'
  <2>1. CASE aborted[c] /\ Settle(c, "cancelled") /\ UNCHANGED commands
    BY <1>14, <2>1 DEF Spawn, Settle
  <2>2. CASE Settle(c, "error") /\ UNCHANGED commands
    BY <1>14, <2>2 DEF Spawn, Settle
  <2>3. CASE /\ ~aborted[c] /\ Goto(c, "running") /\ UNCHANGED <<reason, stage>>
             /\ \E g \in SUBSET {"child", "daemon"} : group' = [group EXCEPT ![c] = g \cup {"shell"}]
    BY <1>14, <2>3 DEF Spawn, Goto
  <2>4. QED
    BY <1>14, <2>1, <2>2, <2>3 DEF Spawn
<1>15. ASSUME NEW c \in Calls, Alive, UNCHANGED <<files, bounded, system>>, Close(c)
    PROVE ReadsOfStep'
  BY <1>15 DEF Close, Settle
<1>16. ASSUME NEW c \in Calls, Alive, UNCHANGED <<files, bounded, system>>, Timeout(c)
    PROVE ReadsOfStep'
  BY <1>16 DEF Timeout, Terminate
<1>17. ASSUME NEW c \in Calls, Alive, UNCHANGED <<files, bounded, system>>, Stopped(c)
    PROVE ReadsOfStep'
  BY <1>17 DEF Stopped, Settle, Gone
<1>18. ASSUME NEW c \in Calls, Alive, UNCHANGED <<files, bounded, system>>,
    GraceOver(c) PROVE ReadsOfStep'
  BY <1>18 DEF GraceOver, Gone
<1>19. ASSUME NEW c \in Calls, Alive, UNCHANGED <<files, bounded, system>>,
    StopFails(c) PROVE ReadsOfStep'
  BY <1>19 DEF StopFails, Settle, Gone
<1>20. ASSUME NEW c \in Calls, UNCHANGED <<calls, files, bounded, system>>, Exits(c)
    PROVE ReadsOfStep'
  BY <1>20 DEF Exits
<1>21. ASSUME NEW c \in Calls, MainStep(c) PROVE ReadsOfStep'
  BY <1>21 DEF MainStep, MainEnds, MainReceives, MainNotices
<1>22. ASSUME NEW c \in Calls, Alive, UNCHANGED <<files, commands, system>>,
    Request(c) PROVE ReadsOfStep'
  <2>1. /\ tool[c] = "bounded" /\ UNCHANGED <<tool, files>>
        /\ \A d \in Calls \ {c} : step'[d] = step[d] /\ outcome'[d] = outcome[d]
    BY <1>22 DEF Request, Settle, Goto
  <2>2. fd[c] = None /\ step'[c] # "reading"
    <3>1. step'[c] \in {"over", "waiting"}
      BY <1>22 DEF Request, Settle, Goto
    <3>2. QED
      BY <2>1, <3>1
  <2>3. QED
    BY <2>1, <2>2
<1>23. ASSUME Alive, UNCHANGED <<files, commands, system>>, Respond PROVE ReadsOfStep'
  <2>1. CASE UNCHANGED <<calls, pending>>
    BY <1>23, <2>1 DEF Respond
  <2>2. CASE ~UNCHANGED <<calls, pending>>
    <3>1. PICK c \in pending, how \in Outcomes :
            /\ Message(how, c) \in Range(responses)
            /\ pending' = pending \ {c}
            /\ Settle(c, how)
      BY <1>23, <2>2, RespondMoves
    <3>2. QED
      BY <1>23, <3>1 DEF Respond, Settle
  <2>3. QED
    BY <2>1, <2>2
<1>24. ASSUME Shutdown PROVE ReadsOfStep'
  BY <1>24 DEF Shutdown, InFlight, Terminate
<1>25. ASSUME Exit PROVE ReadsOfStep'
  BY <1>25 DEF Exit
<1>26. ASSUME Crash PROVE ReadsOfStep'
  BY <1>26 DEF Crash
<1>27. CASE UNCHANGED vars
  BY <1>27 DEF vars
<1> HIDE DEF None, ToolInv, TypeOK, CallTypes, FileTypes, StepOfTool, WritesOfStep,
    ReadsOfStep, Outcomes, At
<1>28. QED
  BY <1>1, <1>2, <1>3, <1>4, <1>5, <1>6, <1>7, <1>8, <1>9, <1>10, <1>11, <1>12, <1>13,
      <1>14, <1>15, <1>16, <1>17, <1>18, <1>19, <1>20, <1>21, <1>22, <1>23, <1>24, <1>25,
      <1>26, <1>27 DEF Next, FileStep, FullStep, BoundedStep
\* Processes and reasons are those of commands.
LEMMA CommandsKept == ToolInv /\ [Next]_vars => CommandOfStep'
<1> SUFFICES ASSUME ToolInv, [Next]_vars PROVE CommandOfStep'
  OBVIOUS
<1> USE FileToolsAssumption DEF None, ToolInv, TypeOK, CallTypes, CommandTypes,
    StepOfTool, CommandOfStep, Outcomes, At
<1>1. ASSUME NEW c \in Calls, Begin(c) PROVE CommandOfStep'
  BY <1>1 DEF Begin
<1>2. ASSUME NEW c \in Calls, Abort(c) PROVE CommandOfStep'
  BY <1>2 DEF Abort, InFlight, Listeners, Terminate
<1>3. ASSUME NEW c \in Calls, Alive, UNCHANGED <<commands, bounded, system>>,
    Refuse(c) PROVE CommandOfStep'
  BY <1>3 DEF Refuse, Settle
<1>4. ASSUME NEW c \in Calls, Alive, UNCHANGED <<commands, bounded, system>>,
    Inspect(c) PROVE CommandOfStep'
  <2>1. CASE aborted[c]
    BY <1>4, <2>1 DEF Inspect, Settle
  <2>2. CASE ~aborted[c]
    BY <1>4, <2>2 DEF Inspect, Goto
  <2>3. QED
    BY <2>1, <2>2
<1>5. ASSUME NEW c \in Calls, Alive, UNCHANGED <<commands, bounded, system>>,
    WriteHalf(c) PROVE CommandOfStep'
  BY <1>5 DEF WriteHalf
<1>6. ASSUME NEW c \in Calls, Alive, UNCHANGED <<commands, bounded, system>>,
    WriteFails(c) PROVE CommandOfStep'
  BY <1>6 DEF WriteFails, Goto
<1>7. ASSUME NEW c \in Calls, Alive, UNCHANGED <<commands, bounded, system>>,
    Written(c) PROVE CommandOfStep'
  BY <1>7 DEF Written, Goto
<1>8. ASSUME NEW c \in Calls, Alive, UNCHANGED <<commands, bounded, system>>,
    Rename(c) PROVE CommandOfStep'
  BY <1>8 DEF Rename, Settle
<1>9. ASSUME NEW c \in Calls, Alive, UNCHANGED <<commands, bounded, system>>,
    RenameFails(c) PROVE CommandOfStep'
  BY <1>9 DEF RenameFails, Goto
<1>10. ASSUME NEW c \in Calls, Alive, UNCHANGED <<commands, bounded, system>>,
    Unlink(c) PROVE CommandOfStep'
  BY <1>10 DEF Unlink, Settle, Failure
<1>11. ASSUME NEW c \in Calls, Alive, UNCHANGED <<commands, bounded, system>>, Open(c)
    PROVE CommandOfStep'
  <2>1. CASE aborted[c]
    BY <1>11, <2>1 DEF Open, Settle
  <2>2. CASE ~aborted[c] /\ target = None
    BY <1>11, <2>2 DEF Open, Settle
  <2>3. CASE ~aborted[c] /\ target # None
    BY <1>11, <2>3 DEF Open, Goto
  <2>4. QED
    BY <2>1, <2>2, <2>3
<1>12. ASSUME NEW c \in Calls, Alive, UNCHANGED <<commands, bounded, system>>,
    ReadHalf(c) PROVE CommandOfStep'
  BY <1>12 DEF ReadHalf
<1>13. ASSUME NEW c \in Calls, Alive, UNCHANGED <<commands, bounded, system>>,
    ReadEnds(c) PROVE CommandOfStep'
  <2>1. CASE Len(got[c]) >= Len(data[fd[c]]) /\ Settle(c, "ok")
    BY <1>13, <2>1 DEF ReadEnds, Settle
  <2>2. CASE Settle(c, Failure(c))
    BY <1>13, <2>2 DEF ReadEnds, Settle, Failure
  <2>3. QED
    BY <1>13, <2>1, <2>2 DEF ReadEnds
<1>14. ASSUME NEW c \in Calls, Alive, UNCHANGED <<files, bounded, system>>, Spawn(c)
    PROVE CommandOfStep'
  <2>1. CASE aborted[c] /\ Settle(c, "cancelled") /\ UNCHANGED commands
    BY <1>14, <2>1 DEF Spawn, Settle
  <2>2. CASE Settle(c, "error") /\ UNCHANGED commands
    BY <1>14, <2>2 DEF Spawn, Settle
  <2>3. CASE /\ ~aborted[c] /\ Goto(c, "running") /\ UNCHANGED <<reason, stage>>
             /\ \E g \in SUBSET {"child", "daemon"} : group' = [group EXCEPT ![c] = g \cup {"shell"}]
    BY <1>14, <2>3 DEF Spawn, Goto
  <2>4. QED
    BY <1>14, <2>1, <2>2, <2>3 DEF Spawn
<1>15. ASSUME NEW c \in Calls, Alive, UNCHANGED <<files, bounded, system>>, Close(c)
    PROVE CommandOfStep'
  BY <1>15 DEF Close, Settle
<1>16. ASSUME NEW c \in Calls, Alive, UNCHANGED <<files, bounded, system>>, Timeout(c)
    PROVE CommandOfStep'
  BY <1>16 DEF Timeout, Terminate
<1>17. ASSUME NEW c \in Calls, Alive, UNCHANGED <<files, bounded, system>>, Stopped(c)
    PROVE CommandOfStep'
  BY <1>17 DEF Stopped, Settle, Gone
<1>18. ASSUME NEW c \in Calls, Alive, UNCHANGED <<files, bounded, system>>,
    GraceOver(c) PROVE CommandOfStep'
  BY <1>18 DEF GraceOver, Gone
<1>19. ASSUME NEW c \in Calls, Alive, UNCHANGED <<files, bounded, system>>,
    StopFails(c) PROVE CommandOfStep'
  BY <1>19 DEF StopFails, Settle, Gone
<1>20. ASSUME NEW c \in Calls, UNCHANGED <<calls, files, bounded, system>>, Exits(c)
    PROVE CommandOfStep'
  BY <1>20 DEF Exits
<1>21. ASSUME NEW c \in Calls, MainStep(c) PROVE CommandOfStep'
  BY <1>21 DEF MainStep, MainEnds, MainReceives, MainNotices
<1>22. ASSUME NEW c \in Calls, Alive, UNCHANGED <<files, commands, system>>,
    Request(c) PROVE CommandOfStep'
  <2>1. CASE closed
    BY <1>22, <2>1 DEF Request, Settle
  <2>2. CASE ~closed
    BY <1>22, <2>2 DEF Request, Goto
  <2>3. QED
    BY <2>1, <2>2
<1>23. ASSUME Alive, UNCHANGED <<files, commands, system>>, Respond PROVE CommandOfStep'
  <2>1. CASE UNCHANGED <<calls, pending>>
    BY <1>23, <2>1 DEF Respond
  <2>2. CASE ~UNCHANGED <<calls, pending>>
    <3>1. PICK c \in pending, how \in Outcomes :
            /\ Message(how, c) \in Range(responses)
            /\ pending' = pending \ {c}
            /\ Settle(c, how)
      BY <1>23, <2>2, RespondMoves
    <3>2. QED
      BY <1>23, <3>1 DEF Respond, Settle
  <2>3. QED
    BY <2>1, <2>2
<1>24. ASSUME Shutdown PROVE CommandOfStep'
  BY <1>24 DEF Shutdown, InFlight, Terminate
<1>25. ASSUME Exit PROVE CommandOfStep'
  BY <1>25 DEF Exit
<1>26. ASSUME Crash PROVE CommandOfStep'
  BY <1>26 DEF Crash
<1>27. CASE UNCHANGED vars
  BY <1>27 DEF vars
<1> HIDE DEF None, ToolInv, TypeOK, CallTypes, CommandTypes, StepOfTool,
    CommandOfStep, Outcomes, At
<1>28. QED
  BY <1>1, <1>2, <1>3, <1>4, <1>5, <1>6, <1>7, <1>8, <1>9, <1>10, <1>11, <1>12, <1>13,
      <1>14, <1>15, <1>16, <1>17, <1>18, <1>19, <1>20, <1>21, <1>22, <1>23, <1>24, <1>25,
      <1>26, <1>27 DEF Next, FileStep, FullStep, BoundedStep
\* Nothing is reported that is not so.
LEMMA ReportsKept == ToolInv /\ [Next]_vars => ReportsAreTrue'
<1> SUFFICES ASSUME ToolInv, [Next]_vars PROVE ReportsAreTrue'
  OBVIOUS
<1> USE FileToolsAssumption DEF None, ToolInv, TypeOK, CallTypes, CommandTypes,
    StepOfTool, CommandOfStep, MessagesOfCall, ReportsAreTrue, Outcomes, At
<1>1. ASSUME NEW c \in Calls, Begin(c) PROVE ReportsAreTrue'
  BY <1>1 DEF Begin
<1>2. ASSUME NEW c \in Calls, Abort(c) PROVE ReportsAreTrue'
  BY <1>2 DEF Abort, InFlight, Listeners, Terminate
<1>3. ASSUME NEW c \in Calls, Alive, UNCHANGED <<commands, bounded, system>>,
    Refuse(c) PROVE ReportsAreTrue'
  BY <1>3 DEF Refuse, Settle
<1>4. ASSUME NEW c \in Calls, Alive, UNCHANGED <<commands, bounded, system>>,
    Inspect(c) PROVE ReportsAreTrue'
  <2>1. CASE aborted[c]
    BY <1>4, <2>1 DEF Inspect, Settle
  <2>2. CASE ~aborted[c]
    BY <1>4, <2>2 DEF Inspect, Goto
  <2>3. QED
    BY <2>1, <2>2
<1>5. ASSUME NEW c \in Calls, Alive, UNCHANGED <<commands, bounded, system>>,
    WriteHalf(c) PROVE ReportsAreTrue'
  BY <1>5 DEF WriteHalf
<1>6. ASSUME NEW c \in Calls, Alive, UNCHANGED <<commands, bounded, system>>,
    WriteFails(c) PROVE ReportsAreTrue'
  BY <1>6 DEF WriteFails, Goto
<1>7. ASSUME NEW c \in Calls, Alive, UNCHANGED <<commands, bounded, system>>,
    Written(c) PROVE ReportsAreTrue'
  BY <1>7 DEF Written, Goto
<1>8. ASSUME NEW c \in Calls, Alive, UNCHANGED <<commands, bounded, system>>,
    Rename(c) PROVE ReportsAreTrue'
  BY <1>8 DEF Rename, Settle
<1>9. ASSUME NEW c \in Calls, Alive, UNCHANGED <<commands, bounded, system>>,
    RenameFails(c) PROVE ReportsAreTrue'
  BY <1>9 DEF RenameFails, Goto
<1>10. ASSUME NEW c \in Calls, Alive, UNCHANGED <<commands, bounded, system>>,
    Unlink(c) PROVE ReportsAreTrue'
  BY <1>10 DEF Unlink, Settle, Failure
<1>11. ASSUME NEW c \in Calls, Alive, UNCHANGED <<commands, bounded, system>>, Open(c)
    PROVE ReportsAreTrue'
  <2>1. CASE aborted[c]
    BY <1>11, <2>1 DEF Open, Settle
  <2>2. CASE ~aborted[c] /\ target = None
    BY <1>11, <2>2 DEF Open, Settle
  <2>3. CASE ~aborted[c] /\ target # None
    BY <1>11, <2>3 DEF Open, Goto
  <2>4. QED
    BY <2>1, <2>2, <2>3
<1>12. ASSUME NEW c \in Calls, Alive, UNCHANGED <<commands, bounded, system>>,
    ReadHalf(c) PROVE ReportsAreTrue'
  BY <1>12 DEF ReadHalf
<1>13. ASSUME NEW c \in Calls, Alive, UNCHANGED <<commands, bounded, system>>,
    ReadEnds(c) PROVE ReportsAreTrue'
  <2>1. CASE Len(got[c]) >= Len(data[fd[c]]) /\ Settle(c, "ok")
    BY <1>13, <2>1 DEF ReadEnds, Settle
  <2>2. CASE Settle(c, Failure(c))
    BY <1>13, <2>2 DEF ReadEnds, Settle, Failure
  <2>3. QED
    BY <1>13, <2>1, <2>2 DEF ReadEnds
<1>14. ASSUME NEW c \in Calls, Alive, UNCHANGED <<files, bounded, system>>, Spawn(c)
    PROVE ReportsAreTrue'
  <2>1. CASE aborted[c] /\ Settle(c, "cancelled") /\ UNCHANGED commands
    BY <1>14, <2>1 DEF Spawn, Settle
  <2>2. CASE Settle(c, "error") /\ UNCHANGED commands
    BY <1>14, <2>2 DEF Spawn, Settle
  <2>3. CASE /\ ~aborted[c] /\ Goto(c, "running") /\ UNCHANGED <<reason, stage>>
             /\ \E g \in SUBSET {"child", "daemon"} : group' = [group EXCEPT ![c] = g \cup {"shell"}]
    BY <1>14, <2>3 DEF Spawn, Goto
  <2>4. QED
    BY <1>14, <2>1, <2>2, <2>3 DEF Spawn
<1>15. ASSUME NEW c \in Calls, Alive, UNCHANGED <<files, bounded, system>>, Close(c)
    PROVE ReportsAreTrue'
  BY <1>15 DEF Close, Settle
<1>16. ASSUME NEW c \in Calls, Alive, UNCHANGED <<files, bounded, system>>, Timeout(c)
    PROVE ReportsAreTrue'
  BY <1>16 DEF Timeout, Terminate
<1>17. ASSUME NEW c \in Calls, Alive, UNCHANGED <<files, bounded, system>>, Stopped(c)
    PROVE ReportsAreTrue'
  BY <1>17 DEF Stopped, Settle, Gone
<1>18. ASSUME NEW c \in Calls, Alive, UNCHANGED <<files, bounded, system>>,
    GraceOver(c) PROVE ReportsAreTrue'
  BY <1>18 DEF GraceOver, Gone
<1>19. ASSUME NEW c \in Calls, Alive, UNCHANGED <<files, bounded, system>>,
    StopFails(c) PROVE ReportsAreTrue'
  BY <1>19 DEF StopFails, Settle, Gone
<1>20. ASSUME NEW c \in Calls, UNCHANGED <<calls, files, bounded, system>>, Exits(c)
    PROVE ReportsAreTrue'
  BY <1>20 DEF Exits
<1>21. ASSUME NEW c \in Calls, MainStep(c) PROVE ReportsAreTrue'
  BY <1>21 DEF MainStep, MainEnds, MainReceives, MainNotices
<1>22. ASSUME NEW c \in Calls, Alive, UNCHANGED <<files, commands, system>>,
    Request(c) PROVE ReportsAreTrue'
  <2>1. CASE closed
    BY <1>22, <2>1 DEF Request, Settle
  <2>2. CASE ~closed
    BY <1>22, <2>2 DEF Request, Goto
  <2>3. QED
    BY <2>1, <2>2
<1>23. ASSUME Alive, UNCHANGED <<files, commands, system>>, Respond PROVE
    ReportsAreTrue'
  <2>1. CASE UNCHANGED <<calls, pending>>
    BY <1>23, <2>1 DEF Respond
  <2>2. CASE ~UNCHANGED <<calls, pending>>
    <3>1. PICK c \in pending, how \in Outcomes :
            /\ Message(how, c) \in Range(responses)
            /\ pending' = pending \ {c}
            /\ Settle(c, how)
      BY <1>23, <2>2, RespondMoves
    <3>2. QED
      BY <1>23, <3>1 DEF Respond, Settle
  <2>3. QED
    BY <2>1, <2>2
<1>24. ASSUME Shutdown PROVE ReportsAreTrue'
  BY <1>24 DEF Shutdown, InFlight, Terminate
<1>25. ASSUME Exit PROVE ReportsAreTrue'
  BY <1>25 DEF Exit
<1>26. ASSUME Crash PROVE ReportsAreTrue'
  BY <1>26 DEF Crash
<1>27. CASE UNCHANGED vars
  BY <1>27 DEF vars
<1> HIDE DEF None, ToolInv, TypeOK, CallTypes, CommandTypes, StepOfTool,
    CommandOfStep, MessagesOfCall, ReportsAreTrue, Outcomes, At
<1>28. QED
  BY <1>1, <1>2, <1>3, <1>4, <1>5, <1>6, <1>7, <1>8, <1>9, <1>10, <1>11, <1>12, <1>13,
      <1>14, <1>15, <1>16, <1>17, <1>18, <1>19, <1>20, <1>21, <1>22, <1>23, <1>24, <1>25,
      <1>26, <1>27 DEF Next, FileStep, FullStep, BoundedStep
\* Messages follow steps.
LEMMA MessagesKept == ToolInv /\ [Next]_vars => MessagesOfCall'
<1> SUFFICES ASSUME ToolInv, [Next]_vars PROVE MessagesOfCall'
  OBVIOUS
<1> USE FileToolsAssumption DEF None, ToolInv, TypeOK, CallTypes, MessageTypes,
    StepOfTool, MessagesOfCall, At, Alive
<1>1. ASSUME NEW c \in Calls, Begin(c) PROVE MessagesOfCall'
  BY <1>1 DEF Begin
<1>2. ASSUME NEW c \in Calls, Abort(c) PROVE MessagesOfCall'
  <2>1. PICK s \in Cancels({c} \cap pending) : toMain' = toMain \o s
    BY <1>2 DEF Abort, Listeners
  <2>2. /\ UNCHANGED <<tool, step, entry, responses, host>> /\ InFlight(c)
        /\ aborted' = [aborted EXCEPT ![c] = TRUE]
    BY <1>2 DEF Abort
  <2>3. /\ s \in Seq(Cancellations)
        /\ \A e \in Range(s) : e = Message("cancel", c)
        /\ c \in pending => Message("cancel", c) \in Range(s)
    <3> DEFINE S == {c} \cap pending
    <3>1. S \in SUBSET Calls /\ s \in Cancels(S)
      OBVIOUS
    <3> HIDE DEF S
    <3>2. /\ s \in Seq(Cancellations)
          /\ \A i \in DOMAIN s : \E d \in S : s[i] = Message("cancel", d)
          /\ \A d \in S : \E i \in DOMAIN s : s[i] = Message("cancel", d)
      BY <3>1, CancelsOfAll
    <3>3. QED
      BY <3>2 DEF Range, S
  <2>4. /\ Range(toMain') = Range(toMain) \cup Range(s) /\ OnceOnly(toMain')
        /\ \A d \in Calls : CancelFollows(toMain, d) \/ Message("cancel", d) \in Range(s)
                            => CancelFollows(toMain', d)
    BY <2>1, <2>3, PostingCancels
  <2>5. \A d \in Calls :
          /\ Message("request", d) \in Range(toMain') => Message("request", d) \in Range(toMain)
          /\ Message("cancel", d) \in Range(toMain') =>
               d = c \/ Message("cancel", d) \in Range(toMain)
    BY <2>3, <2>4, MessageParts
  <2>6. entry[c] # None \/ Message("request", c) \in Range(toMain) => c \in pending
    BY <2>2 DEF InFlight
  <2>7. QED
    BY <2>2, <2>3, <2>4, <2>5, <2>6
<1>3. ASSUME NEW c \in Calls, Alive, UNCHANGED <<commands, bounded, system>>,
    FileStep(c) PROVE MessagesOfCall'
  <2>1. /\ UNCHANGED <<tool, aborted, bounded, host>>
        /\ step[c] \notin {"new", "waiting", "over"} /\ step'[c] # "waiting"
        /\ \A d \in Calls \ {c} : step'[d] = step[d]
    BY <1>3, FileStepMoves
  <2>2. entry[c] = None /\ Message("request", c) \notin Range(toMain)
    BY <2>1
  <2>3. \A how \in Outcomes : Message(how, c) \notin Range(responses)
    BY <2>2
  <2>4. QED
    BY <2>1, <2>2, <2>3
<1>4. ASSUME NEW c \in Calls, FullStep(c) PROVE MessagesOfCall'
  <2>1. /\ UNCHANGED <<tool, aborted, bounded, host>> /\ tool[c] = "full"
        /\ \A d \in Calls \ {c} : step'[d] = step[d]
    BY <1>4, FullStepMoves
  <2>2. entry[c] = None /\ Message("request", c) \notin Range(toMain)
    BY <2>1
  <2>3. \A how \in Outcomes : Message(how, c) \notin Range(responses)
    BY <2>2
  <2>4. QED
    BY <2>1, <2>2, <2>3
<1>5. ASSUME NEW c \in Calls, UNCHANGED <<calls, files, bounded, system>>, Exits(c)
    PROVE MessagesOfCall'
  BY <1>5 DEF Exits
<1>6. ASSUME NEW c \in Calls, UNCHANGED <<calls, files, commands, system>>,
    MainEnds(c) PROVE MessagesOfCall'
  <2>1. PICK how \in Outcomes : /\ responses' = Append(responses, Message(how, c))
                                /\ how = "cancelled" => entry[c] = "stopping"
    BY <1>6 DEF MainEnds, Outcomes
  <2>2. /\ UNCHANGED <<tool, step, aborted, toMain, host>> /\ entry[c] # None
        /\ entry' = [entry EXCEPT ![c] = "over"]
    BY <1>6 DEF MainEnds
  <2>3. Range(responses') = Range(responses) \cup {Message(how, c)}
    <3>1. Message(how, c) \in Answers
      BY DEF Answers
    <3>2. QED
      BY <2>1, <3>1, Answering
  <2>4. \A d \in Calls, o \in Outcomes :
          Message(o, d) \in Range(responses') =>
            (o = how /\ d = c) \/ Message(o, d) \in Range(responses)
    BY <2>3, MessageParts
  <2>5. Message("request", c) \notin Range(toMain)
    BY <2>2
  <2>6. QED
    BY <2>1, <2>2, <2>4, <2>5
<1>7. ASSUME UNCHANGED <<calls, files, commands, system>>, MainReceives PROVE
    MessagesOfCall'
  <2>1. PICK c \in Calls :
           \/ /\ Head(toMain) = Message("request", c)
              /\ entry' = [entry EXCEPT ![c] = "running"]
           \/ /\ Head(toMain) = Message("cancel", c)
              /\ entry' = [entry EXCEPT ![c] =
                              IF entry[c] = "running" THEN "stopping" ELSE entry[c]]
    BY <1>7, ReceiveMoves
  <2>2. UNCHANGED <<tool, step, aborted, responses, host>> /\ toMain' = Tail(toMain) /\ toMain # <<>>
    BY <1>7 DEF MainReceives
  <2>3. /\ Head(toMain) \in Range(toMain)
        /\ Range(toMain') \subseteq Range(toMain) /\ OnceOnly(toMain')
        /\ Head(toMain) \in Requests => Head(toMain) \notin Range(toMain')
        /\ \A d \in Calls :
             /\ CancelFollows(toMain, d)
             /\ Head(toMain) # Message("cancel", d) \/ Message("request", d) \in Range(toMain')
             => CancelFollows(toMain', d)
    BY <2>2, Receiving
  <2>4. CASE /\ Head(toMain) = Message("request", c)
             /\ entry' = [entry EXCEPT ![c] = "running"]
    <3>1. Message("request", c) \in Range(toMain) /\ Message("request", c) \notin Range(toMain')
      BY <2>3, <2>4 DEF Requests
    <3>2. \A d \in Calls : Head(toMain) # Message("cancel", d)
      BY <2>4, MessageParts
    <3>3. QED
      BY <2>2, <2>3, <2>4, <3>1, <3>2
  <2>5. CASE /\ Head(toMain) = Message("cancel", c)
             /\ entry' = [entry EXCEPT ![c] =
                             IF entry[c] = "running" THEN "stopping" ELSE entry[c]]
    <3>1. aborted[c]
      BY <2>3, <2>5
    <3>2. \A d \in Calls \ {c} : Head(toMain) # Message("cancel", d)
      BY <2>5, MessageParts
    <3>3. entry'[c] # "running" /\ \A d \in Calls \ {c} : entry'[d] = entry[d]
      BY <2>5
    <3>4. QED
      BY <2>2, <2>3, <2>5, <3>1, <3>2, <3>3
  <2>6. QED
    BY <2>1, <2>4, <2>5
<1>8. ASSUME UNCHANGED <<calls, files, commands, system>>, MainNotices PROVE
    MessagesOfCall'
  <2>1. /\ UNCHANGED <<tool, step, aborted, responses, host>> /\ toMain' = <<>> /\ ~Alive
        /\ entry' = [c \in Calls |-> IF entry[c] = "running" THEN "stopping" ELSE entry[c]]
    BY <1>8 DEF MainNotices
  <2>2. Range(toMain') = {} /\ OnceOnly(toMain')
    BY <2>1 DEF Range, OnceOnly
  <2>3. QED
    BY <2>1, <2>2
<1>9. ASSUME NEW c \in Calls, Alive, UNCHANGED <<files, commands, system>>, Request(c)
    PROVE MessagesOfCall'
  <2>1. tool[c] = "bounded" /\ step[c] = "begun" /\ entry[c] = None
    BY <1>9 DEF Request
  <2>2. Message("request", c) \notin Range(toMain)
    BY <2>1
  <2>3. CASE closed
    <3>1. /\ UNCHANGED <<tool, aborted, toMain, entry, responses, host>>
          /\ step' = [step EXCEPT ![c] = "over"]
      BY <1>9, <2>3 DEF Request, Settle
    <3>2. QED
      BY <2>1, <2>2, <3>1
  <2>4. CASE ~closed
    <3> DEFINE q == toMain \o <<Message("request", c)>>
               s == IF aborted[c] THEN <<Message("cancel", c)>> ELSE <<>>
    <3>1. /\ UNCHANGED <<tool, aborted, entry, responses, host>>
          /\ step' = [step EXCEPT ![c] = "waiting"] /\ toMain' = q \o s
      BY <1>9, <2>4 DEF Request, Goto
    <3>2. /\ q \in Seq(Messages) /\ Range(q) = Range(toMain) \cup {Message("request", c)}
          /\ OnceOnly(q)
          /\ \A d \in Calls \ {c} : CancelFollows(toMain, d) => CancelFollows(q, d)
      BY <2>2, PostingRequest
    <3>3. /\ s \in Seq(Cancellations)
          /\ aborted[c] => Range(s) = {Message("cancel", c)}
          /\ ~aborted[c] => Range(s) = {}
      <4>1. <<Message("cancel", c)>> \in Seq(Cancellations)
        BY DEF Cancellations
      <4>2. \A e : Range(<<e>>) = {e}
        BY DEF Range
      <4>3. <<>> \in Seq(Cancellations) /\ Range(<<>>) = {}
        BY DEF Range
      <4>4. QED
        BY <4>1, <4>2, <4>3
    <3> HIDE DEF q, s
    <3>4. /\ Range(toMain') = Range(q) \cup Range(s) /\ OnceOnly(toMain')
          /\ \A d \in Calls : CancelFollows(q, d) \/ Message("cancel", d) \in Range(s)
                              => CancelFollows(toMain', d)
      BY <3>1, <3>2, <3>3, PostingCancels
    <3>5. \A d \in Calls :
            /\ Message("request", d) \in Range(toMain') =>
                 d = c \/ Message("request", d) \in Range(toMain)
            /\ Message("cancel", d) \in Range(toMain') => aborted[d]
      BY <3>2, <3>3, <3>4, MessageParts
    <3>6. QED
      BY <2>1, <2>2, <3>1, <3>2, <3>3, <3>4, <3>5
  <2>5. QED
    BY <2>3, <2>4
<1>10. ASSUME Alive, UNCHANGED <<files, commands, system>>, Respond PROVE
    MessagesOfCall'
  <2>1. /\ \/ UNCHANGED <<calls, pending>>
           \/ \E c \in pending, how \in Outcomes :
                /\ Message(how, c) \in Range(responses)
                /\ pending' = pending \ {c}
                /\ Settle(c, how)
        /\ Range(responses') \subseteq Range(responses)
    BY <1>10, RespondMoves
  <2>2. UNCHANGED <<toMain, entry, host>>
    BY <1>10 DEF Respond
  <2>3. CASE UNCHANGED <<calls, pending>>
    BY <2>1, <2>2, <2>3
  <2>4. ASSUME NEW c \in pending, NEW how \in Outcomes, Message(how, c) \in Range(responses),
               Settle(c, how)
        PROVE  MessagesOfCall'
    <3>1. entry[c] = "over" /\ tool[c] = "bounded"
      BY <2>4
    <3>2. UNCHANGED <<tool, aborted>> /\ step' = [step EXCEPT ![c] = "over"]
      BY <2>4 DEF Settle
    <3>3. Message("request", c) \notin Range(toMain)
      BY <3>1
    <3>4. QED
      BY <2>1, <2>2, <3>1, <3>2, <3>3
  <2>5. QED
    BY <2>1, <2>3, <2>4
<1>11. ASSUME Shutdown PROVE MessagesOfCall'
  <2> DEFINE now == {d \in Calls : InFlight(d) /\ ~aborted[d]}
  <2>1. PICK s \in Cancels(now \cap pending), t \in Cancels(pending) : toMain' = toMain \o s \o t
    BY <1>11 DEF Shutdown
  <2>2. /\ UNCHANGED <<tool, entry, responses>> /\ Alive
        /\ aborted' = [d \in Calls |-> aborted[d] \/ d \in now]
        /\ step' = [d \in Calls |-> IF d \in pending THEN "over" ELSE step[d]]
    BY <1>11 DEF Shutdown
  <2>3. /\ s \in Seq(Cancellations) /\ t \in Seq(Cancellations)
        /\ \A e \in Range(s) \cup Range(t) : \E d \in pending : e = Message("cancel", d)
        /\ \A d \in pending : Message("cancel", d) \in Range(t)
    BY CancelsOfAll DEF Range
  <2> DEFINE q == toMain \o s
  <2>4. /\ q \in Seq(Messages) /\ Range(q) = Range(toMain) \cup Range(s) /\ OnceOnly(q)
        /\ \A d \in Calls : CancelFollows(toMain, d) => CancelFollows(q, d)
    BY <2>3, PostingCancels
  <2> HIDE DEF q
  <2>5. /\ Range(toMain') = Range(q) \cup Range(t) /\ OnceOnly(toMain')
        /\ \A d \in Calls : CancelFollows(q, d) \/ Message("cancel", d) \in Range(t)
                            => CancelFollows(toMain', d)
    <3>1. toMain' = q \o t
      BY <2>1 DEF q
    <3>2. QED
      BY <2>3, <2>4, <3>1, PostingCancels
  <2>6. \A d \in Calls :
          /\ Message("request", d) \in Range(toMain') => Message("request", d) \in Range(toMain)
          /\ Message("cancel", d) \in Range(toMain') =>
               d \in pending \/ Message("cancel", d) \in Range(toMain)
    BY <2>3, <2>4, <2>5, MessageParts
  <2>7. \A d \in pending : aborted'[d] /\ step[d] = "waiting"
    BY <2>2 DEF InFlight
  <2>8. \A d \in Calls : entry[d] # None \/ Message("request", d) \in Range(toMain) =>
          d \in pending \/ step[d] = "over"
    BY <2>2
  <2>9. QED
    BY <2>2, <2>3, <2>4, <2>5, <2>6, <2>7, <2>8
<1>12. ASSUME Exit PROVE MessagesOfCall'
  BY <1>12 DEF Exit
<1>13. ASSUME Crash PROVE MessagesOfCall'
  BY <1>13 DEF Crash
<1>14. CASE UNCHANGED vars
  BY <1>14 DEF vars
<1> HIDE DEF None, ToolInv, TypeOK, CallTypes, MessageTypes, StepOfTool,
    MessagesOfCall, At, Alive
<1>15. QED
  BY <1>1, <1>2, <1>3, <1>4, <1>5, <1>6, <1>7, <1>8, <1>9, <1>10, <1>11, <1>12, <1>13,
      <1>14 DEF Next, MainStep, BoundedStep
\* A cancel is posted in time and received after its request.
LEMMA CancelsKept == ToolInv /\ [Next]_vars => CancelsOfCall'
<1> SUFFICES ASSUME ToolInv, [Next]_vars PROVE CancelsOfCall'
  OBVIOUS
<1> USE FileToolsAssumption DEF None, ToolInv, TypeOK, CallTypes, MessageTypes,
    StepOfTool, MessagesOfCall, CancelsOfCall, At, Alive
<1>1. ASSUME NEW c \in Calls, Begin(c) PROVE CancelsOfCall'
  BY <1>1 DEF Begin
<1>2. ASSUME NEW c \in Calls, Abort(c) PROVE CancelsOfCall'
  <2>1. PICK s \in Cancels({c} \cap pending) : toMain' = toMain \o s
    BY <1>2 DEF Abort, Listeners
  <2>2. /\ UNCHANGED <<tool, step, entry, responses, host>> /\ InFlight(c)
        /\ aborted' = [aborted EXCEPT ![c] = TRUE]
    BY <1>2 DEF Abort
  <2>3. /\ s \in Seq(Cancellations)
        /\ \A e \in Range(s) : e = Message("cancel", c)
        /\ c \in pending => Message("cancel", c) \in Range(s)
    <3> DEFINE S == {c} \cap pending
    <3>1. S \in SUBSET Calls /\ s \in Cancels(S)
      OBVIOUS
    <3> HIDE DEF S
    <3>2. /\ s \in Seq(Cancellations)
          /\ \A i \in DOMAIN s : \E d \in S : s[i] = Message("cancel", d)
          /\ \A d \in S : \E i \in DOMAIN s : s[i] = Message("cancel", d)
      BY <3>1, CancelsOfAll
    <3>3. QED
      BY <3>2 DEF Range, S
  <2>4. /\ Range(toMain') = Range(toMain) \cup Range(s) /\ OnceOnly(toMain')
        /\ \A d \in Calls : CancelFollows(toMain, d) \/ Message("cancel", d) \in Range(s)
                            => CancelFollows(toMain', d)
    BY <2>1, <2>3, PostingCancels
  <2>5. \A d \in Calls :
          /\ Message("request", d) \in Range(toMain') => Message("request", d) \in Range(toMain)
          /\ Message("cancel", d) \in Range(toMain') =>
               d = c \/ Message("cancel", d) \in Range(toMain)
    BY <2>3, <2>4, MessageParts
  <2>6. entry[c] # None \/ Message("request", c) \in Range(toMain) => c \in pending
    BY <2>2 DEF InFlight
  <2>7. QED
    BY <2>2, <2>3, <2>4, <2>5, <2>6
<1>3. ASSUME NEW c \in Calls, Alive, UNCHANGED <<commands, bounded, system>>,
    FileStep(c) PROVE CancelsOfCall'
  <2>1. /\ UNCHANGED <<tool, aborted, bounded, host>>
        /\ step[c] \notin {"new", "waiting", "over"} /\ step'[c] # "waiting"
        /\ \A d \in Calls \ {c} : step'[d] = step[d]
    BY <1>3, FileStepMoves
  <2>2. entry[c] = None /\ Message("request", c) \notin Range(toMain)
    BY <2>1
  <2>3. \A how \in Outcomes : Message(how, c) \notin Range(responses)
    BY <2>2
  <2>4. QED
    BY <2>1, <2>2, <2>3
<1>4. ASSUME NEW c \in Calls, FullStep(c) PROVE CancelsOfCall'
  <2>1. /\ UNCHANGED <<tool, aborted, bounded, host>> /\ tool[c] = "full"
        /\ \A d \in Calls \ {c} : step'[d] = step[d]
    BY <1>4, FullStepMoves
  <2>2. entry[c] = None /\ Message("request", c) \notin Range(toMain)
    BY <2>1
  <2>3. \A how \in Outcomes : Message(how, c) \notin Range(responses)
    BY <2>2
  <2>4. QED
    BY <2>1, <2>2, <2>3
<1>5. ASSUME NEW c \in Calls, UNCHANGED <<calls, files, bounded, system>>, Exits(c)
    PROVE CancelsOfCall'
  BY <1>5 DEF Exits
<1>6. ASSUME NEW c \in Calls, UNCHANGED <<calls, files, commands, system>>,
    MainEnds(c) PROVE CancelsOfCall'
  <2>1. PICK how \in Outcomes : /\ responses' = Append(responses, Message(how, c))
                                /\ how = "cancelled" => entry[c] = "stopping"
    BY <1>6 DEF MainEnds, Outcomes
  <2>2. /\ UNCHANGED <<tool, step, aborted, toMain, host>> /\ entry[c] # None
        /\ entry' = [entry EXCEPT ![c] = "over"]
    BY <1>6 DEF MainEnds
  <2>3. Range(responses') = Range(responses) \cup {Message(how, c)}
    <3>1. Message(how, c) \in Answers
      BY DEF Answers
    <3>2. QED
      BY <2>1, <3>1, Answering
  <2>4. \A d \in Calls, o \in Outcomes :
          Message(o, d) \in Range(responses') =>
            (o = how /\ d = c) \/ Message(o, d) \in Range(responses)
    BY <2>3, MessageParts
  <2>5. Message("request", c) \notin Range(toMain)
    BY <2>2
  <2>6. QED
    BY <2>1, <2>2, <2>4, <2>5
<1>7. ASSUME UNCHANGED <<calls, files, commands, system>>, MainReceives PROVE
    CancelsOfCall'
  <2>1. PICK c \in Calls :
           \/ /\ Head(toMain) = Message("request", c)
              /\ entry' = [entry EXCEPT ![c] = "running"]
           \/ /\ Head(toMain) = Message("cancel", c)
              /\ entry' = [entry EXCEPT ![c] =
                              IF entry[c] = "running" THEN "stopping" ELSE entry[c]]
    BY <1>7, ReceiveMoves
  <2>2. UNCHANGED <<tool, step, aborted, responses, host>> /\ toMain' = Tail(toMain) /\ toMain # <<>>
    BY <1>7 DEF MainReceives
  <2>3. /\ Head(toMain) \in Range(toMain)
        /\ Range(toMain') \subseteq Range(toMain) /\ OnceOnly(toMain')
        /\ Head(toMain) \in Requests => Head(toMain) \notin Range(toMain')
        /\ \A d \in Calls :
             /\ CancelFollows(toMain, d)
             /\ Head(toMain) # Message("cancel", d) \/ Message("request", d) \in Range(toMain')
             => CancelFollows(toMain', d)
    BY <2>2, Receiving
  <2>4. CASE /\ Head(toMain) = Message("request", c)
             /\ entry' = [entry EXCEPT ![c] = "running"]
    <3>1. Message("request", c) \in Range(toMain) /\ Message("request", c) \notin Range(toMain')
      BY <2>3, <2>4 DEF Requests
    <3>2. \A d \in Calls : Head(toMain) # Message("cancel", d)
      BY <2>4, MessageParts
    <3>3. QED
      BY <2>2, <2>3, <2>4, <3>1, <3>2
  <2>5. CASE /\ Head(toMain) = Message("cancel", c)
             /\ entry' = [entry EXCEPT ![c] =
                             IF entry[c] = "running" THEN "stopping" ELSE entry[c]]
    <3>1. aborted[c]
      BY <2>3, <2>5
    <3>2. \A d \in Calls \ {c} : Head(toMain) # Message("cancel", d)
      BY <2>5, MessageParts
    <3>3. entry'[c] # "running" /\ \A d \in Calls \ {c} : entry'[d] = entry[d]
      BY <2>5
    <3>4. QED
      BY <2>2, <2>3, <2>5, <3>1, <3>2, <3>3
  <2>6. QED
    BY <2>1, <2>4, <2>5
<1>8. ASSUME UNCHANGED <<calls, files, commands, system>>, MainNotices PROVE
    CancelsOfCall'
  <2>1. /\ UNCHANGED <<tool, step, aborted, responses, host>> /\ toMain' = <<>> /\ ~Alive
        /\ entry' = [c \in Calls |-> IF entry[c] = "running" THEN "stopping" ELSE entry[c]]
    BY <1>8 DEF MainNotices
  <2>2. Range(toMain') = {} /\ OnceOnly(toMain')
    BY <2>1 DEF Range, OnceOnly
  <2>3. QED
    BY <2>1, <2>2
<1>9. ASSUME NEW c \in Calls, Alive, UNCHANGED <<files, commands, system>>, Request(c)
    PROVE CancelsOfCall'
  <2>1. tool[c] = "bounded" /\ step[c] = "begun" /\ entry[c] = None
    BY <1>9 DEF Request
  <2>2. Message("request", c) \notin Range(toMain)
    BY <2>1
  <2>3. CASE closed
    <3>1. /\ UNCHANGED <<tool, aborted, toMain, entry, responses, host>>
          /\ step' = [step EXCEPT ![c] = "over"]
      BY <1>9, <2>3 DEF Request, Settle
    <3>2. QED
      BY <2>1, <2>2, <3>1
  <2>4. CASE ~closed
    <3> DEFINE q == toMain \o <<Message("request", c)>>
               s == IF aborted[c] THEN <<Message("cancel", c)>> ELSE <<>>
    <3>1. /\ UNCHANGED <<tool, aborted, entry, responses, host>>
          /\ step' = [step EXCEPT ![c] = "waiting"] /\ toMain' = q \o s
      BY <1>9, <2>4 DEF Request, Goto
    <3>2. /\ q \in Seq(Messages) /\ Range(q) = Range(toMain) \cup {Message("request", c)}
          /\ OnceOnly(q)
          /\ \A d \in Calls \ {c} : CancelFollows(toMain, d) => CancelFollows(q, d)
      BY <2>2, PostingRequest
    <3>3. /\ s \in Seq(Cancellations)
          /\ aborted[c] => Range(s) = {Message("cancel", c)}
          /\ ~aborted[c] => Range(s) = {}
      <4>1. <<Message("cancel", c)>> \in Seq(Cancellations)
        BY DEF Cancellations
      <4>2. \A e : Range(<<e>>) = {e}
        BY DEF Range
      <4>3. <<>> \in Seq(Cancellations) /\ Range(<<>>) = {}
        BY DEF Range
      <4>4. QED
        BY <4>1, <4>2, <4>3
    <3> HIDE DEF q, s
    <3>4. /\ Range(toMain') = Range(q) \cup Range(s) /\ OnceOnly(toMain')
          /\ \A d \in Calls : CancelFollows(q, d) \/ Message("cancel", d) \in Range(s)
                              => CancelFollows(toMain', d)
      BY <3>1, <3>2, <3>3, PostingCancels
    <3>5. \A d \in Calls :
            /\ Message("request", d) \in Range(toMain') =>
                 d = c \/ Message("request", d) \in Range(toMain)
            /\ Message("cancel", d) \in Range(toMain') => aborted[d]
      BY <3>2, <3>3, <3>4, MessageParts
    <3>6. QED
      BY <2>1, <2>2, <3>1, <3>2, <3>3, <3>4, <3>5
  <2>5. QED
    BY <2>3, <2>4
<1>10. ASSUME Alive, UNCHANGED <<files, commands, system>>, Respond PROVE CancelsOfCall'
  <2>1. /\ \/ UNCHANGED <<calls, pending>>
           \/ \E c \in pending, how \in Outcomes :
                /\ Message(how, c) \in Range(responses)
                /\ pending' = pending \ {c}
                /\ Settle(c, how)
        /\ Range(responses') \subseteq Range(responses)
    BY <1>10, RespondMoves
  <2>2. UNCHANGED <<toMain, entry, host>>
    BY <1>10 DEF Respond
  <2>3. CASE UNCHANGED <<calls, pending>>
    BY <2>1, <2>2, <2>3
  <2>4. ASSUME NEW c \in pending, NEW how \in Outcomes, Message(how, c) \in Range(responses),
               Settle(c, how)
        PROVE  CancelsOfCall'
    <3>1. entry[c] = "over" /\ tool[c] = "bounded"
      BY <2>4
    <3>2. UNCHANGED <<tool, aborted>> /\ step' = [step EXCEPT ![c] = "over"]
      BY <2>4 DEF Settle
    <3>3. Message("request", c) \notin Range(toMain)
      BY <3>1
    <3>4. QED
      BY <2>1, <2>2, <3>1, <3>2, <3>3
  <2>5. QED
    BY <2>1, <2>3, <2>4
<1>11. ASSUME Shutdown PROVE CancelsOfCall'
  <2> DEFINE now == {d \in Calls : InFlight(d) /\ ~aborted[d]}
  <2>1. PICK s \in Cancels(now \cap pending), t \in Cancels(pending) : toMain' = toMain \o s \o t
    BY <1>11 DEF Shutdown
  <2>2. /\ UNCHANGED <<tool, entry, responses>> /\ Alive
        /\ aborted' = [d \in Calls |-> aborted[d] \/ d \in now]
        /\ step' = [d \in Calls |-> IF d \in pending THEN "over" ELSE step[d]]
    BY <1>11 DEF Shutdown
  <2>3. /\ s \in Seq(Cancellations) /\ t \in Seq(Cancellations)
        /\ \A e \in Range(s) \cup Range(t) : \E d \in pending : e = Message("cancel", d)
        /\ \A d \in pending : Message("cancel", d) \in Range(t)
    BY CancelsOfAll DEF Range
  <2> DEFINE q == toMain \o s
  <2>4. /\ q \in Seq(Messages) /\ Range(q) = Range(toMain) \cup Range(s) /\ OnceOnly(q)
        /\ \A d \in Calls : CancelFollows(toMain, d) => CancelFollows(q, d)
    BY <2>3, PostingCancels
  <2> HIDE DEF q
  <2>5. /\ Range(toMain') = Range(q) \cup Range(t) /\ OnceOnly(toMain')
        /\ \A d \in Calls : CancelFollows(q, d) \/ Message("cancel", d) \in Range(t)
                            => CancelFollows(toMain', d)
    <3>1. toMain' = q \o t
      BY <2>1 DEF q
    <3>2. QED
      BY <2>3, <2>4, <3>1, PostingCancels
  <2>6. \A d \in Calls :
          /\ Message("request", d) \in Range(toMain') => Message("request", d) \in Range(toMain)
          /\ Message("cancel", d) \in Range(toMain') =>
               d \in pending \/ Message("cancel", d) \in Range(toMain)
    BY <2>3, <2>4, <2>5, MessageParts
  <2>7. \A d \in pending : aborted'[d] /\ step[d] = "waiting"
    BY <2>2 DEF InFlight
  <2>8. \A d \in Calls : entry[d] # None \/ Message("request", d) \in Range(toMain) =>
          d \in pending \/ step[d] = "over"
    BY <2>2
  <2>9. QED
    BY <2>2, <2>3, <2>4, <2>5, <2>6, <2>7, <2>8
<1>12. ASSUME Exit PROVE CancelsOfCall'
  BY <1>12 DEF Exit
<1>13. ASSUME Crash PROVE CancelsOfCall'
  BY <1>13 DEF Crash
<1>14. CASE UNCHANGED vars
  BY <1>14 DEF vars
<1> HIDE DEF None, ToolInv, TypeOK, CallTypes, MessageTypes, StepOfTool,
    MessagesOfCall, CancelsOfCall, At, Alive
<1>15. QED
  BY <1>1, <1>2, <1>3, <1>4, <1>5, <1>6, <1>7, <1>8, <1>9, <1>10, <1>11, <1>12, <1>13,
      <1>14 DEF Next, MainStep, BoundedStep
\* The host waits.
LEMMA ExitKept == ToolInv /\ [Next]_vars => ExitOfHost'
<1> SUFFICES ASSUME ToolInv, [Next]_vars PROVE ExitOfHost'
  OBVIOUS
<1> USE FileToolsAssumption DEF None, ToolInv, TypeOK, CallTypes, ExitOfHost, At, Alive
<1>1. ASSUME NEW c \in Calls, Begin(c) PROVE ExitOfHost'
  BY <1>1 DEF Begin
<1>2. ASSUME NEW c \in Calls, Abort(c) PROVE ExitOfHost'
  BY <1>2 DEF Abort, InFlight, Listeners, Terminate
<1>3. ASSUME NEW c \in Calls, Alive, UNCHANGED <<commands, bounded, system>>,
    FileStep(c) PROVE ExitOfHost'
  BY <1>3 DEF FileStep
<1>4. ASSUME NEW c \in Calls, FullStep(c) PROVE ExitOfHost'
  BY <1>4 DEF FullStep
<1>5. ASSUME NEW c \in Calls, UNCHANGED <<calls, files, bounded, system>>, Exits(c)
    PROVE ExitOfHost'
  BY <1>5 DEF Exits
<1>6. ASSUME NEW c \in Calls, MainStep(c) PROVE ExitOfHost'
  BY <1>6 DEF MainStep, MainEnds, MainReceives, MainNotices
<1>7. ASSUME NEW c \in Calls, Alive, UNCHANGED <<files, commands, system>>, Request(c)
    PROVE ExitOfHost'
  <2>1. CASE closed
    BY <1>7, <2>1 DEF Request, Settle
  <2>2. CASE ~closed
    BY <1>7, <2>2 DEF Request, Goto
  <2>3. QED
    BY <2>1, <2>2
<1>8. ASSUME Alive, UNCHANGED <<files, commands, system>>, Respond PROVE ExitOfHost'
  <2>1. CASE UNCHANGED <<calls, pending>>
    BY <1>8, <2>1 DEF Respond
  <2>2. CASE ~UNCHANGED <<calls, pending>>
    <3>1. PICK c \in pending, how \in Outcomes :
            /\ Message(how, c) \in Range(responses)
            /\ pending' = pending \ {c}
            /\ Settle(c, how)
      BY <1>8, <2>2, RespondMoves
    <3>2. QED
      BY <1>8, <3>1 DEF Respond, Settle
  <2>3. QED
    BY <2>1, <2>2
<1>9. ASSUME Shutdown PROVE ExitOfHost'
  BY <1>9 DEF Shutdown, InFlight, Terminate
<1>10. ASSUME Exit PROVE ExitOfHost'
  BY <1>10 DEF Exit
<1>11. ASSUME Crash PROVE ExitOfHost'
  BY <1>11 DEF Crash
<1>12. CASE UNCHANGED vars
  BY <1>12 DEF vars
<1> HIDE DEF None, ToolInv, TypeOK, CallTypes, ExitOfHost, At, Alive
<1>13. QED
  BY <1>1, <1>2, <1>3, <1>4, <1>5, <1>6, <1>7, <1>8, <1>9, <1>10, <1>11, <1>12 DEF
      Next, BoundedStep

------------------------------------------------------------------------------
(* The theorems.                                                           *)

\* ToolInv holds at every moment.
THEOREM ToolInvariance == Spec => []ToolInv
<1>1. Init => ToolInv
  <2> SUFFICES ASSUME Init PROVE ToolInv
    OBVIOUS
  <2> USE FileToolsAssumption DEF Init, FilesInit, None
  <2>1. CallTypes
    BY DEF CallTypes, Outcomes
  <2>2. FileTypes
    BY DEF FileTypes, Contents
  <2>3. CommandTypes
    BY DEF CommandTypes
  <2>4. MessageTypes
    BY DEF MessageTypes
  <2>5. HostTypes
    BY DEF HostTypes
  <2>6. StepOfTool
    BY DEF StepOfTool
  <2>7. WritesOfStep /\ ReadsOfStep
    BY DEF WritesOfStep, ReadsOfStep
  <2>8. CommandOfStep /\ ReportsAreTrue
    BY DEF CommandOfStep, ReportsAreTrue
  <2>9. Range(toMain) = {} /\ Range(responses) = {} /\ OnceOnly(toMain)
    BY DEF Range, OnceOnly
  <2>10. MessagesOfCall /\ CancelsOfCall
    BY <2>9 DEF MessagesOfCall, CancelsOfCall
  <2>11. ExitOfHost
    BY DEF ExitOfHost
  <2>12. QED
    BY <2>1, <2>2, <2>3, <2>4, <2>5, <2>6, <2>7, <2>8, <2>10, <2>11 DEF ToolInv, TypeOK
<1>2. ToolInv /\ [Next]_vars => TypeOK'
  BY CallTypesKept, FileTypesKept, CommandTypesKept, MessageTypesKept, HostTypesKept DEF TypeOK
<1>3. ToolInv /\ [Next]_vars => ToolInv'
  BY <1>2, StepsKept, WritesKept, ReadsKept, CommandsKept, ReportsKept, MessagesKept,
      CancelsKept, ExitKept DEF ToolInv
<1>4. QED
  BY <1>1, <1>3, PTL DEF Spec

\* write_file replaces the file in one piece, and a read that succeeds has read
\* one version of it.
THEOREM FilesStayWhole == Spec => []FilesAreWhole
<1>1. ToolInv => FilesAreWhole
  <2> SUFFICES ASSUME ToolInv PROVE FilesAreWhole
    OBVIOUS
  <2> USE FileToolsAssumption DEF ToolInv
  <2>1. target # None => data[target] = Whole(target)
    BY DEF TypeOK, FileTypes, WritesOfStep
  <2>2. \A c \in Calls : tool[c] = "read" /\ outcome[c] = "ok" => got[c] = Whole(fd[c])
    BY DEF ReadsOfStep
  <2>3. \A c \in Calls : tool[c] = "write" => /\ outcome[c] \in {"cancelled", "error"} => target # c
                                              /\ outcome[c] = "ok" => c \notin temp
    BY DEF WritesOfStep
  <2>4. QED
    BY <2>1, <2>2, <2>3 DEF FilesAreWhole
<1>2. QED
  BY <1>1, ToolInvariance, PTL

\* What a command's call returns is what became of its processes.
THEOREM ReportsStayTrue == Spec => []ReportsAreTrue
<1>1. ToolInv => ReportsAreTrue
  BY DEF ToolInv
<1>2. QED
  BY <1>1, ToolInvariance, PTL

\* No command outlives the host that waited for it unreported, and the main
\* process hears of every command that it should stop.
THEOREM NothingStaysRunning == Spec => []NothingIsLeftRunning
<1>1. ToolInv => NothingIsLeftRunning
  <2> SUFFICES ASSUME ToolInv PROVE NothingIsLeftRunning
    OBVIOUS
  <2>1. ASSUME host = "exited", NEW c \in awaited, "shell" \in group[c] PROVE outcome[c] = "error"
    <3>1. c \in Calls /\ step[c] = "over"
      BY <2>1 DEF ToolInv, TypeOK, HostTypes, ExitOfHost
    <3>2. tool[c] = "full"
      BY <2>1, <3>1 DEF ToolInv, CommandOfStep
    <3>3. outcome[c] \in Outcomes /\ outcome[c] # "ok"
      BY <3>1, <3>2 DEF ToolInv, TypeOK, CallTypes, StepOfTool
    <3>4. outcome[c] \notin {"cancelled", "timed-out", "exited"}
      BY <2>1, <3>1, <3>2 DEF ToolInv, ReportsAreTrue
    <3>5. QED
      BY <3>3, <3>4 DEF Outcomes
  <2>2. QED
    BY <2>1 DEF NothingIsLeftRunning, ToolInv, CancelsOfCall
<1>2. QED
  BY <1>1, ToolInvariance, PTL
==============================================================================
