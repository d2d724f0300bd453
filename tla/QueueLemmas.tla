----------------------------- MODULE QueueLemmas -----------------------------
(***************************************************************************)
(* What a queue holds, element by element, after an element joined it,     *)
(* after its head left and when others stand behind it: the facts about    *)
(* channels and lists of steps that the proofs of several components need. *)
(***************************************************************************)
EXTENDS Integers, Sequences, SequenceTheorems, TLAPS

\* The elements of a sequence that grew by one, and of one that lost its head.
LEMMA AppendElements ==
  ASSUME NEW T, NEW q \in Seq(T), NEW e \in T
  PROVE  /\ Append(q, e) \in Seq(T) /\ Len(Append(q, e)) = Len(q) + 1
         /\ \A j \in DOMAIN Append(q, e) :
              IF j = Len(q) + 1 THEN Append(q, e)[j] = e
                                ELSE j \in DOMAIN q /\ Append(q, e)[j] = q[j]
OBVIOUS

LEMMA SeqElements ==
  ASSUME NEW T, NEW q \in Seq(T)
  PROVE  /\ \A j \in DOMAIN q : q[j] \in T
         /\ q # <<>> <=> \E j \in DOMAIN q : TRUE
<1>1. \A j \in DOMAIN q : q[j] \in T
  OBVIOUS
<1>2. q # <<>> => 1 \in DOMAIN q
  OBVIOUS
<1>3. q = <<>> => DOMAIN q = {}
  OBVIOUS
<1> QED BY <1>1, <1>2, <1>3

LEMMA TailElements ==
  ASSUME NEW T, NEW q \in Seq(T), q # <<>>
  PROVE  /\ Tail(q) \in Seq(T) /\ Head(q) \in T /\ Head(q) = q[1] /\ 1 \in DOMAIN q
         /\ Len(Tail(q)) = Len(q) - 1
         /\ \A j \in DOMAIN Tail(q) : j + 1 \in DOMAIN q /\ Tail(q)[j] = q[j + 1]
OBVIOUS

\* A sequence over a set is one over a larger set.
LEMMA SeqWiden ==
  ASSUME NEW S, NEW T, S \subseteq T, NEW s \in Seq(S)
  PROVE  s \in Seq(T)
<1>1. Len(s) \in Nat /\ s \in [1..Len(s) -> T]
  OBVIOUS
<1> QED BY <1>1

\* The head and the rest of two sequences in a row.
LEMMA ConcatTail ==
  ASSUME NEW S, NEW s \in Seq(S), NEW r \in Seq(S), s # <<>>
  PROVE  /\ s \o r \in Seq(S) /\ s \o r # <<>>
         /\ Head(s \o r) = Head(s)
         /\ Tail(s \o r) = Tail(s) \o r
<1>1. /\ s \o r \in Seq(S) /\ Len(s \o r) = Len(s) + Len(r)
      /\ Len(s) \in Nat /\ Len(r) \in Nat /\ Len(s) > 0
  OBVIOUS
<1>2. s \o r # <<>> /\ Head(s \o r) = Head(s)
  BY <1>1
<1>3. Tail(s \o r) = Tail(s) \o r
  <2>1. /\ Tail(s \o r) \in Seq(S) /\ Len(Tail(s \o r)) = Len(s) + Len(r) - 1
        /\ \A i \in 1..(Len(s) + Len(r) - 1) : Tail(s \o r)[i] = (s \o r)[i + 1]
    BY <1>1, <1>2
  <2>2. /\ Tail(s) \in Seq(S) /\ Len(Tail(s)) = Len(s) - 1
        /\ \A i \in 1..(Len(s) - 1) : Tail(s)[i] = s[i + 1]
    BY <1>1
  <2>3. Tail(s) \o r \in Seq(S) /\ Len(Tail(s) \o r) = Len(s) + Len(r) - 1
    BY <1>1, <2>2
  <2>4. ASSUME NEW i \in 1..(Len(s) + Len(r) - 1)
        PROVE  Tail(s \o r)[i] = (Tail(s) \o r)[i]
    <3>1. (s \o r)[i + 1] = IF i + 1 <= Len(s) THEN s[i + 1] ELSE r[i + 1 - Len(s)]
      BY <1>1
    <3>2. (Tail(s) \o r)[i] = IF i <= Len(s) - 1 THEN Tail(s)[i] ELSE r[i - (Len(s) - 1)]
      BY <1>1, <2>2
    <3>3. i - (Len(s) - 1) = i + 1 - Len(s) /\ (i + 1 <= Len(s) <=> i <= Len(s) - 1)
      BY <1>1
    <3>4. Tail(s \o r)[i] = (s \o r)[i + 1] /\ (i <= Len(s) - 1 => Tail(s)[i] = s[i + 1])
      BY <1>1, <2>1, <2>2
    <3> QED BY <3>1, <3>2, <3>3, <3>4
  <2> QED BY <2>1, <2>3, <2>4, SeqEqual
<1> QED BY <1>1, <1>2, <1>3

=============================================================================
