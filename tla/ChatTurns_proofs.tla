-------------------------- MODULE ChatTurns_proofs --------------------------
(***************************************************************************)
(* The turns of a conversation, for any number of views, jobs, uploads,     *)
(* reloads and failures.  That one request runs at a time rests on the      *)
(* lock alone: every turn takes it where it is free, keeps it across its    *)
(* awaits and gives it back when it ends, and a reload, which frees the     *)
(* lock, loses the turn as well.  A deletion may free the lock under a      *)
(* turn, but a deleted conversation is on display nowhere and its queue     *)
(* tells nothing, so no second one begins.                                  *)
(***************************************************************************)
EXTENDS MCChatTurns, Integers, FiniteSetTheorems, TLAPS

-----------------------------------------------------------------------------
(* Compact: plain messages but the last one are left out.                   *)

(* Induction over the naturals, as the existence of a least counterexample. *)
LEMMA LessIsWellFounded == IsWellFoundedOn({p \in Nat \X Nat : p[1] < p[2]}, Nat)
  <1>1. OpToRel(<, Nat) = {p \in Nat \X Nat : p[1] < p[2]}
    BY Zenon DEF OpToRel
  <1> QED
    BY <1>1, NatLessThanWellFounded, Zenon

LEMMA Least == ASSUME NEW T \in SUBSET Nat, T # {} PROVE \E m \in T : \A n \in T : m <= n
  <1> DEFINE R == {p \in Nat \X Nat : p[1] < p[2]}
  <1>1. \E x \in T : \A y \in T : ~ (<<y, x>> \in R)
    BY LessIsWellFounded, WFMin, Zenon
  <1>2. PICK m \in T : \A y \in T : ~ (<<y, m>> \in R)
    BY <1>1
  <1>3. ASSUME NEW n \in T PROVE m <= n
    <2>1. m \in Nat /\ n \in Nat
      OBVIOUS
    <2>2. <<n, m>> \in Nat \X Nat /\ <<n, m>>[1] = n /\ <<n, m>>[2] = m
      BY <2>1
    <2>3. ~ (n < m)
      BY <1>2, <2>2
    <2> QED
      BY <2>1, <2>3
  <1> QED
    BY <1>3

(* The recursion of Kept defines a function: one that obeys it exists on     *)
(* each initial segment.                                                    *)
LEMMA KeptExists ==
  ASSUME NEW M, NEW s \in Seq(M)
  PROVE  \A n \in 0 .. Len(s) : \E f : f = [k \in 0 .. n |-> IF k = 0 THEN <<>>
        ELSE IF IsPlain(s[k]) /\ k < Len(s) THEN f[k - 1] ELSE Append(f[k - 1], s[k])]
  <1> DEFINE Body(f, k) == IF k = 0 THEN <<>>
        ELSE IF IsPlain(s[k]) /\ k < Len(s) THEN f[k - 1] ELSE Append(f[k - 1], s[k])
      Ok(n) == \E f : f = [k \in 0 .. n |-> Body(f, k)]
      Bad == {n \in 0 .. Len(s) : ~Ok(n)}
  <1>1. SUFFICES ASSUME Bad # {} PROVE FALSE
    OBVIOUS
  <1>2. PICK m \in Bad : \A n \in Bad : m <= n
    <2>1. Bad \in SUBSET Nat
      OBVIOUS
    <2> HIDE DEF Bad
    <2> QED
    BY <1>1, <2>1, Least
  <1>3. Ok(0)
    <2> DEFINE g == [k \in 0..0 |-> <<>>]
    <2>1. g = [k \in 0 .. 0 |-> Body(g, k)]
      OBVIOUS
    <2> QED
     BY <2>1
  <1>4. m # 0 /\ m-1 \in 0..Len(s) /\ m - 1 \notin Bad
    <2> HIDE DEF Ok
    <2> QED
    BY <1>2, <1>3
  <1>5. PICK f : f = [k \in 0 .. m-1 |-> Body(f, k)]
    BY <1>4
  <1>6. Ok(m)
    <2> DEFINE g == [k \in 0..m |-> IF k = m THEN Body(f, m) ELSE f[k]]
    <2>1. ASSUME NEW k \in 0..m PROVE g[k] = Body(g, k)
      <3>1. CASE k = 0
        BY <3>1, <1>4, <1>5, 0 \in 0..m-1
      <3>2. CASE k # 0
        <4>1. k-1 \in 0..m-1 /\ g[k-1] = f[k-1]
          BY <3>2
        <4>2. Body(g, k) = Body(f, k)
          BY <4>1, <3>2
        <4>3. CASE k = m
          BY <4>2, <4>3
        <4>4. CASE k # m
          <5>1. k \in 0..m-1
             BY <4>4
          <5>2. f[k] = Body(f, k)
             BY <5>1, <1>5
          <5> HIDE DEF Body
          <5> QED BY <4>4, <4>2, <5>2
        <4> QED BY <4>3, <4>4
      <3> QED BY <3>1, <3>2
    <2>2. g = [k \in 0..m |-> Body(g, k)]
      BY <2>1
    <2> QED BY <2>2
  <1> QED
    BY <1>2, <1>6

LEMMA KeptDef ==
  ASSUME NEW M, NEW s \in Seq(M)
  PROVE  Kept(s) = [n \in 0 .. Len(s) |-> IF n = 0 THEN <<>>
        ELSE IF IsPlain(s[n]) /\ n < Len(s) THEN Kept(s)[n - 1] ELSE Append(Kept(s)[n - 1], s[n])]
  <1>1. Len(s) \in 0..Len(s)
    OBVIOUS
  <1> QED
  BY <1>1, KeptExists, Zenon DEF Kept

(* Compact(s) is embedded in s by a growing map of positions that hits just *)
(* what is kept, and is the identity up to the first message that is not.   *)
Keeps(s, k) == ~IsPlain(s[k]) \/ k = Len(s)

Embedded(c, s, n, g) ==
  /\ Len(c) <= n
  /\ g \in [1 .. Len(c) -> 1 .. n]
  /\ \A i, k \in 1 .. Len(c) : i < k => g[i] < g[k]
  /\ \A i \in 1 .. Len(c) : c[i] = s[g[i]] /\ Keeps(s, g[i])
  /\ \A k \in 1 .. n : Keeps(s, k) => \E i \in 1 .. Len(c) : g[i] = k
  /\ \A k \in 1 .. n : (\A i \in 1 .. k : Keeps(s, i)) => k <= Len(c) /\ g[k] = k

LEMMA KeptStep ==
  ASSUME NEW M, NEW s \in Seq(M)
  PROVE  /\ Kept(s)[0] = <<>>
         /\ \A n \in 1 .. Len(s) :
              Kept(s)[n] = IF Keeps(s, n) THEN Append(Kept(s)[n - 1], s[n]) ELSE Kept(s)[n - 1]
  <1>1. 0 \in 0 .. Len(s) /\ Kept(s)[0] = <<>>
    BY KeptDef
  <1>2. ASSUME NEW n \in 1 .. Len(s)
        PROVE  Kept(s)[n] = IF Keeps(s, n) THEN Append(Kept(s)[n - 1], s[n]) ELSE Kept(s)[n - 1]
    <2>1. n \in 0 .. Len(s) /\ n # 0 /\ (n < Len(s) <=> n # Len(s))
      OBVIOUS
    <2>2. Kept(s)[n] = IF IsPlain(s[n]) /\ n < Len(s) THEN Kept(s)[n - 1]
                       ELSE Append(Kept(s)[n - 1], s[n])
      BY <2>1, KeptDef
    <2> QED
      BY <2>1, <2>2 DEF Keeps
  <1> QED
    BY <1>1, <1>2

LEMMA AppendEmbeds ==
  ASSUME NEW M, NEW s \in Seq(M), NEW n \in 1 .. Len(s), NEW c \in Seq(M), NEW g,
         Embedded(c, s, n - 1, g), Keeps(s, n)
  PROVE  \E h : Embedded(Append(c, s[n]), s, n, h)
  <1> DEFINE d == Append(c, s[n])
             h == [i \in 1 .. Len(d) |-> IF i = Len(d) THEN n ELSE g[i]]
  <1>1. /\ d \in Seq(M) /\ Len(d) = Len(c) + 1 /\ d[Len(d)] = s[n] /\ Len(c) \in Nat
        /\ \A i \in 1 .. Len(c) : d[i] = c[i]
    OBVIOUS
  <1> HIDE DEF d
  <1>2. /\ h \in [1 .. Len(d) -> 1 .. n]
        /\ \A i \in 1 .. Len(c) : h[i] = g[i] /\ g[i] \in 1 .. n - 1
        /\ h[Len(d)] = n /\ Len(d) \in 1 .. Len(d) /\ n \in 1 .. n
    BY <1>1 DEF Embedded
  <1> HIDE DEF h
  <1>3. Len(d) <= n
    BY <1>1 DEF Embedded
  <1>4. ASSUME NEW i \in 1 .. Len(d), NEW k \in 1 .. Len(d), i < k PROVE h[i] < h[k]
    <2>1. i \in 1 .. Len(c) /\ (k \in 1 .. Len(c) \/ k = Len(d))
      BY <1>1, <1>4
    <2>2. CASE k = Len(d)
      BY <1>2, <2>1, <2>2
    <2>3. CASE k \in 1 .. Len(c)
      <3>1. g[i] < g[k]
        BY <1>4, <2>1, <2>3 DEF Embedded
      <3> QED
        BY <1>2, <2>1, <2>3, <3>1
    <2> QED
      BY <2>1, <2>2, <2>3
  <1>5. \A i \in 1 .. Len(d) : d[i] = s[h[i]] /\ Keeps(s, h[i])
    <2> TAKE i \in 1 .. Len(d)
    <2>1. CASE i = Len(d)
      BY <1>1, <1>2, <2>1
    <2>2. CASE i # Len(d)
      BY <1>1, <1>2, <2>2 DEF Embedded
    <2> QED
      BY <2>1, <2>2
  <1>6. ASSUME NEW k \in 1 .. n, Keeps(s, k) PROVE \E i \in 1 .. Len(d) : h[i] = k
    <2>1. CASE k = n
      BY <1>2, <2>1
    <2>2. CASE k # n
      <3>1. PICK i \in 1 .. Len(c) : g[i] = k
        BY <1>6, <2>2 DEF Embedded
      <3> QED
        BY <1>1, <1>2, <3>1
    <2> QED
      BY <2>1, <2>2
  <1>7. ASSUME NEW k \in 1 .. n, \A i \in 1 .. k : Keeps(s, i)
        PROVE  k <= Len(d) /\ h[k] = k
    <2>1. CASE k < n
      <3>1. k \in 1 .. n - 1
        BY <2>1
      <3>2. k <= Len(c) /\ g[k] = k
        BY <1>7, <3>1 DEF Embedded
      <3> QED
        BY <1>1, <1>2, <3>1, <3>2
    <2>2. CASE k = n
      <3>1. n = 1 \/ n - 1 <= Len(c)
        <4>1. n # 1 => n - 1 \in 1 .. n - 1 /\ \A i \in 1 .. n - 1 : Keeps(s, i)
          BY <1>7, <2>2
        <4> QED
          BY <4>1 DEF Embedded
      <3> QED
        BY <1>1, <1>2, <1>3, <2>2, <3>1
    <2> QED
      BY <2>1, <2>2
  <1> QED
    BY <1>2, <1>3, <1>4, <1>5, <1>6, <1>7 DEF Embedded, d

LEMMA CompactEmbeds ==
  ASSUME NEW M, NEW s \in Seq(M)
  PROVE  Compact(s) \in Seq(M) /\ \E g : Embedded(Compact(s), s, Len(s), g)
  <1> DEFINE Ok(n) == Kept(s)[n] \in Seq(M) /\ \E g : Embedded(Kept(s)[n], s, n, g)
             Bad   == {n \in 0 .. Len(s) : ~Ok(n)}
  <1>1. SUFFICES ASSUME Bad # {} PROVE FALSE
    <2>1. Len(s) \in 0 .. Len(s)
      OBVIOUS
    <2> QED
      BY <1>1, <2>1 DEF Compact
  <1>2. PICK n \in Bad : \A m \in Bad : n <= m
    <2>1. Bad \in SUBSET Nat
      OBVIOUS
    <2> HIDE DEF Bad
    <2> QED
      BY <1>1, <2>1, Least
  <1>3. Ok(0)
    <2>1. Kept(s)[0] = <<>>
      BY KeptStep
    <2>2. Embedded(<<>>, s, 0, <<>>)
      BY DEF Embedded
    <2> QED
      BY <2>1, <2>2
  <1>4. n \in 1 .. Len(s) /\ Ok(n - 1)
    <2> HIDE DEF Ok
    <2> QED
      BY <1>2, <1>3
  <1>5. PICK g : Embedded(Kept(s)[n - 1], s, n - 1, g)
    BY <1>4
  <1>6. CASE ~Keeps(s, n)
    <2>1. Kept(s)[n] = Kept(s)[n - 1]
      BY <1>4, <1>6, KeptStep
    <2>2. Len(Kept(s)[n - 1]) \in Nat
      BY <1>4
    <2>3. Embedded(Kept(s)[n - 1], s, n, g)
      BY <1>4, <1>5, <1>6, <2>2 DEF Embedded
    <2> QED
      BY <1>2, <1>4, <2>1, <2>3
  <1>7. CASE Keeps(s, n)
    <2>1. Kept(s)[n] = Append(Kept(s)[n - 1], s[n])
      BY <1>4, <1>7, KeptStep
    <2>2. Kept(s)[n] \in Seq(M)
      BY <1>4, <2>1
    <2>3. \E h : Embedded(Kept(s)[n], s, n, h)
      BY <1>4, <1>5, <1>7, <2>1, AppendEmbeds
    <2> QED
      BY <1>2, <2>2, <2>3
  <1> QED
    BY <1>6, <1>7

-----------------------------------------------------------------------------
(* Type correctness.                                                        *)

What        == Jobs \union Refs \union {None}
MessageType == [kind : {"plain", "card", "hole"}, of : {<<>>} \union (Kinds \X Views \X What)]
TurnType    == [kind : Kinds, view : Views, what : What, at : Nat, heard : BOOLEAN]
SpentType   == [faults : Nat, reloads : Nat, cards : Nat, submits : Nat, cut : Nat,
                refs : SUBSET Refs]

Typed == /\ messages \in Seq(MessageType)
         /\ turns \in SUBSET TurnType
         /\ told \in [Jobs -> Nat] /\ spent \in SpentType
         /\ view \in Views /\ (~shown /\ ~gone => view < MaxMounts)
         /\ pending \in Seq(Refs) /\ queue \in [Views -> Seq(Jobs)]

(* The lock is held by the only turn there is.                              *)
LockInv == /\ lock \in BOOLEAN
           /\ lock => turns # {}
           /\ turns # {} => lock \/ gone
           /\ gone => ~shown
           /\ \A t, u \in turns : t = u

(* Submissions under way, those of which the server has heard and the others. *)
Arrived    == IF \E t \in turns : t.kind = "confirm" /\ t.heard THEN 1 ELSE 0
Submitting == IF \E t \in turns : t.kind = "confirm" /\ ~t.heard THEN 1 ELSE 0

LEMMA ReplyingCounts == ASSUME LockInv PROVE Cardinality(Replying) = Arrived
  <1>1. CASE Replying = {}
    BY <1>1, FS_EmptySet DEF Arrived, Replying
  <1>2. CASE Replying # {}
    <2>1. PICK t \in Replying : Replying = {t}
      <3>1. PICK t \in Replying : TRUE
        BY <1>2
      <3>2. \A u \in Replying : u = t
        BY <3>1 DEF LockInv, Replying
      <3> QED
        BY <3>1, <3>2
    <2>2. Cardinality(Replying) = 1
      BY <2>1, FS_Singleton
    <2>3. Arrived = 1
      BY <2>1 DEF Replying, Arrived
    <2> QED
      BY <2>2, <2>3
  <1> QED
    BY <1>1, <1>2

LEMMA MessagesTyped ==
    /\ Plain \in MessageType /\ Card \in MessageType /\ Orphan \in MessageType
    /\ \A t \in TurnType : Hole(t) \in MessageType
  BY DEF Plain, Card, Orphan, Hole, Message, MessageType, TurnType, What

LEMMA NewTurnTyped ==
    ASSUME NEW kind \in Kinds, NEW v \in Views, NEW what \in What, NEW at \in Nat
    PROVE  /\ NewTurn(kind, v, what, at) \in TurnType
           /\ NewTurn(kind, v, what, at).kind = kind
           /\ NewTurn(kind, v, what, at).what = what
           /\ NewTurn(kind, v, what, at).at = at
           /\ NewTurn(kind, v, what, at).heard = FALSE
  BY DEF NewTurn, TurnType

(* A list changed in place is a list of the same length.                    *)
LEMMA InPlace ==
    ASSUME NEW M, NEW s \in Seq(M), NEW f, DOMAIN f = DOMAIN s,
           f = [i \in DOMAIN f |-> f[i]], \A i \in DOMAIN s : f[i] \in M
    PROVE  f \in Seq(M) /\ Len(f) = Len(s)
  <1>1. DOMAIN s = 1 .. Len(s) /\ Len(s) \in Nat
    OBVIOUS
  <1>2. f \in [1 .. Len(s) -> M]
    BY <1>1
  <1> QED
    BY <1>1, <1>2

LEMMA AddedTyped ==
    ASSUME NEW s \in Seq(MessageType), NEW m \in MessageType
    PROVE  Added(s, m) \in Seq(MessageType)
  <1>1. Append(s, m) \in Seq(MessageType)
    OBVIOUS
  <1> QED
    BY <1>1, CompactEmbeds DEF Added

LEMMA FilledTyped ==
    ASSUME Typed, NEW t, NEW m \in MessageType
    PROVE  Filled(t, m) \in Seq(MessageType)
  <1> DEFINE f == [i \in DOMAIN messages |-> IF messages[i] = Hole(t) THEN m ELSE messages[i]]
  <1>1. \A i \in DOMAIN messages : f[i] \in MessageType
    BY DEF Typed
  <1>2. f \in Seq(MessageType)
    BY <1>1, InPlace DEF Typed
  <1> QED
    BY <1>2, CompactEmbeds DEF Filled

LEMMA NoCardsTyped ==
    ASSUME NEW s \in Seq(MessageType)
    PROVE  NoCards(s) \in Seq(MessageType)
  <1> DEFINE f == [i \in DOMAIN s |-> IF s[i].kind = "card" THEN Plain ELSE s[i]]
  <1>1. \A i \in DOMAIN s : f[i] \in MessageType
    BY MessagesTyped
  <1>2. f \in Seq(MessageType)
    BY <1>1, InPlace
  <1> QED
    BY <1>2, CompactEmbeds DEF NoCards

LEMMA WithoutCardTyped ==
    ASSUME Typed, NEW at
    PROVE  WithoutCard(at) \in Seq(MessageType)
  <1> DEFINE f == [i \in DOMAIN messages |-> IF i = at THEN Plain ELSE messages[i]]
  <1>1. \A i \in DOMAIN messages : f[i] \in MessageType
    BY MessagesTyped DEF Typed
  <1>2. f \in Seq(MessageType)
    BY <1>1, InPlace DEF Typed
  <1> QED
    BY <1>2, CompactEmbeds DEF WithoutCard

LEMMA ReconciledTyped ==
    ASSUME NEW s \in Seq(MessageType), NEW locked
    PROVE  Reconciled(s, locked) \in Seq(MessageType)
  <1>1. s # <<>> => [s EXCEPT ![Len(s)] = Plain] \in Seq(MessageType)
    BY MessagesTyped
  <1> QED
    BY <1>1, CompactEmbeds DEF Reconciled

LEMMA AbandonedTyped ==
    ASSUME NEW s \in Seq(MessageType)
    PROVE  Abandoned(s) \in Seq(MessageType) /\ Len(Abandoned(s)) = Len(s)
  <1>1. \A i \in DOMAIN s : Abandoned(s)[i] \in MessageType
    BY MessagesTyped DEF Abandoned
  <1>2. DOMAIN Abandoned(s) = DOMAIN s /\ Abandoned(s) = [i \in DOMAIN Abandoned(s) |-> Abandoned(s)[i]]
    BY DEF Abandoned
  <1> QED
    BY <1>1, <1>2, InPlace

LEMMA AnswersTyped ==
    ASSUME Typed, NEW m \in Answers
    PROVE  m \in MessageType /\ CardSpent(m) \in SpentType
  <1>1. m = Plain \/ m = Card
    BY DEF Answers
  <1>2. spent \in SpentType
    BY DEF Typed
  <1>3. (IF m = Card THEN spent.cards + 1 ELSE spent.cards) \in Nat
    BY <1>2 DEF SpentType
  <1> QED
    BY <1>1, <1>2, <1>3, MessagesTyped DEF CardSpent, SpentType

LEMMA CutTyped ==
    ASSUME NEW s \in SpentType, NEW n \in Nat, NEW m \in Nat
    PROVE  /\ [s EXCEPT !.faults = n, !.cut = m] \in SpentType
           /\ [s EXCEPT !.reloads = n, !.cut = m] \in SpentType
  BY DEF SpentType

LEMMA FaultTyped == ASSUME Typed, Fault PROVE spent' \in SpentType
  <1>1. spent \in SpentType
    BY DEF Typed
  <1> QED
    BY <1>1 DEF Fault, SpentType

(* A nonempty set of positions has a last one.                              *)
LEMMA LastPosition ==
    ASSUME NEW n \in Nat, NEW S \in SUBSET (1 .. n), S # {}
    PROVE  \E i \in S : \A k \in S : k <= i
  <1> DEFINE T == {n - i : i \in S}
  <1>1. T \in SUBSET Nat /\ T # {}
    <2>1. \A i \in S : i \in Nat /\ i <= n
      OBVIOUS
    <2>2. \A i \in S : n - i \in Nat
      BY <2>1
    <2> QED
      BY <2>2
  <1>2. PICK m \in T : \A k \in T : m <= k
    BY <1>1, Least, Zenon
  <1>3. PICK i \in S : m = n - i
    BY <1>2
  <1>4. \A k \in S : n - k \in T
    OBVIOUS
  <1> HIDE DEF T
  <1>5. \A k \in S : n - i <= n - k
    BY <1>2, <1>3, <1>4
  <1> QED
    BY <1>5

LEMMA LastCardIsACard ==
    ASSUME Typed, CardsAt # {} PROVE LastCard \in CardsAt /\ LastCard \in Nat
  <1>1. CardsAt \in SUBSET (1 .. Len(messages)) /\ Len(messages) \in Nat
    BY DEF Typed, CardsAt
  <1>2. \E i \in CardsAt : \A k \in CardsAt : k <= i
    BY <1>1, LastPosition
  <1>3. LastCard \in CardsAt
    BY <1>2 DEF LastCard
  <1> QED
    BY <1>1, <1>3

LEMMA BeginTyped ==
    ASSUME Typed, NEW t \in TurnType, Begin(t)
    PROVE  messages' \in Seq(MessageType) /\ turns' \in SUBSET TurnType
  <1> DEFINE s == IF Tail_("card") THEN NoCards(messages) ELSE messages
  <1>1. s \in Seq(MessageType)
    BY NoCardsTyped DEF Typed
  <1>2. messages' = Added(Added(s, Plain), Hole(t)) /\ turns' = turns \union {t}
    BY DEF Begin
  <1> HIDE DEF s
  <1>3. Added(s, Plain) \in Seq(MessageType)
    BY <1>1, AddedTyped, MessagesTyped
  <1>4. messages' \in Seq(MessageType)
    BY <1>2, <1>3, AddedTyped, MessagesTyped
  <1> QED
    BY <1>2, <1>4 DEF Typed

LEMMA TurnTyped ==
    ASSUME Typed, NEW t \in turns, TurnStep(t) PROVE Typed'
  <1> USE DEF store, mount, own, world
  <1>0. /\ t \in TurnType /\ [t EXCEPT !.heard = TRUE] \in TurnType
        /\ turns \in SUBSET TurnType
    BY DEF Typed, TurnType
  <1>1. CASE Heard(t)
    <2>1. turns' \in SUBSET TurnType
      BY <1>0, <1>1 DEF Heard
    <2>2. told' \in [Jobs -> Nat]
      <3>1. told \in [Jobs -> Nat]
        BY DEF Typed
      <3>2. CASE told' = told
        BY <3>1, <3>2
      <3>3. CASE told' = [told EXCEPT ![t.what] = @ + 1]
        <4>1. \A j \in Jobs : told[j] + 1 \in Nat
          BY <3>1
        <4>2. told' = [j \in Jobs |-> IF j = t.what THEN told[j] + 1 ELSE told[j]]
          BY <3>1, <3>3
        <4> QED
          BY <3>1, <4>1, <4>2
      <3> QED
        BY <1>1, <3>2, <3>3 DEF Heard
    <2> QED
      BY <1>1, <2>1, <2>2 DEF Heard, Typed
  <1>2. CASE Answered(t)
    <2>1. messages' \in Seq(MessageType) /\ spent' \in SpentType
      BY <1>2, FilledTyped, AnswersTyped, MessagesTyped DEF Answered, Typed
    <2> QED
      BY <1>0, <1>2, <2>1 DEF Answered, Ends, Typed
  <1>3. CASE SendFails(t)
    <2>1. messages' \in Seq(MessageType) /\ spent' \in SpentType
      BY <1>3, FilledTyped, FaultTyped, MessagesTyped DEF SendFails
    <2> QED
      BY <1>0, <1>3, <2>1 DEF SendFails, Ends, Typed
  <1>4. CASE Created(t)
    <2>1. spent' \in SpentType
      <3>1. spent \in SpentType /\ spent' = [spent EXCEPT !.submits = @ + 1]
        BY <1>4 DEF Created, Typed
      <3> QED
        BY <3>1 DEF SpentType
    <2>2. turns' \in SUBSET TurnType
      <3>1. PICK j \in Jobs : turns' = (turns \ {t}) \union {[t EXCEPT !.heard = TRUE, !.what = j]}
        BY <1>4 DEF Created
      <3>2. [t EXCEPT !.heard = TRUE, !.what = j] \in TurnType
        BY <1>0 DEF TurnType, What
      <3> QED
        BY <1>0, <3>1, <3>2
    <2> QED
      BY <1>4, <2>1, <2>2 DEF Created, Typed
  <1>5. CASE Submitted(t)
    <2>1. messages' \in Seq(MessageType)
      BY <1>5, WithoutCardTyped DEF Submitted
    <2> QED
      BY <1>0, <1>5, <2>1 DEF Submitted, Ends, Typed
  <1>6. CASE ConfirmFails(t)
    <2>1. spent' \in SpentType
      <3>1. CASE Fault \/ UNCHANGED spent
        BY <3>1, FaultTyped DEF Typed
      <3>2. CASE spent' = [spent EXCEPT !.faults = @ + 1, !.cut = @ + 1]
        <4>1. spent \in SpentType
          BY DEF Typed
        <4>2. spent.faults + 1 \in Nat /\ spent.cut + 1 \in Nat
          BY <4>1 DEF SpentType
        <4> QED
          BY <3>2, <4>1, <4>2, CutTyped
      <3> QED
        BY <1>6, <3>1, <3>2 DEF ConfirmFails
    <2> QED
      BY <1>0, <1>6, <2>1 DEF ConfirmFails, Ends, Typed
  <1>7. CASE Continued(t)
    <2>1. messages' \in Seq(MessageType) /\ spent' \in SpentType
      BY <1>7, FilledTyped, AnswersTyped DEF Continued
    <2> QED
      BY <1>0, <1>7, <2>1 DEF Continued, Ends, Typed
  <1>8. CASE NotifyFails(t)
    <2>1. messages' \in Seq(MessageType) /\ spent' \in SpentType
      BY <1>8, FilledTyped, FaultTyped, MessagesTyped DEF NotifyFails
    <2> QED
      BY <1>0, <1>8, <2>1 DEF NotifyFails, Ends, Typed
  <1> QED
    BY <1>1, <1>2, <1>3, <1>4, <1>5, <1>6, <1>7, <1>8 DEF TurnStep

LEMMA QueueTyped ==
    ASSUME Typed, NEW v \in Views, QueueStep(v) PROVE Typed'
  <1> USE DEF store, mount, own, world
  <1>1. queue \in [Views -> Seq(Jobs)]
    BY DEF Typed
  <1>2. CASE QueueSkips(v) \/ QueueTrips(v)
    <2>1. queue' \in [Views -> Seq(Jobs)]
      <3>1. queue[v] \in Seq(Jobs) /\ queue[v] # <<>>
        BY <1>1, <1>2 DEF QueueSkips, QueueTrips, QueueHead
      <3>2. Tail(queue[v]) \in Seq(Jobs) /\ <<>> \in Seq(Jobs)
        BY <3>1
      <3>3. CASE queue' = [queue EXCEPT ![v] = Tail(queue[v])]
        BY <1>1, <3>2, <3>3
      <3>4. CASE queue' = [queue EXCEPT ![v] = <<>>]
        BY <1>1, <3>2, <3>4
      <3> QED
        BY <1>2, <3>3, <3>4 DEF QueueSkips, QueueTrips, Popped
    <2> QED
      BY <1>2, <2>1 DEF QueueSkips, QueueTrips, Typed
  <1>3. CASE Notify(v)
    <2> DEFINE t == NewTurn("notify", v, Head(queue[v]), 0)
    <2>1. queue' \in [Views -> Seq(Jobs)] /\ Head(queue[v]) \in Jobs
      BY <1>1, <1>3 DEF Notify, QueueHead, Popped
    <2>2. t \in TurnType
      BY <2>1, NewTurnTyped DEF Kinds, What
    <2>3. messages' = Added(messages, Hole(t)) /\ turns' = turns \union {t}
      BY <1>3 DEF Notify
    <2> HIDE DEF t
    <2>4. messages' \in Seq(MessageType) /\ turns' \in SUBSET TurnType
      BY <2>2, <2>3, AddedTyped, MessagesTyped DEF Typed
    <2> QED
      BY <1>3, <2>1, <2>4 DEF Notify, Typed
  <1> QED
    BY <1>2, <1>3 DEF QueueStep

LEMMA ViewTyped ==
    ASSUME LockInv, Typed, Leave \/ Enter \/ Delete \/ Reload PROVE Typed'
  <1> USE DEF store, mount, own, world
  <1>1. CASE Leave
    BY <1>1 DEF Leave, Typed
  <1>2. CASE Enter
    <2>1. messages' \in Seq(MessageType)
      BY <1>2, ReconciledTyped DEF Enter, Typed
    <2>2. view' \in Views
      BY <1>2, ChatBounds DEF Enter, Typed, Views
    <2> QED
      BY <1>2, <2>1, <2>2 DEF Enter, Typed
  <1>3. CASE Delete
    <2>1. messages' \in Seq(MessageType)
      BY <1>3 DEF Delete
    <2>2. pending' \in Seq(Refs)
      <3>1. CASE pending' = <<>>
        BY <3>1
      <3>2. CASE pending' = pending
        BY <3>2 DEF Typed
      <3> QED
        BY <1>3, <3>1, <3>2 DEF Delete, DropAll, KeepAll
    <2>3. gone' = TRUE
      BY <1>3 DEF Delete
    <2> QED
      BY <1>3, <2>1, <2>2, <2>3 DEF Delete, Typed
  <1>4. CASE Reload
    <2>1. messages' \in Seq(MessageType)
      BY <1>4, ReconciledTyped, AbandonedTyped DEF Reload, Typed
    <2>2. view' \in Views
      BY <1>4, ChatBounds DEF Reload, Typed, Views
    <2>3. spent' \in SpentType
      <3>1. /\ spent \in SpentType
            /\ spent' = [spent EXCEPT !.reloads = @ + 1, !.cut = @ + Cardinality(Replying)]
        BY <1>4 DEF Reload, Typed
      <3>2. Cardinality(Replying) \in Nat
        BY ReplyingCounts DEF Arrived
      <3>3. spent.reloads + 1 \in Nat /\ spent.cut + Cardinality(Replying) \in Nat
        BY <3>1, <3>2 DEF SpentType
      <3> QED
        BY <3>1, <3>3, CutTyped
    <2>4. ~shown' => gone'
      BY <1>4 DEF Reload
    <2>5. pending' \in Seq(Refs) /\ queue' \in [Views -> Seq(Jobs)] /\ turns' \in SUBSET TurnType
      BY <1>4 DEF Reload
    <2>6. told' \in [Jobs -> Nat]
      BY <1>4 DEF Reload, Typed
    <2> QED
      BY <2>1, <2>2, <2>3, <2>4, <2>5, <2>6 DEF Typed
  <1> QED
    BY <1>1, <1>2, <1>3, <1>4

LEMMA StepTyped == LockInv /\ Typed /\ [Next]_vars => Typed'
  <1> SUFFICES ASSUME LockInv, Typed, [Next]_vars PROVE Typed'
    OBVIOUS
  <1> USE DEF store, mount, own, world
  <1>1. CASE Send
    <2>1. NewTurn("send", view, None, 0) \in TurnType
      BY NewTurnTyped DEF Typed, Kinds, What
    <2> QED
      BY <1>1, <2>1, BeginTyped DEF Send, Typed
  <1>2. CASE Drain
    <2>1. Head(pending) \in Refs
      BY <1>2 DEF Drain, Typed
    <2>2. NewTurn("reference", view, Head(pending), 0) \in TurnType
      BY <2>1, NewTurnTyped DEF Typed, Kinds, What
    <2>3. messages' \in Seq(MessageType) /\ turns' \in SUBSET TurnType
      BY <1>2, <2>2, BeginTyped DEF Drain
    <2> QED
      BY <1>2, <2>3 DEF Drain, Typed
  <1>3. CASE Confirm
    <2>1. NewTurn("confirm", view, None, LastCard) \in TurnType
      BY <1>3, NewTurnTyped, LastCardIsACard DEF Confirm, Typed, Kinds, What
    <2> QED
      BY <1>3, <2>1 DEF Confirm, Typed
  <1>4. CASE Reject
    BY <1>4, NoCardsTyped DEF Reject, Typed
  <1>5. CASE PollStart \/ Unlock \/ NoticeEnds
    BY <1>5 DEF PollStart, Unlock, NoticeEnds, Typed
  <1>6. CASE PollEnds
    <2>1. messages' \in Seq(MessageType) /\ spent' \in SpentType
      BY <1>6, AddedTyped, AnswersTyped DEF PollEnds, Typed
    <2> QED
      BY <1>6, <2>1 DEF PollEnds, Typed
  <1>7. CASE Leave \/ Enter \/ Delete \/ Reload
    BY <1>7, ViewTyped
  <1>8. ASSUME NEW r \in Refs, Enqueue(r) PROVE Typed'
    <2>1. spent' \in SpentType
      BY <1>8 DEF Enqueue, Typed, SpentType
    <2>2. pending' \in Seq(Refs)
      BY <1>8 DEF Enqueue, Typed
    <2> QED
      BY <1>8, <2>1, <2>2 DEF Enqueue, Typed
  <1>9. ASSUME NEW v \in Views, Shift(v) PROVE Typed'
    <2>1. pending' \in Seq(Refs)
      BY <1>9 DEF Shift, Typed
    <2> QED
      BY <1>9, <2>1 DEF Shift, Typed
  <1>10. ASSUME NEW v \in Views, QueueStep(v) PROVE Typed'
    BY <1>10, QueueTyped
  <1>11. ASSUME NEW t \in turns, TurnStep(t) PROVE Typed'
    BY <1>11, TurnTyped
  <1>12. ASSUME NEW j \in Jobs, JobEnds(j) \/ SkipMonitoring(j) PROVE Typed'
    BY <1>12 DEF JobEnds, SkipMonitoring, Typed
  <1>13. ASSUME NEW j \in Jobs, Fire(j) PROVE Typed'
    <2>1. queue' \in [Views -> Seq(Jobs)]
      BY <1>13 DEF Fire, Typed
    <2> QED
      BY <1>13, <2>1 DEF Fire, Typed
  <1>14. CASE UNCHANGED vars
    BY <1>14 DEF vars, Typed
  <1> QED
    BY <1>1, <1>2, <1>3, <1>4, <1>5, <1>6, <1>7, <1>8, <1>9, <1>10, <1>11, <1>12,
       <1>13, <1>14 DEF Next

LEMMA InitTyped == Init => Typed
  <1>1. Init => /\ messages \in Seq(MessageType) /\ turns \in SUBSET TurnType
                /\ told \in [Jobs -> Nat] /\ shown = TRUE
                /\ pending \in Seq(Refs) /\ queue \in [Views -> Seq(Jobs)]
    BY DEF Init
  <1>2. Init => spent \in SpentType /\ view \in Views
    BY ChatBounds DEF Init, SpentType, Views
  <1> QED
    BY <1>1, <1>2 DEF Typed

-----------------------------------------------------------------------------
(* The lock, LockInv above.                                                 *)

(* A turn that starts was alone in finding the lock free.                   *)
LEMMA StartKeepsLock ==
    ASSUME LockInv, ~gone, TryStart, NEW t, turns' = turns \union {t},
           UNCHANGED <<shown, gone>>
    PROVE  LockInv'
  BY DEF LockInv, TryStart

(* A turn goes on under another state of its own.                           *)
LEMMA OnKeepsLock ==
    ASSUME LockInv, NEW t \in turns, NEW u, turns' = (turns \ {t}) \union {u},
           UNCHANGED <<lock, shown, gone>>
    PROVE  LockInv'
  BY DEF LockInv

(* The only turn ends, and the lock is free.                                *)
LEMMA EndKeepsLock ==
    ASSUME LockInv, NEW t \in turns, Ends(t), UNCHANGED <<shown, gone>>
    PROVE  LockInv'
  BY DEF LockInv, Ends

LEMMA IdleKeepsLock ==
    ASSUME LockInv, UNCHANGED <<turns, lock, shown, gone>>
    PROVE  LockInv'
  BY DEF LockInv

LEMMA TurnKeepsLock ==
    ASSUME LockInv, NEW t \in turns, TurnStep(t)
    PROVE  LockInv'
  <1>1. CASE Heard(t)
    BY <1>1, OnKeepsLock DEF Heard, store, mount
  <1>2. CASE Created(t)
    <2>1. PICK u : turns' = (turns \ {t}) \union {u}
      BY <1>2 DEF Created
    <2> QED
      BY <1>2, <2>1, OnKeepsLock DEF Created, store, mount
  <1>3. CASE Answered(t) \/ SendFails(t) \/ Submitted(t) \/ ConfirmFails(t)
             \/ Continued(t) \/ NotifyFails(t)
    <2>1. Ends(t) /\ UNCHANGED <<shown, gone>>
      BY <1>3 DEF Answered, SendFails, Submitted, ConfirmFails, Continued, NotifyFails, mount
    <2> QED
      BY <2>1, EndKeepsLock
  <1> QED
    BY <1>1, <1>2, <1>3 DEF TurnStep

LEMMA QueueKeepsLock ==
    ASSUME LockInv, NEW v \in Views, QueueStep(v)
    PROVE  LockInv'
  <1>1. CASE QueueSkips(v) \/ QueueTrips(v)
    BY <1>1, IdleKeepsLock DEF QueueSkips, QueueTrips, store, mount
  <1>2. CASE Notify(v)
    <2>1. /\ ~gone /\ TryStart /\ UNCHANGED <<shown, gone>>
          /\ turns' = turns \union {NewTurn("notify", v, Head(queue[v]), 0)}
      BY <1>2 DEF Notify, Known, mount
    <2> QED
      BY <2>1, StartKeepsLock
  <1> QED
    BY <1>1, <1>2 DEF QueueStep

LEMMA StepKeepsLock == LockInv /\ [Next]_vars => LockInv'
  <1> SUFFICES ASSUME LockInv, [Next]_vars PROVE LockInv'
    OBVIOUS
  <1>1. CASE Send
    BY <1>1, StartKeepsLock DEF Send, Begin, LockInv, mount
  <1>2. CASE Drain
    BY <1>2, StartKeepsLock DEF Drain, Begin, LockInv, mount
  <1>3. CASE Confirm
    BY <1>3, StartKeepsLock DEF Confirm, LockInv, mount
  <1>4. CASE Reload
    BY <1>4 DEF Reload, LockInv
  <1>5. CASE Reject \/ NoticeEnds \/ PollStart \/ PollEnds \/ Unlock
    BY <1>5, IdleKeepsLock DEF Reject, NoticeEnds, PollStart, PollEnds, Unlock, store, mount
  <1>6. CASE Leave \/ Enter
    BY <1>6 DEF Leave, Enter, LockInv, store
  <1>7. CASE Delete
    <2>1. gone' = TRUE /\ shown' = FALSE /\ turns' = turns
      BY <1>7 DEF Delete
    <2>2. CASE lock' = FALSE
      BY <2>1, <2>2 DEF LockInv
    <2>3. CASE lock' = lock
      BY <2>1, <2>3 DEF LockInv
    <2> QED
      BY <1>7, <2>2, <2>3 DEF Delete, DropAll, KeepAll
  <1>8. ASSUME NEW r \in Refs, Enqueue(r) PROVE LockInv'
    BY <1>8, IdleKeepsLock DEF Enqueue, mount
  <1>9. ASSUME NEW v \in Views, Shift(v) PROVE LockInv'
    BY <1>9, IdleKeepsLock DEF Shift, mount
  <1>10. ASSUME NEW v \in Views, QueueStep(v) PROVE LockInv'
    BY <1>10, QueueKeepsLock
  <1>11. ASSUME NEW t \in turns, TurnStep(t) PROVE LockInv'
    BY <1>11, TurnKeepsLock
  <1>12. ASSUME NEW j \in Jobs, JobEnds(j) \/ Fire(j) \/ SkipMonitoring(j) PROVE LockInv'
    BY <1>12, IdleKeepsLock DEF JobEnds, Fire, SkipMonitoring, store, mount
  <1>13. CASE UNCHANGED vars
    BY <1>13, IdleKeepsLock DEF vars
  <1> QED
    BY <1>1, <1>2, <1>3, <1>4, <1>5, <1>6, <1>7, <1>8, <1>9, <1>10, <1>11, <1>12,
       <1>13 DEF Next

(* One request of the conversation runs at a time, and the lock is neither  *)
(* leaked nor given up early (tryStartRequest of the chat store, and the    *)
(* finally blocks of use-chat.ts).                                          *)
THEOREM OneTurnAtATime == Spec => []OneTurn
  <1>1. Init => LockInv
    BY DEF Init, LockInv
  <1>2. LockInv => OneTurn
    <2> SUFFICES ASSUME LockInv PROVE OneTurn
      OBVIOUS
    <2>1. CASE turns = {}
      BY <2>1, FS_EmptySet DEF LockInv, OneTurn
    <2>2. CASE turns # {}
      <3>1. PICK t : turns = {t}
        BY <2>2 DEF LockInv
      <3>2. Cardinality(turns) = 1
        BY <3>1, FS_Singleton
      <3> QED
        BY <2>2, <3>2 DEF LockInv, OneTurn
    <2> QED
      BY <2>1, <2>2
  <1> QED
    BY <1>1, <1>2, StepKeepsLock, PTL DEF Spec
-----------------------------------------------------------------------------
(* What the server is told.  Without a failing request or a reload, a job   *)
(* whose end the server has heard is on the notified list, or is about to   *)
(* be put there by the one turn that told it, or the conversation is gone   *)
(* and its queues tell nothing any more; and no turn that has yet to be     *)
(* heard tells it again.                                                    *)

Smooth == spent.faults = 0 /\ spent.reloads = 0

Telling(t, j) == t.kind = "notify" /\ t.what = j

ToldOf(j) ==
  \/ told[j] = 0
  \/ /\ told[j] = 1
     /\ j \in notified \/ gone \/ \E t \in turns : Telling(t, j) /\ t.heard
     /\ \A t \in turns : Telling(t, j) => t.heard

ToldInv == Smooth => \A j \in Jobs : ToldOf(j)

(* A failing request or a reload ends the run of luck.                      *)
LEMMA NotSmooth == ASSUME Typed, Fault PROVE ~Smooth'
  <1>1. spent.faults \in Nat /\ spent'.faults = spent.faults + 1
    BY DEF Typed, SpentType, Fault
  <1> QED
    BY <1>1 DEF Smooth

LEMMA SmoothAgo ==
    ASSUME Typed,
           \/ UNCHANGED spent
           \/ \E m \in Answers : spent' = CardSpent(m)
           \/ spent' = [spent EXCEPT !.submits = @ + 1]
           \/ \E r \in Refs : spent' = [spent EXCEPT !.refs = @ \union {r}]
    PROVE  Smooth' => Smooth
  <1>1. spent \in SpentType
    BY DEF Typed
  <1> QED
    BY <1>1 DEF Smooth, CardSpent, SpentType

LEMMA OthersKeepTold ==
    ASSUME ToldInv, Smooth' => Smooth, UNCHANGED <<told, notified, gone>>,
           turns' = turns \/ \E u : turns' = turns \union {u} /\ u.kind # "notify"
    PROVE  ToldInv'
  BY DEF ToldInv, ToldOf, Telling

LEMMA TurnKeepsTold ==
    ASSUME LockInv, Typed, ToldInv, NEW t \in turns, TurnStep(t) PROVE ToldInv'
  <1> USE DEF store, mount, own, world
  <1>0. turns = {t} /\ t \in TurnType
    BY DEF LockInv, Typed
  <1>1. CASE Heard(t)
    <2> DEFINE u == [t EXCEPT !.heard = TRUE]
    <2>1. /\ turns' = {u} /\ u.heard /\ u.kind = t.kind /\ u.what = t.what
          /\ UNCHANGED <<notified, gone, spent>>
      BY <1>0, <1>1 DEF Heard, TurnType
    <2> HIDE DEF u
    <2>2. ASSUME Smooth', NEW j \in Jobs PROVE ToldOf(j)'
      <3>1. ToldOf(j) /\ told \in [Jobs -> Nat]
        BY <2>1, <2>2 DEF ToldInv, Smooth, Typed
      <3>2. CASE Telling(t, j)
        <4>1. told'[j] = told[j] + 1 /\ told[j] = 0
          BY <1>0, <1>1, <3>1, <3>2 DEF Heard, Telling, ToldOf
        <4> QED
          BY <2>1, <3>2, <4>1 DEF ToldOf, Telling
      <3>3. CASE ~Telling(t, j)
        <4>1. told'[j] = told[j]
          BY <1>1, <3>1, <3>3 DEF Heard, Telling
        <4> QED
          BY <1>0, <2>1, <3>1, <3>3, <4>1 DEF ToldOf, Telling
      <3> QED
        BY <3>2, <3>3
    <2> QED
      BY <2>2 DEF ToldInv
  <1>2. CASE Created(t)
    <2>1. PICK u : turns' = {u} /\ u.kind # "notify" /\ t.kind # "notify"
      BY <1>0, <1>2 DEF Created, TurnType
    <2>3. UNCHANGED <<notified, gone, told>>
      BY <1>2 DEF Created
    <2>2. Smooth' => Smooth
      BY <1>2, SmoothAgo DEF Created
    <2> QED
      BY <1>0, <2>1, <2>2, <2>3 DEF ToldInv, ToldOf, Telling
  <1>3. CASE Answered(t) \/ Submitted(t) \/ (ConfirmFails(t) /\ UNCHANGED spent)
    <2>1. turns' = {} /\ t.kind # "notify" /\ UNCHANGED <<notified, gone, told>>
      BY <1>0, <1>3 DEF Answered, Submitted, ConfirmFails, Ends
    <2>2. Smooth' => Smooth
      BY <1>3, SmoothAgo DEF Answered, Submitted, ConfirmFails
    <2> QED
      BY <1>0, <2>1, <2>2 DEF ToldInv, ToldOf, Telling
  <1>4. CASE Continued(t)
    <2>1. /\ turns' = {} /\ t.kind = "notify" /\ t.heard /\ UNCHANGED <<gone, told>>
          /\ notified' = notified \union {t.what}
      BY <1>0, <1>4 DEF Continued, Ends
    <2>2. Smooth' => Smooth
      BY <1>4, SmoothAgo DEF Continued
    <2> QED
      BY <1>0, <2>1, <2>2 DEF ToldInv, ToldOf, Telling
  <1>5. CASE SendFails(t) \/ NotifyFails(t) \/ (ConfirmFails(t) /\ ~UNCHANGED spent)
    <2>1. spent'.faults = spent.faults + 1 /\ spent.faults \in Nat
      BY <1>5 DEF SendFails, NotifyFails, ConfirmFails, Fault, Typed, SpentType
    <2> QED
      BY <2>1 DEF ToldInv, Smooth
  <1> QED
    BY <1>1, <1>2, <1>3, <1>4, <1>5 DEF TurnStep

LEMMA NotifyKeepsTold ==
    ASSUME LockInv, Typed, ToldInv, NEW v \in Views, Notify(v) PROVE ToldInv'
  <1> DEFINE u == NewTurn("notify", v, Head(queue[v]), 0)
  <1>1. /\ ~gone /\ Head(queue[v]) \notin notified /\ turns = {}
        /\ turns' = {u} /\ UNCHANGED <<notified, gone, told, spent>>
    BY DEF Notify, Known, TryStart, LockInv, mount, world
  <1>2. u.what = Head(queue[v]) /\ u.heard = FALSE
    BY DEF NewTurn
  <1> HIDE DEF u
  <1> QED
    BY <1>1, <1>2 DEF ToldInv, ToldOf, Telling, Smooth

LEMMA StepKeepsTold == LockInv /\ Typed /\ ToldInv /\ [Next]_vars => ToldInv'
  <1> SUFFICES ASSUME LockInv, Typed, ToldInv, [Next]_vars PROVE ToldInv'
    OBVIOUS
  <1> USE DEF store, mount, own, world
  <1>1. CASE Send \/ Drain \/ Confirm
    <2>1. UNCHANGED <<told, notified, gone, spent>>
      BY <1>1 DEF Send, Drain, Confirm
    <2>2. \E u : turns' = turns \union {u} /\ u.kind # "notify"
      <3>1. \A kind, v, what, at : NewTurn(kind, v, what, at).kind = kind
        BY DEF NewTurn
      <3>2. CASE Send
        <4> DEFINE u == NewTurn("send", view, None, 0)
        <4>1. turns' = turns \union {u} /\ u.kind = "send"
          BY <3>1, <3>2 DEF Send, Begin
        <4> QED
          BY <4>1
      <3>3. CASE Drain
        <4> DEFINE u == NewTurn("reference", view, Head(pending), 0)
        <4>1. turns' = turns \union {u} /\ u.kind = "reference"
          BY <3>1, <3>3 DEF Drain, Begin
        <4> QED
          BY <4>1
      <3>4. CASE Confirm
        <4> DEFINE u == NewTurn("confirm", view, None, LastCard)
        <4>1. turns' = turns \union {u} /\ u.kind = "confirm"
          BY <3>1, <3>4 DEF Confirm
        <4> QED
          BY <4>1
      <3> QED
        BY <1>1, <3>2, <3>3, <3>4
    <2> QED
      BY <2>1, <2>2, SmoothAgo, OthersKeepTold
  <1>2. CASE Reject \/ NoticeEnds \/ PollStart \/ PollEnds \/ Unlock \/ Leave \/ Enter
    <2>1. UNCHANGED <<told, notified, gone, turns>>
      BY <1>2 DEF Reject, NoticeEnds, PollStart, PollEnds, Unlock, Leave, Enter
    <2>2. Smooth' => Smooth
      BY <1>2, SmoothAgo DEF Reject, NoticeEnds, PollStart, PollEnds, Unlock, Leave, Enter
    <2> QED
      BY <2>1, <2>2, OthersKeepTold
  <1>3. CASE Delete
    <2>1. gone' = TRUE /\ UNCHANGED <<told, turns, spent>>
      BY <1>3 DEF Delete
    <2> QED
      BY <2>1 DEF ToldInv, ToldOf, Smooth
  <1>4. CASE Reload
    <2>1. spent.reloads \in Nat /\ spent'.reloads = spent.reloads + 1
      BY <1>4 DEF Reload, Typed, SpentType
    <2> QED
      BY <2>1 DEF ToldInv, Smooth
  <1>5. ASSUME NEW r \in Refs, Enqueue(r) PROVE ToldInv'
    BY <1>5, SmoothAgo, OthersKeepTold DEF Enqueue
  <1>6. ASSUME NEW v \in Views, Shift(v) \/ QueueSkips(v) \/ QueueTrips(v) PROVE ToldInv'
    BY <1>6, SmoothAgo, OthersKeepTold DEF Shift, QueueSkips, QueueTrips
  <1>7. ASSUME NEW v \in Views, Notify(v) PROVE ToldInv'
    BY <1>7, NotifyKeepsTold
  <1>8. ASSUME NEW t \in turns, TurnStep(t) PROVE ToldInv'
    BY <1>8, TurnKeepsTold
  <1>9. ASSUME NEW j \in Jobs, JobEnds(j) \/ Fire(j) \/ SkipMonitoring(j) PROVE ToldInv'
    BY <1>9, SmoothAgo, OthersKeepTold DEF JobEnds, Fire, SkipMonitoring
  <1>10. CASE UNCHANGED vars
    BY <1>10, SmoothAgo, OthersKeepTold DEF vars
  <1> QED
    BY <1>1, <1>2, <1>3, <1>4, <1>5, <1>6, <1>7, <1>8, <1>9, <1>10 DEF Next, QueueStep

LEMMA LockInvariant == Spec => [](LockInv /\ Typed)
  <1>1. Init => LockInv
    BY DEF Init, LockInv
  <1> QED
    BY <1>1, InitTyped, StepTyped, StepKeepsLock, PTL DEF Spec

(* However many views of a conversation saw a job end, its end is told to   *)
(* Morty once, also when the conversation is deleted with its list of told  *)
(* jobs while the entry waits (processJobNotifyQueue).  A request that      *)
(* failed, or a page that was reloaded, while the job was told is told anew. *)
THEOREM EndsAreToldOnce == Spec => []ToldOnce
  <1>1. Init => ToldInv
    BY DEF Init, ToldInv, ToldOf
  <1>2. Typed /\ ToldInv => ToldOnce
    BY DEF Typed, ToldInv, ToldOf, ToldOnce, Smooth
  <1> QED
    BY <1>1, <1>2, LockInvariant, StepKeepsTold, PTL DEF Spec
-----------------------------------------------------------------------------
(* What an edit of the conversation does to its messages.                   *)

Cards(s)  == {i \in DOMAIN s : s[i].kind = "card"}
NCards(s) == Cardinality(Cards(s))
Tidy(s)   == \A i \in 1 .. Len(s) - 1 : ~IsPlain(s[i])
Once(s, x) == \A i, k \in DOMAIN s : s[i] = x /\ s[k] = x => i = k

LEMMA CardsFinite ==
    ASSUME NEW s \in Seq(MessageType)
    PROVE  Cards(s) \in SUBSET (1 .. Len(s)) /\ IsFiniteSet(Cards(s)) /\ NCards(s) \in Nat
  <1>1. Cards(s) \in SUBSET (1 .. Len(s)) /\ Len(s) \in Nat
    BY DEF Cards
  <1>2. IsFiniteSet(1 .. Len(s))
    BY <1>1, FS_Interval
  <1> QED
    BY <1>1, <1>2, FS_Subset, FS_CardinalityType DEF NCards

LEMMA CompactCards ==
    ASSUME NEW s \in Seq(MessageType) PROVE NCards(Compact(s)) = NCards(s)
  <1> DEFINE c == Compact(s)
  <1>1. c \in Seq(MessageType) /\ \E g : Embedded(c, s, Len(s), g)
    BY CompactEmbeds
  <1>2. PICK g : Embedded(c, s, Len(s), g)
    BY <1>1
  <1> HIDE DEF c
  <1> DEFINE f == [i \in Cards(c) |-> g[i]]
  <1>3. \A i \in Cards(c) : f[i] = g[i] /\ i \in 1 .. Len(c)
    BY <1>1 DEF Cards
  <1>4. f \in [Cards(c) -> Cards(s)]
    BY <1>1, <1>2, <1>3 DEF Cards, Embedded
  <1>5. ASSUME NEW i \in Cards(c), NEW k \in Cards(c), f[i] = f[k] PROVE i = k
    <2>1. g[i] = g[k] /\ i \in 1 .. Len(c) /\ k \in 1 .. Len(c) /\ Len(c) \in Nat
      BY <1>1, <1>3, <1>5
    <2>2. ~(i < k) /\ ~(k < i)
      BY <1>2, <2>1 DEF Embedded
    <2> QED
      BY <2>1, <2>2
  <1>6. ASSUME NEW k \in Cards(s) PROVE \E i \in Cards(c) : f[i] = k
    <2>1. k \in 1 .. Len(s) /\ Keeps(s, k)
      BY <1>6 DEF Cards, Keeps, IsPlain
    <2>2. PICK i \in 1 .. Len(c) : g[i] = k
      BY <1>2, <2>1 DEF Embedded
    <2>3. c[i] = s[k] /\ i \in Cards(c)
      BY <1>1, <1>2, <1>6, <2>2 DEF Embedded, Cards
    <2> QED
      BY <1>3, <2>2, <2>3
  <1> HIDE DEF f
  <1>7. f \in Bijection(Cards(c), Cards(s))
    <2>1. f \in Injection(Cards(c), Cards(s))
      BY <1>4, <1>5, Zenon DEF Injection, IsInjective
    <2>2. f \in Surjection(Cards(c), Cards(s))
      BY <1>4, <1>6, Zenon DEF Surjection
    <2> QED
      BY <2>1, <2>2, Zenon DEF Bijection
  <1>8. IsFiniteSet(Cards(c)) /\ ExistsBijection(Cards(c), Cards(s))
    BY <1>1, <1>7, CardsFinite DEF ExistsBijection
  <1> QED
    BY <1>8, FS_Bijection DEF NCards, c

LEMMA CompactFacts ==
    ASSUME NEW s \in Seq(MessageType), NEW c, c = Compact(s)
    PROVE  /\ c \in Seq(MessageType) /\ (s = <<>> <=> c = <<>>)
           /\ s # <<>> => Last(c) = Last(s)
           /\ Tidy(c)
           /\ \A i \in DOMAIN c : \E k \in DOMAIN s : c[i] = s[k]
           /\ \A x : Once(s, x) => Once(c, x)
           /\ \A k \in DOMAIN s : (\A i \in 1 .. k : ~IsPlain(s[i])) =>
                k \in DOMAIN c /\ c[k] = s[k]
           /\ NCards(c) = NCards(s)
  <1>1. c \in Seq(MessageType) /\ \E g : Embedded(c, s, Len(s), g)
    BY CompactEmbeds
  <1>2. PICK g : Embedded(c, s, Len(s), g)
    BY <1>1
  <1>3. /\ DOMAIN c = 1 .. Len(c) /\ DOMAIN s = 1 .. Len(s)
        /\ Len(c) \in Nat /\ Len(s) \in Nat /\ Len(c) <= Len(s)
    BY <1>1, <1>2 DEF Embedded
  <1>4. /\ \A i \in 1 .. Len(c) : g[i] \in 1 .. Len(s) /\ c[i] = s[g[i]] /\ Keeps(s, g[i])
        /\ \A i, k \in 1 .. Len(c) : i < k => g[i] < g[k]
    BY <1>2 DEF Embedded
  <1>5. ASSUME s # <<>> PROVE c # <<>> /\ g[Len(c)] = Len(s)
    <2>1. Len(s) \in 1 .. Len(s) /\ Keeps(s, Len(s))
      BY <1>3, <1>5 DEF Keeps
    <2>2. PICK i \in 1 .. Len(c) : g[i] = Len(s)
      BY <1>2, <2>1 DEF Embedded
    <2>3. Len(c) \in 1 .. Len(c) /\ ~(i < Len(c))
      BY <1>3, <1>4, <2>2
    <2> QED
      BY <1>1, <1>3, <2>2, <2>3
  <1>6. s = <<>> <=> c = <<>>
    <2>1. s = <<>> => Len(c) = 0
      BY <1>3
    <2> QED
      BY <1>1, <1>5, <2>1
  <1>7. s # <<>> => Last(c) = Last(s)
    <2>1. s # <<>> => Len(c) \in 1 .. Len(c)
      BY <1>1, <1>3, <1>5
    <2> QED
      BY <1>4, <1>5, <2>1 DEF Last
  <1>8. Tidy(c)
    <2> SUFFICES ASSUME NEW i \in 1 .. Len(c) - 1 PROVE ~IsPlain(c[i])
      BY DEF Tidy
    <2>1. i \in 1 .. Len(c) /\ Len(c) \in 1 .. Len(c) /\ i < Len(c)
      BY <1>3
    <2>2. g[i] < g[Len(c)] /\ g[i] \in 1 .. Len(s) /\ g[Len(c)] \in 1 .. Len(s)
      BY <1>4, <2>1
    <2>3. g[i] # Len(s)
      BY <1>3, <2>2
    <2> QED
      BY <1>4, <2>1, <2>3 DEF Keeps
  <1>9. \A i \in DOMAIN c : \E k \in DOMAIN s : c[i] = s[k]
    BY <1>3, <1>4
  <1>10. ASSUME NEW x, Once(s, x), NEW i \in DOMAIN c, NEW k \in DOMAIN c, c[i] = x, c[k] = x
         PROVE  i = k
    <2>1. g[i] = g[k] /\ g[i] \in Nat
      BY <1>3, <1>4, <1>10 DEF Once
    <2>2. ~(i < k) /\ ~(k < i)
      BY <1>3, <1>4, <2>1
    <2> QED
      BY <1>3, <2>2
  <1>11. ASSUME NEW k \in DOMAIN s, \A i \in 1 .. k : ~IsPlain(s[i])
         PROVE  k \in DOMAIN c /\ c[k] = s[k]
    <2>1. k \in 1 .. Len(s) /\ \A i \in 1 .. k : Keeps(s, i)
      BY <1>3, <1>11 DEF Keeps
    <2>2. k <= Len(c) /\ g[k] = k
      BY <1>2, <2>1 DEF Embedded
    <2> QED
      BY <1>3, <1>4, <2>1, <2>2
  <1>12. \A x : Once(s, x) => Once(c, x)
    BY <1>10 DEF Once
  <1> QED
    BY <1>1, <1>6, <1>7, <1>8, <1>9, <1>11, <1>12, CompactCards

IsAdded(c, s, m) ==
  /\ c \in Seq(MessageType) /\ c # <<>> /\ Last(c) = m /\ Tidy(c)
  /\ \A i \in DOMAIN c : c[i] = m \/ \E k \in DOMAIN s : c[i] = s[k]
  /\ \A x : Once(s, x) /\ x # m => Once(c, x)
  /\ (\A k \in DOMAIN s : s[k] # m) => Once(c, m)
  /\ Cards(s) \subseteq Cards(c)
  /\ NCards(c) = NCards(s) + (IF m.kind = "card" THEN 1 ELSE 0)

LEMMA AddedFacts ==
    ASSUME NEW s \in Seq(MessageType), Tidy(s), NEW m \in MessageType, NEW c, c = Added(s, m)
    PROVE  IsAdded(c, s, m)
  <1> DEFINE p == Append(s, m)
  <1>1. /\ p \in Seq(MessageType) /\ p # <<>> /\ Len(p) = Len(s) + 1 /\ Len(s) \in Nat
        /\ DOMAIN p = 1 .. Len(s) + 1 /\ DOMAIN s = 1 .. Len(s)
        /\ p[Len(s) + 1] = m
        /\ \A i \in 1 .. Len(s) : p[i] = s[i]
    OBVIOUS
  <1>2. c = Compact(p)
    BY DEF Added
  <1> HIDE DEF p
  <1>3. Last(p) = m
    BY <1>1 DEF Last
  <1>4. \A i \in DOMAIN p : p[i] = m \/ (i \in DOMAIN s /\ p[i] = s[i])
    BY <1>1
  <1>5. \A x : Once(s, x) /\ x # m => Once(p, x)
    BY <1>4 DEF Once
  <1>6. (\A k \in DOMAIN s : s[k] # m) => Once(p, m)
    BY <1>1, <1>4 DEF Once
  <1>7. ASSUME NEW k \in Cards(s) PROVE k \in Cards(c)
    <2>1. k \in 1 .. Len(s) /\ s[k].kind = "card"
      BY <1>1, <1>7 DEF Cards
    <2>2. \A i \in 1 .. k : ~IsPlain(s[i])
      BY <1>1, <2>1 DEF Tidy, IsPlain
    <2>3. k \in DOMAIN p /\ p[k] = s[k] /\ \A i \in 1 .. k : ~IsPlain(p[i])
      BY <1>1, <2>1, <2>2
    <2>4. k \in DOMAIN c /\ c[k] = p[k]
      BY <1>1, <1>2, <2>3, CompactFacts
    <2> QED
      BY <2>1, <2>3, <2>4 DEF Cards
  <1>8. NCards(p) = NCards(s) + (IF m.kind = "card" THEN 1 ELSE 0)
    <2>1. Cards(p) = IF m.kind = "card" THEN Cards(s) \union {Len(s) + 1} ELSE Cards(s)
      BY <1>1 DEF Cards
    <2>2. Len(s) + 1 \notin Cards(s)
      BY <1>1 DEF Cards
    <2> QED
      <3>1. CASE m.kind = "card"
        BY <2>1, <2>2, <3>1, CardsFinite, FS_AddElement DEF NCards
      <3>2. CASE m.kind # "card"
        BY <2>1, <3>2, CardsFinite DEF NCards
      <3> QED
        BY <3>1, <3>2
  <1> QED
    <2>1. /\ c \in Seq(MessageType) /\ (p = <<>> <=> c = <<>>) /\ Tidy(c)
          /\ p # <<>> => Last(c) = Last(p)
          /\ \A i \in DOMAIN c : \E k \in DOMAIN p : c[i] = p[k]
          /\ \A x : Once(p, x) => Once(c, x)
          /\ NCards(c) = NCards(p)
      BY <1>1, <1>2, CompactFacts, Zenon
    <2>2. \A i \in DOMAIN c : c[i] = m \/ \E k \in DOMAIN s : c[i] = s[k]
      BY <1>4, <2>1, Zenon
    <2> QED
      BY <1>1, <1>3, <1>5, <1>6, <1>7, <1>8, <2>1, <2>2 DEF IsAdded

(* Messages overwritten in place: those at the positions of P become m.     *)
IsOverwritten(c, s, P, m) ==
  /\ c \in Seq(MessageType) /\ (c = <<>> <=> s = <<>>) /\ Tidy(c)
  /\ s # <<>> => Last(c) = IF Len(s) \in P THEN m ELSE Last(s)
  /\ \A i \in DOMAIN c : c[i] = m \/ \E k \in DOMAIN s : k \notin P /\ c[i] = s[k]
  /\ \A x : Once(s, x) /\ x # m => Once(c, x)
  /\ NCards(c) = IF m.kind = "card" THEN Cardinality(Cards(s) \union (P \intersect DOMAIN s))
                 ELSE Cardinality(Cards(s) \ P)

LEMMA Overwritten ==
    ASSUME NEW s \in Seq(MessageType), NEW m \in MessageType, NEW P,
           NEW c, c = Compact([i \in DOMAIN s |-> IF i \in P THEN m ELSE s[i]])
    PROVE  IsOverwritten(c, s, P, m)
  <1> DEFINE p == [i \in DOMAIN s |-> IF i \in P THEN m ELSE s[i]]
  <1>1. \A i \in DOMAIN s : p[i] \in MessageType
    OBVIOUS
  <1>2. /\ p \in Seq(MessageType) /\ Len(p) = Len(s) /\ DOMAIN p = DOMAIN s
        /\ c = Compact(p)
    BY <1>1, InPlace
  <1>3. \A i \in DOMAIN s : p[i] = IF i \in P THEN m ELSE s[i]
    OBVIOUS
  <1> HIDE DEF p
  <1>4. p = <<>> <=> s = <<>>
    BY <1>2
  <1>5. s # <<>> => Last(p) = IF Len(s) \in P THEN m ELSE Last(s)
    BY <1>2, <1>3 DEF Last
  <1>6. \A x : Once(s, x) /\ x # m => Once(p, x)
    BY <1>2, <1>3 DEF Once
  <1>7. Cards(p) = IF m.kind = "card" THEN Cards(s) \union (P \intersect DOMAIN s) ELSE Cards(s) \ P
    BY <1>2, <1>3 DEF Cards
  <1>8. /\ c \in Seq(MessageType) /\ (p = <<>> <=> c = <<>>) /\ Tidy(c)
        /\ p # <<>> => Last(c) = Last(p)
        /\ \A i \in DOMAIN c : \E k \in DOMAIN p : c[i] = p[k]
        /\ \A x : Once(p, x) => Once(c, x)
        /\ NCards(c) = NCards(p)
    BY <1>2, CompactFacts, Zenon
  <1>9. \A i \in DOMAIN c : c[i] = m \/ \E k \in DOMAIN s : k \notin P /\ c[i] = s[k]
    BY <1>2, <1>3, <1>8
  <1> QED
    BY <1>4, <1>5, <1>6, <1>7, <1>8, <1>9 DEF NCards, IsOverwritten

(* Placeholders.  Those of the conversation are orphans or that of the turn *)
(* under way, which has one only, and the last message is no orphan.        *)
Open(s, ts) == \A i \in DOMAIN s : s[i].kind = "hole" =>
                 s[i] = Orphan \/ \E t \in ts : t.kind # "confirm" /\ s[i] = Hole(t)
OneEach(s, ts) == \A t \in ts : Once(s, Hole(t))
NotAnOrphan(s) == s # <<>> => Last(s) # Orphan
Sound(s, ts)   == Tidy(s) /\ Open(s, ts) /\ OneEach(s, ts) /\ NotAnOrphan(s)

LEMMA MessageKinds ==
    /\ Plain.kind = "plain" /\ Card.kind = "card" /\ Orphan.kind = "hole"
    /\ \A t : Hole(t).kind = "hole" /\ Hole(t) # Orphan /\ Hole(t) # Plain /\ Hole(t) # Card
    /\ Plain # Orphan /\ Card # Orphan
  BY DEF Plain, Card, Orphan, Hole, Message

LEMMA SoundEmpty == ASSUME NEW ts PROVE Sound(<<>>, ts)
  BY DEF Sound, Tidy, Open, OneEach, NotAnOrphan, Once

LEMMA AddedIsSound ==
    ASSUME NEW s \in Seq(MessageType), NEW ts, Sound(s, ts), NEW m \in {Plain, Card}
    PROVE  Sound(Added(s, m), ts)
  <1> DEFINE c == Added(s, m)
  <1>1. /\ m \in MessageType /\ Tidy(s) /\ m.kind # "hole" /\ m # Orphan
        /\ \A t : Hole(t) # m
    BY MessagesTyped, MessageKinds DEF Sound
  <1>2. IsAdded(c, s, m)
    BY <1>1, AddedFacts
  <1> HIDE DEF c
  <1>3. Open(c, ts)
    BY <1>1, <1>2 DEF Sound, Open, IsAdded
  <1>4. OneEach(c, ts)
    BY <1>1, <1>2 DEF Sound, OneEach, IsAdded
  <1>5. Sound(c, ts)
    BY <1>1, <1>2, <1>3, <1>4 DEF Sound, NotAnOrphan, IsAdded
  <1> QED
    BY <1>5 DEF c

LEMMA PlacedIsSound ==
    ASSUME NEW s \in Seq(MessageType), Sound(s, {}), NEW t \in TurnType, t.kind # "confirm"
    PROVE  Sound(Added(s, Hole(t)), {t})
  <1> DEFINE c == Added(s, Hole(t))
  <1>1. Hole(t) \in MessageType /\ Tidy(s) /\ Hole(t).kind = "hole" /\ Hole(t) # Orphan
    BY MessagesTyped, MessageKinds DEF Sound
  <1>2. \A k \in DOMAIN s : s[k] # Hole(t)
    BY <1>1 DEF Sound, Open
  <1>3. IsAdded(c, s, Hole(t))
    BY <1>1, AddedFacts
  <1> HIDE DEF c
  <1>4. Open(c, {t})
    BY <1>3 DEF Sound, Open, IsAdded
  <1>5. Sound(c, {t})
    BY <1>1, <1>2, <1>3, <1>4 DEF Sound, NotAnOrphan, OneEach, IsAdded
  <1> QED
    BY <1>5 DEF c

LEMMA BlankedIsSound ==
    ASSUME NEW s \in Seq(MessageType), NEW ts, Tidy(s), Open(s, ts), OneEach(s, ts), NEW P,
           s # <<>> => Last(s) # Orphan \/ Len(s) \in P,
           NEW c, c = Compact([i \in DOMAIN s |-> IF i \in P THEN Plain ELSE s[i]])
    PROVE  /\ Sound(c, ts) /\ c \in Seq(MessageType) /\ (s = <<>> => c = <<>>)
           /\ NCards(c) = Cardinality(Cards(s) \ P)
  <1>1. Plain \in MessageType /\ Plain.kind = "plain" /\ Plain # Orphan /\ \A t : Hole(t) # Plain
    BY MessagesTyped, MessageKinds
  <1>2. IsOverwritten(c, s, P, Plain)
    BY <1>1, Overwritten
  <1>3. Open(c, ts)
    BY <1>1, <1>2 DEF Open, IsOverwritten
  <1>4. OneEach(c, ts)
    BY <1>1, <1>2 DEF OneEach, IsOverwritten
  <1>5. NotAnOrphan(c)
    BY <1>1, <1>2 DEF NotAnOrphan, IsOverwritten
  <1> QED
    BY <1>1, <1>2, <1>3, <1>4, <1>5 DEF Sound, IsOverwritten

LEMMA NoCardsIsSound ==
    ASSUME NEW s \in Seq(MessageType), NEW ts, Sound(s, ts)
    PROVE  Sound(NoCards(s), ts) /\ NCards(NoCards(s)) = 0
  <1>1. [i \in DOMAIN s |-> IF s[i].kind = "card" THEN Plain ELSE s[i]]
          = [i \in DOMAIN s |-> IF i \in Cards(s) THEN Plain ELSE s[i]]
    BY DEF Cards
  <1>2. NoCards(s) = Compact([i \in DOMAIN s |-> IF i \in Cards(s) THEN Plain ELSE s[i]])
    BY <1>1 DEF NoCards
  <1>3. Sound(NoCards(s), ts) /\ NCards(NoCards(s)) = Cardinality(Cards(s) \ Cards(s))
    BY <1>2, BlankedIsSound DEF Sound, NotAnOrphan
  <1>4. Cards(s) \ Cards(s) = {}
    OBVIOUS
  <1> QED
    BY <1>3, <1>4, FS_EmptySet

LEMMA WithoutCardIsSound ==
    ASSUME Typed, NEW ts, Sound(messages, ts), NEW at
    PROVE  /\ Sound(WithoutCard(at), ts)
           /\ at \in CardsAt => NCards(WithoutCard(at)) = NCards(messages) - 1
           /\ messages = <<>> => WithoutCard(at) = <<>>
  <1>1. messages \in Seq(MessageType)
    BY DEF Typed
  <1>2. [i \in DOMAIN messages |-> IF i = at THEN Plain ELSE messages[i]]
          = [i \in DOMAIN messages |-> IF i \in {at} THEN Plain ELSE messages[i]]
    OBVIOUS
  <1>3. WithoutCard(at) = Compact([i \in DOMAIN messages |-> IF i \in {at} THEN Plain ELSE messages[i]])
    BY <1>2 DEF WithoutCard
  <1>4. /\ Sound(WithoutCard(at), ts)
        /\ NCards(WithoutCard(at)) = Cardinality(Cards(messages) \ {at})
        /\ messages = <<>> => WithoutCard(at) = <<>>
    BY <1>1, <1>3, BlankedIsSound DEF Sound, NotAnOrphan
  <1>5. at \in CardsAt => at \in Cards(messages)
    BY DEF CardsAt, Cards
  <1> QED
    BY <1>1, <1>4, <1>5, CardsFinite, FS_RemoveElement DEF NCards

(* The turn's placeholder is filled.                                        *)
LEMMA FilledIsSound ==
    ASSUME Typed, NEW t, Sound(messages, {t}), NEW m \in {Plain, Card}
    PROVE  /\ Sound(Filled(t, m), {})
           /\ NCards(Filled(t, m)) <= NCards(messages) + (IF m = Card THEN 1 ELSE 0)
           /\ messages = <<>> => Filled(t, m) = <<>>
  <1> DEFINE P == {i \in DOMAIN messages : messages[i] = Hole(t)}
             c == Filled(t, m)
  <1>1. messages \in Seq(MessageType) /\ m \in MessageType /\ m.kind # "hole" /\ m # Orphan
    BY MessagesTyped, MessageKinds DEF Typed
  <1>2. [i \in DOMAIN messages |-> IF messages[i] = Hole(t) THEN m ELSE messages[i]]
          = [i \in DOMAIN messages |-> IF i \in P THEN m ELSE messages[i]]
    OBVIOUS
  <1>3. c = Compact([i \in DOMAIN messages |-> IF i \in P THEN m ELSE messages[i]])
    BY <1>2 DEF Filled
  <1>4. \A i \in DOMAIN messages : i \in P <=> messages[i] = Hole(t)
    OBVIOUS
  <1>5. P \intersect DOMAIN messages = P /\ \A i, k \in P : i = k
    BY DEF Sound, OneEach, Once
  <1> HIDE DEF P, c
  <1>6. IsOverwritten(c, messages, P, m)
    BY <1>1, <1>3, Overwritten
  <1>7. Open(c, {})
    BY <1>1, <1>4, <1>6 DEF Sound, Open, IsOverwritten
  <1>8. NotAnOrphan(c)
    BY <1>1, <1>6 DEF Sound, NotAnOrphan, IsOverwritten
  <1>9. Sound(c, {})
    BY <1>6, <1>7, <1>8 DEF Sound, OneEach, IsOverwritten
  <1>10. NCards(c) <= NCards(messages) + (IF m = Card THEN 1 ELSE 0)
    <2>1. CASE m = Card
      <3>1. m.kind = "card" /\ NCards(messages) \in Nat
        BY <1>1, <2>1, MessageKinds, CardsFinite, Zenon
      <3>2. CASE P = {}
        <4>1. Cards(messages) \union (P \intersect DOMAIN messages) = Cards(messages)
          BY <3>2
        <4>2. NCards(c) = NCards(messages)
          BY <1>6, <3>1, <4>1 DEF NCards, IsOverwritten
        <4> QED
          BY <2>1, <3>1, <4>2
      <3>3. CASE P # {}
        <4>1. PICK i : P = {i}
          BY <1>5, <3>3
        <4>2. NCards(c) = Cardinality(Cards(messages) \union {i})
          BY <1>5, <1>6, <3>1, <4>1 DEF IsOverwritten
        <4>3. IsFiniteSet(Cards(messages)) /\ NCards(messages) = Cardinality(Cards(messages))
          BY <1>1, CardsFinite DEF NCards
        <4>4. NCards(c) <= NCards(messages) + 1
          BY <3>1, <4>2, <4>3, FS_AddElement
        <4> QED
          BY <2>1, <4>4
      <3> QED
        BY <3>2, <3>3
    <2>2. CASE m = Plain
      <3>1. Plain.kind # "card" /\ Plain # Card
        BY MessageKinds
      <3>2. Cards(messages) \ P = Cards(messages)
        BY <1>4, MessageKinds DEF Cards
      <3>3. NCards(messages) \in Nat
        BY <1>1, CardsFinite, Zenon
      <3>4. NCards(c) = Cardinality(Cards(messages) \ P)
        BY <1>6, <2>2, <3>1 DEF IsOverwritten
      <3>5. NCards(c) = NCards(messages)
        BY <3>2, <3>4 DEF NCards
      <3> QED
        BY <2>2, <3>1, <3>3, <3>5
    <2> QED
      BY <2>1, <2>2
  <1> QED
    BY <1>6, <1>9, <1>10 DEF c, IsOverwritten

(* What a view that is mounted with no request running makes of the end.    *)
LEMMA ReconciledIsSound ==
    ASSUME NEW s \in Seq(MessageType), NEW ts, Tidy(s), Open(s, ts), OneEach(s, ts),
           NEW locked, ~locked \/ NotAnOrphan(s)
    PROVE  Sound(Reconciled(s, locked), ts) /\ NCards(Reconciled(s, locked)) = NCards(s)
  <1>1. CASE ~locked /\ s # <<>> /\ Last(s).kind = "hole"
    <2>1. DOMAIN s = 1 .. Len(s) /\ Len(s) \in DOMAIN s
      BY <1>1
    <2>2. [s EXCEPT ![Len(s)] = Plain] = [i \in DOMAIN s |-> IF i \in {Len(s)} THEN Plain ELSE s[i]]
      BY <2>1
    <2>3. Reconciled(s, locked) = Compact([i \in DOMAIN s |-> IF i \in {Len(s)} THEN Plain ELSE s[i]])
      BY <1>1, <2>2 DEF Reconciled
    <2>4. /\ Sound(Reconciled(s, locked), ts)
          /\ NCards(Reconciled(s, locked)) = Cardinality(Cards(s) \ {Len(s)})
      BY <2>3, BlankedIsSound
    <2>5. Cards(s) \ {Len(s)} = Cards(s)
      BY <1>1 DEF Cards, Last
    <2> QED
      BY <2>4, <2>5 DEF NCards
  <1>2. CASE ~(~locked /\ s # <<>> /\ Last(s).kind = "hole")
    <2>1. Reconciled(s, locked) = s
      BY <1>2 DEF Reconciled
    <2>2. NotAnOrphan(s)
      BY <1>2, MessageKinds DEF NotAnOrphan
    <2> QED
      BY <2>1, <2>2 DEF Sound
  <1> QED
    BY <1>1, <1>2

LEMMA AbandonedIsTidy ==
    ASSUME NEW s \in Seq(MessageType), Tidy(s)
    PROVE  /\ Abandoned(s) \in Seq(MessageType) /\ Tidy(Abandoned(s)) /\ Open(Abandoned(s), {})
           /\ NCards(Abandoned(s)) = NCards(s)
  <1> DEFINE a == Abandoned(s)
  <1>1. a \in Seq(MessageType) /\ Len(a) = Len(s)
    BY AbandonedTyped
  <1>2. DOMAIN a = DOMAIN s /\ \A i \in DOMAIN s : a[i] = IF s[i].kind = "hole" THEN Orphan ELSE s[i]
    BY DEF Abandoned
  <1> HIDE DEF a
  <1>3. \A i \in DOMAIN s : a[i].kind = s[i].kind
    BY <1>2, MessageKinds
  <1>4. Tidy(a)
    <2>1. \A i \in 1 .. Len(s) - 1 : i \in DOMAIN s
      OBVIOUS
    <2> QED
      BY <1>1, <1>3, <2>1 DEF Tidy, IsPlain
  <1>5. Open(a, {})
    BY <1>2, <1>3 DEF Open
  <1>6. Cards(a) = Cards(s)
    BY <1>2, <1>3 DEF Cards
  <1> QED
    BY <1>1, <1>4, <1>5, <1>6 DEF NCards, a

-----------------------------------------------------------------------------
(* The conversation's messages, and the proposed jobs in the balance: what  *)
(* was submitted, and the proposals that are left, do not exceed what was   *)
(* proposed, but for the one whose submission the server has heard while    *)
(* its card is still there, and for those that were cut off there.  Of a    *)
(* deleted conversation the submission not yet heard counts instead.        *)

Proposal == \A t \in turns : t.kind = "confirm" /\ ~gone => t.at \in CardsAt
Messages == Sound(messages, turns) /\ (gone => messages = <<>>) /\ Proposal

Balance ==
  /\ gone => spent.submits + Submitting <= spent.cards + spent.cut
  /\ ~gone => spent.submits + NCards(messages)
                <= spent.cards + spent.cut + Arrived

(* What a turn that is under way is to the messages is its placeholder.     *)
LEMMA SoundWithout ==
    ASSUME NEW s, NEW t, Sound(s, {t}), t.kind = "confirm" PROVE Sound(s, {})
  BY DEF Sound, Open, OneEach

LEMMA SoundWith == ASSUME NEW s, NEW t, Sound(s, {}) PROVE Sound(s, {t})
  BY MessageKinds DEF Sound, Open, OneEach, Once

LEMMA SoundOn ==
    ASSUME NEW s, NEW t, NEW u, Sound(s, {t}), Hole(u) = Hole(t), u.kind = t.kind
    PROVE  Sound(s, {u})
  BY DEF Sound, Open, OneEach

LEMMA HeardTurn ==
    ASSUME NEW t \in TurnType, NEW u, u = [t EXCEPT !.heard = TRUE]
    PROVE  Hole(u) = Hole(t) /\ u.kind = t.kind /\ u.at = t.at /\ u.heard = TRUE
  BY DEF TurnType, Hole, Message

LEMMA CountsTyped ==
    ASSUME Typed
    PROVE  /\ spent.submits \in Nat /\ spent.cards \in Nat /\ spent.cut \in Nat
           /\ NCards(messages) \in Nat
           /\ Arrived \in {0, 1} /\ Submitting \in {0, 1}
  BY CardsFinite DEF Typed, SpentType, Submitting, Arrived

LEMMA CardSpentCounts ==
    ASSUME Typed, NEW m \in {Plain, Card}, spent' = CardSpent(m)
    PROVE  /\ spent'.submits = spent.submits /\ spent'.cut = spent.cut
           /\ spent'.cards = spent.cards + (IF m = Card THEN 1 ELSE 0)
  <1>1. spent \in SpentType
    BY DEF Typed
  <1>2. CASE m = Card
    BY <1>1, <1>2 DEF CardSpent, SpentType
  <1>3. CASE m # Card
    BY <1>1, <1>3 DEF CardSpent, SpentType
  <1> QED
    BY <1>2, <1>3

LEMMA FaultCounts ==
    ASSUME Typed, Fault
    PROVE  /\ spent'.submits = spent.submits /\ spent'.cut = spent.cut
           /\ spent'.cards = spent.cards
  <1>1. spent \in SpentType
    BY DEF Typed
  <1> QED
    BY <1>1 DEF Fault, SpentType

(* No submission begins or ends, and each card more was proposed.           *)
LEMMA CardsKeepBalance ==
    ASSUME Typed, Typed', Balance, UNCHANGED gone,
           NEW d \in {0, 1}, NCards(messages') <= NCards(messages) + d,
           spent'.submits = spent.submits, spent'.cut = spent.cut,
           spent'.cards = spent.cards + d,
           \A t \in turns' \ turns : t.kind # "confirm",
           \A t \in turns \ turns' : t.kind # "confirm"
    PROVE  Balance'
  <1>1. Arrived' = Arrived /\ Submitting' = Submitting
    BY DEF Submitting, Arrived
  <1>2. NCards(messages') \in Nat
    BY CardsFinite DEF Typed
  <1>3. gone' = gone /\ d \in {0, 1}
    OBVIOUS
  <1>4. CASE gone
    <2>1. spent.submits + Submitting <= spent.cards + spent.cut
      BY <1>4, Zenon DEF Balance
    <2>2. spent'.submits + Submitting' <= spent'.cards + spent'.cut
      BY <1>1, <2>1, CountsTyped
    <2> QED
      BY <1>3, <1>4, <2>2, Zenon DEF Balance
  <1>5. CASE ~gone
    <2>1. spent.submits + NCards(messages) <= spent.cards + spent.cut + Arrived
      BY <1>5, Zenon DEF Balance
    <2>2. spent'.submits + NCards(messages') <= spent'.cards + spent'.cut + Arrived'
      BY <1>1, <1>2, <2>1, CountsTyped
    <2> QED
      BY <1>3, <1>5, <2>2 DEF Balance
  <1> QED
    BY <1>4, <1>5

(* A request starts that adds its placeholder.                              *)
LEMMA BeginKeepsMessages ==
    ASSUME Typed, Typed', LockInv, Messages, Balance, ~gone, turns = {}, UNCHANGED <<gone, spent>>,
           NEW t \in TurnType, t.kind # "confirm", turns' = turns \union {t},
           NEW s \in Seq(MessageType), Sound(s, {}), NCards(s) <= NCards(messages),
           messages' = Added(s, Hole(t))
    PROVE  Messages' /\ Balance'
  <1>1. turns' = {t} /\ t.heard \in BOOLEAN
    BY DEF TurnType
  <1>2. Sound(messages', {t})
    BY PlacedIsSound
  <1>3. Hole(t) \in MessageType /\ Hole(t).kind # "card" /\ Tidy(s)
    BY MessagesTyped, MessageKinds DEF Sound
  <1>4. IsAdded(messages', s, Hole(t))
    BY <1>3, AddedFacts
  <1>5. NCards(messages') = NCards(s)
    BY <1>3, <1>4, CardsFinite DEF IsAdded
  <1>6. Messages'
    BY <1>1, <1>2 DEF Messages, Proposal
  <1>7. NCards(messages') <= NCards(messages) + 0
    BY <1>5, CardsFinite DEF Typed
  <1>8. spent.cards = spent.cards + 0
    BY CountsTyped
  <1>9. Balance'
    BY <1>7, <1>8, CardsKeepBalance
  <1> QED
    BY <1>6, <1>9

LEMMA StartsKeepMessages ==
    ASSUME Typed, Typed', LockInv, Messages, Balance, Send \/ Drain \/ \E v \in Views : Notify(v)
    PROVE  Messages' /\ Balance'
  <1>0. view \in Views
    BY DEF Typed
  <1>1. /\ ~gone /\ turns = {} /\ UNCHANGED <<gone, spent>>
        /\ messages \in Seq(MessageType) /\ Sound(messages, {})
    BY DEF Send, Drain, Notify, Begin, TryStart, Known, LockInv, Messages, Typed, mount
  <1>2. ASSUME NEW t \in TurnType, t.kind # "confirm", Begin(t) PROVE Messages' /\ Balance'
    <2> DEFINE r == IF Tail_("card") THEN NoCards(messages) ELSE messages
               s == Added(r, Plain)
    <2>1. r \in Seq(MessageType) /\ Sound(r, {}) /\ NCards(r) <= NCards(messages)
      <3>1. NCards(messages) \in Nat
        BY CountsTyped
      <3>2. NoCards(messages) \in Seq(MessageType) /\ Sound(NoCards(messages), {})
            /\ NCards(NoCards(messages)) = 0
        BY <1>1, NoCardsTyped, NoCardsIsSound
      <3> QED
        BY <1>1, <3>1, <3>2
    <2>2. messages' = Added(s, Hole(t)) /\ turns' = turns \union {t}
      BY <1>2 DEF Begin
    <2> HIDE DEF r
    <2>3. s \in Seq(MessageType) /\ Sound(s, {})
      BY <2>1, AddedTyped, AddedIsSound, MessagesTyped
    <2>4. Plain \in MessageType /\ Plain.kind # "card" /\ Tidy(r)
      BY <2>1, MessagesTyped, MessageKinds DEF Sound
    <2>5. IsAdded(s, r, Plain)
      BY <2>1, <2>4, AddedFacts
    <2> HIDE DEF s
    <2>6. NCards(s) <= NCards(messages)
      BY <2>1, <2>4, <2>5, CardsFinite DEF IsAdded
    <2> QED
      BY <1>1, <1>2, <2>2, <2>3, <2>6, BeginKeepsMessages
  <1>3. CASE Send
    <2> DEFINE t == NewTurn("send", view, None, 0)
    <2>1. t \in TurnType /\ t.kind # "confirm"
      BY <1>0, NewTurnTyped DEF Kinds, What
    <2>2. Begin(t)
      BY <1>3 DEF Send
    <2> QED
      BY <1>2, <2>1, <2>2
  <1>4. CASE Drain
    <2> DEFINE t == NewTurn("reference", view, Head(pending), 0)
    <2>1. Begin(t) /\ pending # <<>>
      BY <1>4 DEF Drain
    <2>2. Head(pending) \in What
      <3>1. pending \in Seq(Refs)
        BY DEF Typed
      <3>2. Head(pending) \in Refs
        BY <2>1, <3>1
      <3> QED
        BY <3>2 DEF What
    <2>3. t \in TurnType /\ t.kind # "confirm"
      BY <1>0, <2>2, NewTurnTyped DEF Kinds
    <2> QED
      BY <1>2, <2>1, <2>3
  <1>5. ASSUME NEW v \in Views, Notify(v) PROVE Messages' /\ Balance'
    <2> DEFINE t == NewTurn("notify", v, Head(queue[v]), 0)
    <2>1. messages' = Added(messages, Hole(t)) /\ turns' = turns \union {t} /\ queue[v] # <<>>
      BY <1>5 DEF Notify, QueueHead
    <2>2. Head(queue[v]) \in What
      <3>1. queue[v] \in Seq(Jobs)
        BY DEF Typed
      <3>2. Head(queue[v]) \in Jobs
        BY <2>1, <3>1
      <3> QED
        BY <3>2 DEF What
    <2>3. t \in TurnType /\ t.kind # "confirm"
      BY <2>2, NewTurnTyped DEF Kinds
    <2>4. NCards(messages) <= NCards(messages)
      BY CountsTyped
    <2> HIDE DEF t
    <2> QED
      BY <1>1, <2>1, <2>3, <2>4, BeginKeepsMessages
  <1> QED
    BY <1>3, <1>4, <1>5

(* The turn's placeholder is filled, or its failure is, as the turn ends.   *)
LEMMA FillingKeepsMessages ==
    ASSUME Typed, Typed', LockInv, Messages, Balance, UNCHANGED gone,
           NEW t \in turns, t.kind # "confirm", Ends(t), NEW m \in {Plain, Card},
           messages' = Filled(t, m), spent'.submits = spent.submits,
           spent'.cut = spent.cut,
           spent'.cards = spent.cards + (IF m = Card THEN 1 ELSE 0)
    PROVE  Messages' /\ Balance'
  <1>1. turns = {t} /\ turns' = {}
    BY DEF LockInv, Ends
  <1>2. /\ Sound(Filled(t, m), {}) /\ (messages = <<>> => Filled(t, m) = <<>>)
        /\ NCards(Filled(t, m)) <= NCards(messages) + (IF m = Card THEN 1 ELSE 0)
    BY <1>1, FilledIsSound DEF Messages
  <1>3. Messages'
    BY <1>1, <1>2 DEF Messages, Proposal
  <1>4. Balance'
    BY <1>1, <1>2, CardsKeepBalance
  <1> QED
    BY <1>3, <1>4

LEMMA AnswersAre == Answers \subseteq {Plain, Card}
  BY DEF Answers

(* A submission begins, is heard, and ends.                                 *)
LEMMA ConfirmKeepsMessages ==
    ASSUME Typed, LockInv, Messages, Balance, Confirm
    PROVE  Messages' /\ Balance'
  <1> DEFINE u == NewTurn("confirm", view, None, LastCard)
  <1>1. /\ ~gone /\ turns = {} /\ turns' = {u} /\ CardsAt # {}
        /\ UNCHANGED <<gone, spent, messages>>
    BY DEF Confirm, TryStart, LockInv, mount
  <1>2. u.at = LastCard /\ ~u.heard /\ u.kind = "confirm"
    BY DEF NewTurn
  <1>3. LastCard \in CardsAt
    BY <1>1, LastCardIsACard
  <1>4. Sound(messages, {u})
    BY <1>1, SoundWith DEF Messages
  <1> HIDE DEF u
  <1>5. CardsAt' = CardsAt
    BY <1>1 DEF CardsAt
  <1>6. Messages'
    BY <1>1, <1>2, <1>3, <1>4, <1>5 DEF Messages, Proposal
  <1>7. Arrived = 0 /\ Arrived' = 0
    BY <1>1, <1>2 DEF Arrived
  <1>8. Balance'
    BY <1>1, <1>7 DEF Balance
  <1> QED
    BY <1>6, <1>8

LEMMA HeardKeepsMessages ==
    ASSUME Typed, LockInv, Messages, Balance, NEW t \in turns, Heard(t)
    PROVE  Messages' /\ Balance'
  <1> DEFINE u == [t EXCEPT !.heard = TRUE]
  <1>1. /\ turns = {t} /\ turns' = {u} /\ t.kind # "confirm" /\ t \in TurnType
        /\ UNCHANGED <<gone, messages, spent>>
    BY DEF Heard, LockInv, Typed, store, mount
  <1>2. Hole(u) = Hole(t) /\ u.kind = t.kind /\ u.at = t.at /\ u.heard = TRUE
    BY <1>1, HeardTurn
  <1>3. Sound(messages, {u})
    BY <1>1, <1>2, SoundOn DEF Messages
  <1> HIDE DEF u
  <1>4. Messages'
    BY <1>1, <1>2, <1>3 DEF Messages, Proposal
  <1>5. Submitting = 0 /\ Submitting' = 0 /\ Arrived = 0 /\ Arrived' = 0
    BY <1>1, <1>2 DEF Submitting, Arrived
  <1>6. Balance'
    BY <1>1, <1>5 DEF Balance
  <1> QED
    BY <1>4, <1>6

LEMMA CreatedKeepsMessages ==
    ASSUME Typed, LockInv, Messages, Balance, NEW t \in turns, Created(t)
    PROVE  Messages' /\ Balance'
  <1>1. /\ turns = {t} /\ ~t.heard /\ t.kind = "confirm" /\ t \in TurnType
        /\ UNCHANGED <<gone, messages>>
    BY DEF Created, LockInv, Typed, store, mount
  <1>2. PICK u : turns' = {u} /\ u.kind = "confirm" /\ u.at = t.at /\ u.heard
    <2>1. PICK j \in Jobs : turns' = (turns \ {t}) \union {[t EXCEPT !.heard = TRUE, !.what = j]}
      BY DEF Created
    <2> DEFINE u == [t EXCEPT !.heard = TRUE, !.what = j]
    <2>2. u.kind = "confirm" /\ u.at = t.at /\ u.heard
      BY <1>1 DEF TurnType
    <2>3. turns' = {u}
      BY <1>1, <2>1
    <2> QED
      BY <2>2, <2>3
  <1>3. Sound(messages, {})
    BY <1>1, SoundWithout DEF Messages
  <1>4. Sound(messages, {u})
    BY <1>3, SoundWith
  <1>5. CardsAt' = CardsAt
    BY <1>1 DEF CardsAt
  <1>6. Messages'
    BY <1>1, <1>2, <1>4, <1>5 DEF Messages, Proposal
  <1>7. spent \in SpentType
    BY DEF Typed
  <1>8. spent'.submits = spent.submits + 1 /\ spent'.cards = spent.cards /\ spent'.cut = spent.cut
    BY <1>7 DEF Created, SpentType
  <1>9. Submitting = 1 /\ Submitting' = 0 /\ Arrived = 0 /\ Arrived' = 1
    BY <1>1, <1>2 DEF Submitting, Arrived
  <1>10. Balance'
    BY <1>1, <1>8, <1>9, CountsTyped DEF Balance
  <1> QED
    BY <1>6, <1>10

LEMMA SubmittedKeepsMessages ==
    ASSUME Typed, Typed', LockInv, Messages, Balance, NEW t \in turns, Submitted(t)
    PROVE  Messages' /\ Balance'
  <1>1. /\ turns = {t} /\ turns' = {} /\ t.kind = "confirm" /\ t.heard
        /\ messages' = WithoutCard(t.at) /\ UNCHANGED <<gone, spent>>
    BY DEF Submitted, LockInv, Ends, mount
  <1>2. Sound(messages, {})
    BY <1>1, SoundWithout DEF Messages
  <1>3. /\ Sound(WithoutCard(t.at), {}) /\ (messages = <<>> => WithoutCard(t.at) = <<>>)
        /\ t.at \in CardsAt => NCards(WithoutCard(t.at)) = NCards(messages) - 1
    BY <1>2, WithoutCardIsSound
  <1>4. Messages'
    BY <1>1, <1>3 DEF Messages, Proposal
  <1>5. Submitting = 0 /\ Submitting' = 0 /\ Arrived = 1 /\ Arrived' = 0
    BY <1>1 DEF Submitting, Arrived
  <1>6. ~gone => NCards(messages') = NCards(messages) - 1
    BY <1>1, <1>3 DEF Messages, Proposal
  <1>7. Balance'
    BY <1>1, <1>5, <1>6, CountsTyped DEF Balance
  <1> QED
    BY <1>4, <1>7

(* A submission whose reply is lost is counted among those cut off.         *)
LEMMA ConfirmFailsKeepsMessages ==
    ASSUME Typed, LockInv, Messages, Balance, NEW t \in turns, ConfirmFails(t)
    PROVE  Messages' /\ Balance'
  <1>1. /\ turns = {t} /\ turns' = {} /\ t.kind = "confirm" /\ t.heard \in BOOLEAN
        /\ UNCHANGED <<gone, messages>>
    BY DEF ConfirmFails, LockInv, Ends, mount, Typed, TurnType
  <1>2. Sound(messages, {})
    BY <1>1, SoundWithout DEF Messages
  <1>3. Messages'
    BY <1>1, <1>2 DEF Messages, Proposal
  <1>4. Submitting' = 0 /\ Arrived' = 0
    BY <1>1 DEF Submitting, Arrived
  <1>5. CASE ~t.heard
    <2>1. Submitting = 1 /\ Arrived = 0
      BY <1>1, <1>5 DEF Submitting, Arrived
    <2>2. spent'.submits = spent.submits /\ spent'.cards = spent.cards /\ spent'.cut = spent.cut
      BY <1>5, FaultCounts DEF ConfirmFails
    <2> QED
      BY <1>1, <1>3, <1>4, <2>1, <2>2, CountsTyped DEF Balance
  <1>6. CASE t.heard
    <2>1. Submitting = 0 /\ Arrived = 1
      BY <1>1, <1>6 DEF Submitting, Arrived
    <2>2. /\ spent'.submits = spent.submits /\ spent'.cards = spent.cards
          /\ spent'.cut = spent.cut + 1
      BY <1>6 DEF ConfirmFails, Typed, SpentType
    <2> QED
      BY <1>1, <1>3, <1>4, <2>1, <2>2, CountsTyped DEF Balance
  <1> QED
    BY <1>1, <1>5, <1>6

LEMMA TurnKeepsMessages ==
    ASSUME Typed, Typed', LockInv, Messages, Balance, NEW t \in turns, TurnStep(t)
    PROVE  Messages' /\ Balance'
  <1>1. CASE \/ Answered(t) /\ \E m \in Answers : messages' = Filled(t, m) /\ spent' = CardSpent(m)
             \/ Continued(t)
    <2>1. /\ UNCHANGED gone /\ t.kind # "confirm" /\ Ends(t)
          /\ \E m \in Answers : messages' = Filled(t, m) /\ spent' = CardSpent(m)
      BY <1>1 DEF Answered, Continued, mount
    <2>2. PICK m \in {Plain, Card} : messages' = Filled(t, m) /\ spent' = CardSpent(m)
      BY <2>1, AnswersAre
    <2> QED
      BY <2>1, <2>2, CardSpentCounts, FillingKeepsMessages
  <1>2. CASE \/ SendFails(t) \/ NotifyFails(t)
             \/ Answered(t) /\ messages' = Filled(t, Plain) /\ UNCHANGED spent
    <2>1. /\ UNCHANGED gone /\ t.kind # "confirm" /\ Ends(t) /\ messages' = Filled(t, Plain)
      BY <1>2 DEF SendFails, NotifyFails, Answered, mount
    <2>2. /\ spent'.submits = spent.submits /\ spent'.cut = spent.cut
          /\ spent'.cards = spent.cards
      BY <1>2, FaultCounts DEF SendFails, NotifyFails
    <2>3. spent'.cards = spent.cards + (IF Plain = Card THEN 1 ELSE 0)
      BY <2>2, MessageKinds, CountsTyped
    <2> QED
      BY <2>1, <2>2, <2>3, FillingKeepsMessages
  <1>3. Answered(t) => \/ \E m \in Answers : messages' = Filled(t, m) /\ spent' = CardSpent(m)
                       \/ messages' = Filled(t, Plain) /\ UNCHANGED spent
    BY DEF Answered
  <1> QED
    BY <1>1, <1>2, <1>3, HeardKeepsMessages, CreatedKeepsMessages, SubmittedKeepsMessages,
       ConfirmFailsKeepsMessages
    DEF TurnStep

(* The messages are as they were, and so is what the balance counts.        *)
LEMMA IdleKeepsMessages ==
    ASSUME Messages, Balance, UNCHANGED <<messages, turns, gone>>,
           spent'.submits = spent.submits, spent'.cards = spent.cards,
           spent'.cut = spent.cut
    PROVE  Messages' /\ Balance'
  BY DEF Messages, Proposal, CardsAt, Balance, Submitting, Arrived

LEMMA RejectKeepsMessages ==
    ASSUME Typed, Typed', LockInv, Messages, Balance, Reject
    PROVE  Messages' /\ Balance'
  <1>1. /\ ~gone /\ turns = {} /\ messages' = NoCards(messages)
        /\ UNCHANGED <<gone, turns, spent>>
    BY DEF Reject, LockInv, mount
  <1>2. Sound(NoCards(messages), {}) /\ NCards(NoCards(messages)) = 0
    <2>1. messages \in Seq(MessageType)
      BY DEF Typed
    <2> QED
      BY <1>1, <2>1, NoCardsIsSound DEF Messages
  <1>3. Messages'
    BY <1>1, <1>2 DEF Messages, Proposal
  <1>4. Balance'
    <2>1. NCards(messages') <= NCards(messages) + 0 /\ spent'.cards = spent.cards + 0
      BY <1>1, <1>2, CountsTyped
    <2> QED
      BY <1>1, <2>1, CardsKeepBalance
  <1> QED
    BY <1>3, <1>4

(* What Morty says of its own accord is put after the placeholder.          *)
LEMMA PollKeepsMessages ==
    ASSUME Typed, Typed', LockInv, Messages, Balance, ~gone, UNCHANGED <<gone, turns>>,
           NEW m \in {Plain, Card}, messages' = Added(messages, m), spent' = CardSpent(m)
    PROVE  Messages' /\ Balance'
  <1>1. messages \in Seq(MessageType) /\ m \in MessageType /\ Tidy(messages)
    BY MessagesTyped DEF Typed, Messages, Sound
  <1>2. Sound(messages', turns)
    BY <1>1, AddedIsSound DEF Messages
  <1>3. IsAdded(messages', messages, m)
    BY <1>1, AddedFacts
  <1>4. CardsAt = Cards(messages) /\ CardsAt' = Cards(messages')
    BY DEF CardsAt, Cards
  <1>5. Messages'
    BY <1>2, <1>3, <1>4 DEF Messages, Proposal, IsAdded
  <1>6. NCards(messages') = NCards(messages) + (IF m = Card THEN 1 ELSE 0)
    BY <1>3, MessageKinds DEF IsAdded
  <1>7. NCards(messages') <= NCards(messages) + (IF m = Card THEN 1 ELSE 0)
    BY <1>6, CountsTyped
  <1>8. Balance'
    BY <1>7, CardSpentCounts, CardsKeepBalance
  <1> QED
    BY <1>5, <1>8

LEMMA EnterKeepsMessages ==
    ASSUME Typed, Typed', LockInv, Messages, Balance, Enter
    PROVE  Messages' /\ Balance'
  <1>1. /\ ~gone /\ messages' = Reconciled(messages, lock)
        /\ UNCHANGED <<gone, turns, spent>> /\ (~lock => turns = {})
    BY DEF Enter, LockInv
  <1>2. messages \in Seq(MessageType) /\ Tidy(messages) /\ Open(messages, turns)
        /\ OneEach(messages, turns) /\ NotAnOrphan(messages)
    BY DEF Typed, Messages, Sound
  <1>3. Sound(messages', turns) /\ NCards(messages') = NCards(messages)
    BY <1>1, <1>2, ReconciledIsSound
  <1>4. lock => messages' = messages
    BY <1>1 DEF Reconciled
  <1>5. Messages'
    BY <1>1, <1>3, <1>4 DEF Messages, Proposal, CardsAt
  <1>6. NCards(messages') <= NCards(messages) + 0 /\ spent'.cards = spent.cards + 0
    BY <1>1, <1>3, CountsTyped
  <1>7. Balance'
    BY <1>1, <1>6, CardsKeepBalance
  <1> QED
    BY <1>5, <1>7

(* A deletion takes the card of a submission along, whose job is created    *)
(* all the same.                                                            *)
LEMMA DeleteKeepsMessages ==
    ASSUME Typed, LockInv, Messages, Balance, Delete
    PROVE  Messages' /\ Balance'
  <1>1. ~gone /\ gone' = TRUE /\ messages' = <<>> /\ UNCHANGED <<turns, spent>>
    BY DEF Delete
  <1>2. Messages'
    BY <1>1, SoundEmpty DEF Messages, Proposal
  <1>3. Submitting' = Submitting
    BY <1>1 DEF Submitting
  <1>4. spent.submits + Submitting <= spent.cards + spent.cut
    <2>1. CASE Submitting = 0 /\ Arrived = 0
      BY <1>1, <2>1, CountsTyped DEF Balance
    <2>2. CASE ~(Submitting = 0 /\ Arrived = 0)
      <3>1. PICK t \in turns : t.kind = "confirm"
        BY <2>2 DEF Submitting, Arrived
      <3>2. Submitting + Arrived = 1
        BY <2>2, <3>1 DEF LockInv, Submitting, Arrived
      <3>3. Cards(messages) # {}
        BY <1>1, <3>1 DEF Messages, Proposal, CardsAt, Cards
      <3>4. messages \in Seq(MessageType)
        BY DEF Typed
      <3>5. NCards(messages) # 0
        BY <3>3, <3>4, CardsFinite, FS_EmptySet, Zenon DEF NCards
      <3> QED
        BY <1>1, <3>2, <3>5, CountsTyped DEF Balance
    <2> QED
      BY <2>1, <2>2
  <1>5. Balance'
    BY <1>1, <1>3, <1>4 DEF Balance
  <1> QED
    BY <1>2, <1>5

(* A reload makes orphans of the placeholders, the last of which the new    *)
(* view reconciles, and may cut a submission off.                           *)
LEMMA ReloadKeepsMessages ==
    ASSUME Typed, Typed', LockInv, Messages, Balance, Reload
    PROVE  Messages' /\ Balance'
  <1> DEFINE s == Abandoned(messages)
  <1>1. turns' = {} /\ gone' = gone /\ messages' = Reconciled(s, FALSE)
    BY DEF Reload
  <1>2. messages \in Seq(MessageType) /\ Tidy(messages)
    BY DEF Typed, Messages, Sound
  <1>3. s \in Seq(MessageType) /\ Tidy(s) /\ Open(s, {}) /\ NCards(s) = NCards(messages)
        /\ OneEach(s, {})
    BY <1>2, AbandonedIsTidy DEF OneEach
  <1>4. Len(s) = Len(messages)
    BY <1>2, AbandonedTyped
  <1> HIDE DEF s
  <1>5. messages = <<>> => s = <<>>
    BY <1>3, <1>4
  <1>6. Sound(messages', {}) /\ NCards(messages') = NCards(messages)
    BY <1>1, <1>3, ReconciledIsSound
  <1>7. messages = <<>> => messages' = <<>>
    BY <1>1, <1>5 DEF Reconciled
  <1>8. Messages'
    BY <1>1, <1>6, <1>7 DEF Messages, Proposal
  <1>9. spent \in SpentType
    BY DEF Typed
  <1>10. /\ spent'.submits = spent.submits /\ spent'.cards = spent.cards
        /\ spent'.cut = spent.cut + Arrived
    BY <1>9, ReplyingCounts DEF Reload, SpentType
  <1>11. Submitting' = 0 /\ Arrived' = 0
    BY <1>1 DEF Submitting, Arrived
  <1>12. Balance'
    <2>1. CASE gone
      <3>1. spent.submits + Submitting <= spent.cards + spent.cut
        BY <2>1 DEF Balance
      <3>2. spent'.submits + Submitting' <= spent'.cards + spent'.cut
        BY <1>10, <1>11, <3>1, CountsTyped
      <3> QED
        BY <1>1, <2>1, <3>2 DEF Balance
    <2>2. CASE ~gone
      <3>1. spent.submits + NCards(messages) <= spent.cards + spent.cut + Arrived
        BY <2>2 DEF Balance
      <3>2. spent'.submits + NCards(messages') <= spent'.cards + spent'.cut + Arrived'
        BY <1>6, <1>10, <1>11, <3>1, CountsTyped
      <3> QED
        BY <1>1, <2>2, <3>2 DEF Balance
    <2> QED
      BY <2>1, <2>2
  <1> QED
    BY <1>8, <1>12

LEMMA StepKeepsMessages ==
    LockInv /\ Typed /\ Messages /\ Balance /\ [Next]_vars => Messages' /\ Balance'
  <1> SUFFICES ASSUME LockInv, Typed, Messages, Balance, [Next]_vars PROVE Messages' /\ Balance'
    OBVIOUS
  <1>1. Typed'
    BY StepTyped
  <1>2. CASE Send \/ Drain \/ \E v \in Views : Notify(v)
    BY <1>1, <1>2, StartsKeepMessages
  <1>3. CASE PollEnds
    <2>1. CASE UNCHANGED <<messages, spent>>
      BY <1>3, <2>1, IdleKeepsMessages DEF PollEnds, mount
    <2>2. CASE ~gone /\ \E m \in Answers : messages' = Added(messages, m) /\ spent' = CardSpent(m)
      <3>1. PICK m \in {Plain, Card} : messages' = Added(messages, m) /\ spent' = CardSpent(m)
        BY <2>2, AnswersAre
      <3> QED
        BY <1>1, <1>3, <2>2, <3>1, PollKeepsMessages DEF PollEnds, mount
    <2> QED
      BY <1>3, <2>1, <2>2 DEF PollEnds
  <1>4. CASE PollStart \/ NoticeEnds \/ Unlock \/ Leave
    BY <1>4, IdleKeepsMessages DEF PollStart, NoticeEnds, Unlock, Leave, store, mount
  <1>5. ASSUME NEW r \in Refs, Enqueue(r) PROVE Messages' /\ Balance'
    <2>1. spent \in SpentType
      BY DEF Typed
    <2>2. /\ spent'.submits = spent.submits /\ spent'.cards = spent.cards
          /\ spent'.cut = spent.cut
      BY <1>5, <2>1 DEF Enqueue, SpentType
    <2> QED
      BY <1>5, <2>2, IdleKeepsMessages DEF Enqueue, mount
  <1>6. ASSUME NEW v \in Views, Shift(v) \/ QueueSkips(v) \/ QueueTrips(v)
        PROVE  Messages' /\ Balance'
    BY <1>6, IdleKeepsMessages DEF Shift, QueueSkips, QueueTrips, store, mount
  <1>7. ASSUME NEW t \in turns, TurnStep(t) PROVE Messages' /\ Balance'
    BY <1>1, <1>7, TurnKeepsMessages
  <1>8. ASSUME NEW j \in Jobs, JobEnds(j) \/ Fire(j) \/ SkipMonitoring(j)
        PROVE  Messages' /\ Balance'
    BY <1>8, IdleKeepsMessages DEF JobEnds, Fire, SkipMonitoring, store, mount
  <1>9. CASE UNCHANGED vars
    BY <1>9, IdleKeepsMessages DEF vars
  <1> QED
    BY <1>1, <1>2, <1>3, <1>4, <1>5, <1>6, <1>7, <1>8, <1>9, ConfirmKeepsMessages,
       RejectKeepsMessages, EnterKeepsMessages, DeleteKeepsMessages, ReloadKeepsMessages
    DEF Next, QueueStep

LEMMA MessagesInvariant == Spec => [](LockInv /\ Typed /\ Messages /\ Balance)
  <1>1. Init => Messages /\ Balance
    <2> SUFFICES ASSUME Init PROVE Messages /\ Balance
      OBVIOUS
    <2>1. messages = <<>> /\ turns = {} /\ ~gone /\ spent.submits = 0 /\ spent.cards = 0
          /\ spent.cut = 0
      BY DEF Init
    <2>2. Cards(messages) = {}
      BY <2>1 DEF Cards
    <2>3. NCards(messages) = 0
      BY <2>2, FS_EmptySet DEF NCards
    <2> QED
      BY <2>1, <2>3, SoundEmpty DEF Messages, Proposal, Balance, Arrived
  <1> QED
    BY <1>1, LockInvariant, StepKeepsMessages, PTL DEF Spec

(* A placeholder that no request will fill does not stay on display: the    *)
(* mount effect of use-chat.ts marks it as interrupted, and whatever is     *)
(* appended after one that is not reconciled is no placeholder without a    *)
(* turn.                                                                    *)
THEOREM OrphansAreReconciled == Spec => []NoOrphanAtTheEnd
  <1>1. Typed /\ Messages => NoOrphanAtTheEnd
    <2> SUFFICES ASSUME Typed, Messages, turns = {}, Tail_("hole") PROVE FALSE
      BY DEF NoOrphanAtTheEnd
    <2>1. messages \in Seq(MessageType) /\ messages # <<>> /\ Last(messages).kind = "hole"
      BY DEF Typed, Tail_
    <2>2. Len(messages) \in DOMAIN messages
      BY <2>1
    <2>3. Last(messages) = Orphan
      BY <2>1, <2>2 DEF Messages, Sound, Open, Last
    <2> QED
      BY <2>1, <2>3 DEF Messages, Sound, NotAnOrphan
  <1> QED
    BY <1>1, MessagesInvariant, PTL

(* A proposed job makes one job on the server (confirmAction), but for the  *)
(* submissions whose reply was lost: no second submission starts from a     *)
(* card whose first is under way or heard, in whichever view, and what is   *)
(* submitted beside a rejection or a deletion is not proposed any more.     *)
THEOREM ProposalsAreSubmittedOnce == Spec => []CardSubmitsOnce
  <1>1. LockInv /\ Typed /\ Messages /\ Balance => CardSubmitsOnce
    <2> SUFFICES ASSUME LockInv, Typed, Messages, Balance PROVE CardSubmitsOnce
      OBVIOUS
    <2>1. CardsAt = Cards(messages)
      BY DEF CardsAt, Cards
    <2>2. Cardinality(Replying) = Arrived
      BY ReplyingCounts
    <2>3. spent.submits + NCards(messages) <= spent.cards + spent.cut + Arrived
      <3>1. CASE gone
        <4>1. Cards(messages) = {}
          BY <3>1 DEF Messages, Cards
        <4>2. NCards(messages) = 0
          BY <4>1, FS_EmptySet DEF NCards
        <4> QED
          BY <3>1, <4>2, CountsTyped DEF Balance
      <3>2. CASE ~gone
        BY <3>2 DEF Balance
      <3> QED
        BY <3>1, <3>2
    <2> QED
      BY <2>1, <2>2, <2>3 DEF CardSubmitsOnce, NCards
  <1> QED
    BY <1>1, MessagesInvariant, PTL
=============================================================================
