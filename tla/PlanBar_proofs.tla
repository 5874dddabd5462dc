--------------------------- MODULE PlanBar_proofs ---------------------------
(***************************************************************************)
(* The progress bar and the question cards, for any replies of the agent    *)
(* and any number of turns, continuations and failures.  The bar is a walk  *)
(* over all the calls the studio has heard; the proofs say what the walk    *)
(* has collected after each of them, and that a turn adds to what was heard *)
(* what the agent said in it, in its order.                                 *)
(***************************************************************************)
EXTENDS MCPlanBar, Integers, FiniteSetTheorems, SequenceTheorems, TLAPS

-----------------------------------------------------------------------------
(* Induction over the naturals, as the absence of a least counterexample,    *)
(* for sets; and the functions that recursion over a prefix defines.        *)

LEMMA LessIsWellFounded == IsWellFoundedOn({p \in Nat \X Nat : p[1] < p[2]}, Nat)
<1>1. OpToRel(<, Nat) = {p \in Nat \X Nat : p[1] < p[2]}
  BY Zenon DEF OpToRel
<1> QED
  BY <1>1, NatLessThanWellFounded, Zenon

LEMMA Upto ==
  ASSUME NEW n \in Nat, NEW S, 0 \in S, \A i \in 1 .. n : i - 1 \in S => i \in S
  PROVE  \A i \in 0 .. n : i \in S
<1> DEFINE R == {p \in Nat \X Nat : p[1] < p[2]}
           T == {i \in 0 .. n : i \notin S}
<1>1. SUFFICES ASSUME T # {} PROVE FALSE
  OBVIOUS
<1>2. T \in SUBSET Nat
  OBVIOUS
<1>3. \E x \in T : \A y \in T : ~ (<<y, x>> \in R)
  <2> HIDE DEF T
  <2> QED
    BY <1>1, <1>2, LessIsWellFounded, WFMin, Zenon
<1>4. PICK m \in T : \A y \in T : ~ (<<y, m>> \in R)
  BY <1>3
<1>5. m \in 1 .. n /\ m - 1 \in 0 .. n /\ m - 1 \in Nat /\ m \in Nat /\ m - 1 < m
  OBVIOUS
<1>6. m - 1 \in S
  <2>1. <<m - 1, m>> \in Nat \X Nat /\ <<m - 1, m>>[1] = m - 1 /\ <<m - 1, m>>[2] = m
    BY <1>5
  <2>2. <<m - 1, m>> \in R
    BY <1>5, <2>1
  <2> QED
    BY <1>4, <1>5, <2>2
<1> QED
  BY <1>5, <1>6

Walks(A, a, n, G) ==
  \E f \in [0 .. n -> A] : f[0] = a /\ \A i \in 1 .. n : f[i] = G[i][f[i - 1]]

LEMMA Recursion ==
  ASSUME NEW A, NEW a \in A, NEW n \in Nat, NEW G \in [1 .. n -> [A -> A]]
  PROVE  Walks(A, a, n, G)
<1> DEFINE Goes(f, k) == f \in [0 .. k -> A] /\ f[0] = a /\ \A i \in 1 .. k : f[i] = G[i][f[i - 1]]
           S == {k \in 0 .. n : \E f : Goes(f, k)}
<1>1. 0 \in S
  <2>1. Goes([i \in 0 .. 0 |-> a], 0)
    OBVIOUS
  <2>2. 0 \in 0 .. n
    OBVIOUS
  <2> HIDE DEF Goes
  <2> QED
    BY <2>1, <2>2
<1>2. ASSUME NEW k \in 1 .. n, k - 1 \in S PROVE k \in S
  <2>1. PICK f : Goes(f, k - 1)
    BY <1>2
  <2> DEFINE g == [i \in 0 .. k |-> IF i = k THEN G[k][f[k - 1]] ELSE f[i]]
  <2>2. G[k][f[k - 1]] \in A
    BY <2>1
  <2>3. g \in [0 .. k -> A] /\ g[0] = a
    BY <2>1, <2>2
  <2>4. ASSUME NEW i \in 1 .. k PROVE g[i] = G[i][g[i - 1]]
    <3>1. i - 1 \in 0 .. k /\ i - 1 # k /\ g[i - 1] = f[i - 1]
      OBVIOUS
    <3>2. CASE i = k
      BY <3>1, <3>2
    <3>3. CASE i # k
      BY <2>1, <3>1, <3>3
    <3> QED
      BY <3>2, <3>3
  <2>5. Goes(g, k)
    BY <2>3, <2>4
  <2> HIDE DEF Goes
  <2> QED
    BY <2>5
<1>3. n \in S
  <2> HIDE DEF S
  <2>1. \A i \in 0 .. n : i \in S
    BY <1>1, <1>2, Upto
  <2> QED
    BY <2>1
<1>4. PICK f : Goes(f, n)
  BY <1>3
<1> QED
  BY <1>4 DEF Walks

(* Two functions that go the same steps are the same.                       *)
LEMMA SameSteps ==
  ASSUME NEW n \in Nat, NEW f, NEW g, f[0] = g[0],
         \A i \in 1 .. n : f[i - 1] = g[i - 1] => f[i] = g[i]
  PROVE  \A i \in 0 .. n : f[i] = g[i]
<1> DEFINE S == {i \in 0 .. n : f[i] = g[i]}
<1>1. 0 \in S /\ \A i \in 1 .. n : i - 1 \in S => i \in S
  OBVIOUS
<1> HIDE DEF S
<1>2. \A i \in 0 .. n : i \in S
  BY <1>1, Upto
<1> QED
  BY <1>2 DEF S

-----------------------------------------------------------------------------
(* Types.  The provers do not know that a word is a string: those of the      *)
(* module are named beside the strings.                                     *)
Texts == STRING \union Speakers \union
         {NoPhase, NoStep, "signal_phase", "gather", "eval-dataset", "pricing", "submitting",
          "status"}

CallType    == [tool : Texts, phase : Texts, step : Texts]
PlanType    == [phase : Texts, step : Texts, labels : Seq(Texts), ended : BOOLEAN,
                changed : BOOLEAN]
ViewType    == [tools : Seq(CallType), terminal : {FALSE}]
MessageType == [tools : Seq(CallType), terminal : BOOLEAN, asked : Texts]
HistoryType == [user : BOOLEAN, calls : Seq(CallType)]

(* What a call shows, if anything, is a label.                              *)
LEMMA LabelTypes ==
  /\ \A step \in Texts : StepLabel(step) \in Texts
  /\ \A tool \in Texts : ToolLabel(tool) \in Texts
  /\ \A phase, step \in Texts : CollapseSkillStep(phase, step) \in Texts
<1>1. ASSUME NEW step \in Texts PROVE StepLabel(step) \in Texts
  <2>1. CASE step \in {"held-out-ask-count", "held-out-request-help"}
    BY <2>1, Zenon DEF StepLabel, Texts, NoPhase, NoLabel
  <2>2. CASE step \notin {"held-out-ask-count", "held-out-request-help"} /\ step \in Labelled
    BY <2>2 DEF StepLabel
  <2>3. CASE step \notin {"held-out-ask-count", "held-out-request-help"} /\ step \notin Labelled
    BY <2>3, Zenon DEF StepLabel, Texts, NoPhase, NoLabel
  <2> QED
    BY <2>1, <2>2, <2>3
<1>2. ASSUME NEW tool \in Texts PROVE ToolLabel(tool) \in Texts
  <2>1. CASE tool \in {"get_model_pricing", "show_model_pricing"}
    BY <2>1, Zenon DEF ToolLabel, Texts, NoPhase, NoLabel
  <2>2. CASE tool = "create_sdg_job"
    BY <2>2, Zenon DEF ToolLabel, Texts, NoPhase, NoLabel
  <2>3. CASE tool = "get_job_detail"
    BY <2>3, Zenon DEF ToolLabel, Texts, NoPhase, NoLabel
  <2>4. CASE tool \notin {"get_model_pricing", "show_model_pricing", "create_sdg_job", "get_job_detail"}
    BY <2>4, Zenon DEF ToolLabel, Texts, NoPhase, NoLabel
  <2> QED
    BY <2>1, <2>2, <2>3, <2>4
<1>3. ASSUME NEW phase \in Texts, NEW step \in Texts PROVE CollapseSkillStep(phase, step) \in Texts
  BY Zenon DEF CollapseSkillStep, Texts, NoPhase, NoLabel
<1> QED
  BY <1>1, <1>2, <1>3

(* A label is added to the steps, once, and nothing else of the plan changes. *)
LEMMA AddsLabel ==
  ASSUME NEW p \in PlanType, NEW label \in Texts
  PROVE  /\ WithLabel(p, label) \in PlanType
         /\ WithLabel(p, label).phase = p.phase /\ WithLabel(p, label).ended = p.ended
         /\ Range(WithLabel(p, label).labels) = Range(p.labels) \union ({label} \ {NoLabel})
<1>1. CASE label = NoLabel \/ label \in Range(p.labels)
  BY <1>1 DEF WithLabel, PlanType
<1>2. CASE ~(label = NoLabel \/ label \in Range(p.labels))
  <2> DEFINE ls == Append(p.labels, label)
  <2>1. p.labels \in Seq(Texts)
    BY DEF PlanType
  <2>2. ls \in Seq(Texts) /\ Len(ls) = Len(p.labels) + 1 /\ ls[Len(p.labels) + 1] = label
        /\ DOMAIN ls = 1 .. Len(p.labels) + 1 /\ DOMAIN p.labels = 1 .. Len(p.labels)
        /\ \A i \in 1 .. Len(p.labels) : ls[i] = p.labels[i]
    BY <2>1
  <2>3. WithLabel(p, label) = [p EXCEPT !.labels = ls]
    BY <1>2 DEF WithLabel
  <2> HIDE DEF ls
  <2>4. Range(ls) = Range(p.labels) \union {label}
    BY <2>2, <2>1 DEF Range
  <2> QED
    BY <1>2, <2>2, <2>3, <2>4 DEF PlanType
<1> QED
  BY <1>1, <1>2

(* The signals that count among the calls, and the phase of the last.       *)
Signals(h) == {i \in DOMAIN h : Counts(h[i])}

LastSaid(h, ph) ==
  IF Signals(h) = {} THEN ph = NoPhase
  ELSE \E j \in Signals(h) : (\A k \in Signals(h) : k <= j) /\ h[j].phase = ph

LEMMA AppendedCall ==
  ASSUME NEW h \in Seq(CallType), NEW c \in CallType
  PROVE  /\ Append(h, c) \in Seq(CallType) /\ Len(Append(h, c)) = Len(h) + 1
         /\ DOMAIN Append(h, c) = DOMAIN h \union {Len(h) + 1}
         /\ \A i \in DOMAIN h : i \in Nat /\ i <= Len(h) /\ Append(h, c)[i] = h[i]
         /\ Append(h, c)[Len(h) + 1] = c /\ Len(h) \in Nat
         /\ Signals(Append(h, c)) = Signals(h) \union (IF Counts(c) THEN {Len(h) + 1} ELSE {})
<1> DEFINE g == Append(h, c)
<1>1. /\ g \in Seq(CallType) /\ Len(g) = Len(h) + 1 /\ DOMAIN g = DOMAIN h \union {Len(h) + 1}
      /\ \A i \in DOMAIN h : i \in Nat /\ i <= Len(h) /\ g[i] = h[i]
      /\ g[Len(h) + 1] = c /\ Len(h) \in Nat
  OBVIOUS
<1> HIDE DEF g
<1>2. Signals(g) = Signals(h) \union (IF Counts(c) THEN {Len(h) + 1} ELSE {})
  BY <1>1 DEF Signals
<1> QED
  BY <1>1, <1>2 DEF g

LEMMA SaidAfterCall ==
  ASSUME NEW h \in Seq(CallType), NEW c \in CallType, NEW ph, LastSaid(h, ph)
  PROVE  LastSaid(Append(h, c), IF Counts(c) THEN c.phase ELSE ph)
<1> DEFINE g == Append(h, c)
<1>1. CASE Counts(c)
  <2>1. Signals(g) = Signals(h) \union {Len(h) + 1} /\ g[Len(h) + 1] = c /\ Len(h) \in Nat
        /\ \A i \in Signals(h) : i \in Nat /\ i <= Len(h)
    BY <1>1, AppendedCall DEF Signals
  <2> HIDE DEF g
  <2>2. Len(h) + 1 \in Signals(g) /\ \A k \in Signals(g) : k <= Len(h) + 1
    BY <2>1
  <2>3. LastSaid(g, c.phase)
    BY <2>1, <2>2, Zenon DEF LastSaid
  <2> QED
    BY <1>1, <2>3 DEF g
<1>2. CASE ~Counts(c)
  <2>1. Signals(g) = Signals(h) /\ \A i \in Signals(h) : g[i] = h[i]
    BY <1>2, AppendedCall DEF Signals
  <2> HIDE DEF g
  <2>2. LastSaid(g, ph)
    <3>1. CASE Signals(h) = {}
      BY <2>1, <3>1 DEF LastSaid
    <3>2. CASE Signals(h) # {}
      <4>1. PICK j \in Signals(h) : (\A k \in Signals(h) : k <= j) /\ h[j].phase = ph
        BY <3>2 DEF LastSaid
      <4>2. j \in Signals(g) /\ (\A k \in Signals(g) : k <= j) /\ g[j].phase = ph
        BY <2>1, <4>1
      <4> QED
        BY <2>1, <3>2, <4>2, Zenon DEF LastSaid
    <3> QED
      BY <3>1, <3>2
  <2> QED
    BY <1>2, <2>2 DEF g
<1> QED
  BY <1>1, <1>2

(* A phase is one of the phases, or none has been said.                     *)
LEMMA SaidIsPhase ==
  ASSUME NEW h, NEW ph, LastSaid(h, ph)
  PROVE  ph = NoPhase <=> Signals(h) = {}
  BY DEF LastSaid, Signals, Counts, Phases, NoPhase

(* What was reached, as a set of calls: a signal of another phase than the   *)
(* one said before starts over, any other call adds what it shows.          *)
Since(h) == {i \in DOMAIN h : \A c \in Changes(h) : c <= i}

LEMMA ReachedIs ==
  ASSUME NEW h
  PROVE  /\ Reached(h) = {Label(h[i]) : i \in Since(h)} \ {NoLabel}
         /\ Changes(h) = {i \in Signals(h) : \E j \in Signals(h) :
              /\ j < i /\ h[j].phase # h[i].phase
              /\ \A k \in Signals(h) : k <= j \/ i <= k}
  BY DEF Reached, Since, Changes, Where, Signals

Enters(c, ph) == Counts(c) /\ ph # NoPhase /\ c.phase # ph

LEMMA ChangesAfterCall ==
  ASSUME NEW h \in Seq(CallType), NEW c \in CallType, NEW ph, LastSaid(h, ph)
  PROVE  Changes(Append(h, c)) = Changes(h) \union (IF Enters(c, ph) THEN {Len(h) + 1} ELSE {})
<1> DEFINE g == Append(h, c)
           n == Len(h) + 1
           Shifts(x, i) == \E j \in Signals(x) :
                             /\ j < i /\ x[j].phase # x[i].phase
                             /\ \A k \in Signals(x) : k <= j \/ i <= k
<1>1. /\ Signals(g) = Signals(h) \union (IF Counts(c) THEN {n} ELSE {})
      /\ \A i \in Signals(h) : i \in Nat /\ i < n /\ g[i] = h[i]
      /\ g[n] = c /\ n \in Nat
  BY AppendedCall DEF Signals
<1>2. Changes(h) = {i \in Signals(h) : Shifts(h, i)} /\ Changes(g) = {i \in Signals(g) : Shifts(g, i)}
  BY ReachedIs
<1> HIDE DEF g, n
<1>3. ASSUME NEW i \in Signals(h) PROVE Shifts(g, i) <=> Shifts(h, i)
  <2>1. ASSUME NEW j \in Signals(h)
        PROVE  (\A k \in Signals(g) : k <= j \/ i <= k) <=> (\A k \in Signals(h) : k <= j \/ i <= k)
    BY <1>1
  <2>2. \A j \in Signals(g) : j < i => j \in Signals(h)
    BY <1>1
  <2>3. ASSUME NEW j \in Signals(h) PROVE g[j] = h[j] /\ g[i] = h[i] /\ j \in Signals(g)
    BY <1>1
  <2> QED
    BY <2>1, <2>2, <2>3
<1>4. ASSUME Counts(c) PROVE Shifts(g, n) <=> Enters(c, ph)
  <2>1. CASE Signals(h) = {}
    <3>1. ph = NoPhase /\ Signals(g) = {n}
      BY <1>1, <1>4, <2>1 DEF LastSaid
    <3> QED
      BY <1>1, <3>1 DEF Enters
  <2>2. CASE Signals(h) # {}
    <3>1. PICK j \in Signals(h) : (\A k \in Signals(h) : k <= j) /\ h[j].phase = ph
      BY <2>2 DEF LastSaid
    <3>2. ph # NoPhase
      BY <2>2, SaidIsPhase
    <3>3. j \in Signals(g) /\ j < n /\ g[j].phase = ph /\ \A k \in Signals(g) : k <= j \/ n <= k
      BY <1>1, <1>4, <3>1
    <3>4. ASSUME NEW l \in Signals(g), l < n, \A k \in Signals(g) : k <= l \/ n <= k PROVE l = j
      <4>1. l \in Signals(h) /\ l \in Nat /\ j \in Nat
        BY <1>1, <3>1, <3>4
      <4>2. l <= j /\ (j <= l \/ n <= j)
        BY <3>1, <3>3, <3>4, <4>1
      <4> QED
        BY <1>1, <3>3, <4>1, <4>2
    <3> QED
      BY <1>1, <1>4, <3>2, <3>3, <3>4 DEF Enters
  <2> QED
    BY <2>1, <2>2
<1>5. Changes(g) = Changes(h) \union (IF Enters(c, ph) THEN {n} ELSE {})
  <2> HIDE DEF Shifts
  <2>1. CASE Counts(c)
    BY <1>1, <1>2, <1>3, <1>4, <2>1
  <2>2. CASE ~Counts(c)
    BY <1>1, <1>2, <1>3, <2>2 DEF Enters
  <2> QED
    BY <2>1, <2>2
<1> QED
  BY <1>5 DEF g, n

LEMMA ReachedAfterCall ==
  ASSUME NEW h \in Seq(CallType), NEW c \in CallType, NEW ph, LastSaid(h, ph)
  PROVE  Reached(Append(h, c)) = (IF Enters(c, ph) THEN {} ELSE Reached(h))
                                   \union ({Label(c)} \ {NoLabel})
<1> DEFINE g == Append(h, c)
           n == Len(h) + 1
<1>1. /\ DOMAIN g = DOMAIN h \union {n} /\ g[n] = c /\ n \in Nat
      /\ \A i \in DOMAIN h : i \in Nat /\ i < n /\ g[i] = h[i]
  BY AppendedCall
<1>2. Changes(g) = Changes(h) \union (IF Enters(c, ph) THEN {n} ELSE {})
      /\ Changes(h) \subseteq DOMAIN h
  BY ChangesAfterCall, ReachedIs DEF Signals
<1>3. Reached(g) = {Label(g[i]) : i \in Since(g)} \ {NoLabel}
      /\ Reached(h) = {Label(h[i]) : i \in Since(h)} \ {NoLabel}
  BY ReachedIs
<1> HIDE DEF g, n
<1>4. CASE Enters(c, ph)
  <2>1. Since(g) = {n}
    BY <1>1, <1>2, <1>4 DEF Since
  <2> QED
    BY <1>1, <1>3, <1>4, <2>1 DEF g
<1>5. CASE ~Enters(c, ph)
  <2>1. Since(g) = Since(h) \union {n}
    BY <1>1, <1>2, <1>5 DEF Since
  <2>2. \A i \in Since(h) : g[i] = h[i]
    BY <1>1 DEF Since
  <2>3. {Label(g[i]) : i \in Since(g)} = {Label(h[i]) : i \in Since(h)} \union {Label(c)}
    BY <1>1, <2>1, <2>2
  <2> QED
    BY <1>3, <1>5, <2>3 DEF g
<1> QED
  BY <1>4, <1>5

(* The plan of the calls heard so far: its phase is the one last said, its   *)
(* steps are those reached since.                                           *)
PlanOf(h, p) ==
  /\ p \in PlanType /\ ~p.ended
  /\ LastSaid(h, p.phase)
  /\ Range(p.labels) = Reached(h)

LEMMA PlanAfterCall ==
  ASSUME NEW h \in Seq(CallType), NEW c \in CallType, NEW p, PlanOf(h, p)
  PROVE  PlanOf(Append(h, c), WithCall(p, c))
<1> DEFINE g == Append(h, c)
           ph == IF Counts(c) THEN c.phase ELSE p.phase
<1>1. p \in PlanType /\ ~p.ended /\ LastSaid(h, p.phase) /\ Range(p.labels) = Reached(h)
  BY DEF PlanOf
<1>2. LastSaid(g, ph)
  BY <1>1, SaidAfterCall
<1>3. Reached(g) = (IF Enters(c, p.phase) THEN {} ELSE Reached(h)) \union ({Label(c)} \ {NoLabel})
  BY <1>1, ReachedAfterCall
<1>4. c.tool \in Texts /\ c.phase \in Texts /\ c.step \in Texts
  BY DEF CallType
<1> HIDE DEF g
<1>5. CASE Counts(c)
  <2> DEFINE step == CollapseSkillStep(c.phase, c.step)
             q == IF StartsOver(p, c.phase)
                  THEN [p EXCEPT !.labels = <<>>, !.ended = FALSE,
                                 !.changed = @ \/ c.phase # p.phase]
                  ELSE p
             r == [q EXCEPT !.phase = c.phase, !.step = step]
             label == StepLabel(step)
  <2>1. WithCall(p, c) = WithLabel(r, label)
    BY <1>5, Zenon DEF WithCall, Signalled, Counts
  <2>2. step \in Texts /\ label \in Texts
    BY <1>4, LabelTypes
  <2>3. StartsOver(p, c.phase) <=> Enters(c, p.phase)
    BY <1>1, <1>5, Zenon DEF StartsOver, Enters
  <2>4. Label(c) = label
    BY <1>5 DEF Label, Counts
  <2> HIDE DEF step, label
  <2>5. /\ q \in PlanType /\ ~q.ended
        /\ q.labels = IF Enters(c, p.phase) THEN <<>> ELSE p.labels
    <3>1. CASE Enters(c, p.phase)
      <4>1. <<>> \in Seq(Texts)
        OBVIOUS
      <4> QED
        BY <1>1, <2>3, <3>1, <4>1 DEF PlanType
    <3>2. CASE ~Enters(c, p.phase)
      BY <1>1, <2>3, <3>2
    <3> QED
      BY <3>1, <3>2
  <2> HIDE DEF q
  <2>6. r \in PlanType /\ ~r.ended /\ r.labels = q.labels /\ r.phase = c.phase
    BY <1>4, <2>2, <2>5 DEF PlanType
  <2> HIDE DEF r
  <2>7. /\ WithLabel(r, label) \in PlanType /\ ~WithLabel(r, label).ended
        /\ WithLabel(r, label).phase = ph
        /\ Range(WithLabel(r, label).labels) = Range(r.labels) \union ({label} \ {NoLabel})
    BY <1>5, <2>2, <2>6, AddsLabel
  <2>8. Range(r.labels) = IF Enters(c, p.phase) THEN {} ELSE Reached(h)
    BY <1>1, <2>5, <2>6 DEF Range
  <2>9. Range(WithLabel(r, label).labels) = Reached(g)
    BY <1>3, <2>4, <2>7, <2>8
  <2> QED
    BY <1>2, <2>1, <2>7, <2>9 DEF PlanOf, g
<1>6. CASE ~Counts(c) /\ IsSignal(c)
  <2>1. WithCall(p, c) = p
    BY <1>6 DEF WithCall
  <2>2. Label(c) = NoLabel /\ ~Enters(c, p.phase)
    BY <1>6 DEF Label, Enters
  <2>3. Reached(g) = Reached(h)
    BY <1>3, <2>2
  <2> QED
    BY <1>1, <1>2, <1>6, <2>1, <2>3 DEF PlanOf, g
<1>7. CASE ~IsSignal(c)
  <2>1. ~Counts(c)
    BY <1>7 DEF Counts
  <2>2. WithCall(p, c) = WithLabel(p, ToolLabel(c.tool))
    BY <1>7, <2>1 DEF WithCall
  <2>3. Label(c) = ToolLabel(c.tool) /\ ~Enters(c, p.phase) /\ ToolLabel(c.tool) \in Texts
    BY <1>4, <1>7, <2>1, LabelTypes DEF Label, Enters
  <2>4. /\ WithCall(p, c) \in PlanType /\ WithCall(p, c).phase = p.phase /\ ~WithCall(p, c).ended
        /\ Range(WithCall(p, c).labels) = Range(p.labels) \union ({Label(c)} \ {NoLabel})
    BY <1>1, <2>2, <2>3, AddsLabel
  <2>5. Range(WithCall(p, c).labels) = Reached(g)
    BY <1>1, <1>3, <2>3, <2>4
  <2> QED
    BY <1>2, <2>1, <2>4, <2>5 DEF PlanOf, g
<1> QED
  BY <1>5, <1>6, <1>7

-----------------------------------------------------------------------------
(* The walks over the calls of a message and over the messages.              *)
LEMMA CallKeepsType ==
  ASSUME NEW p \in PlanType, NEW c \in CallType
  PROVE  WithCall(p, c) \in PlanType
<1>1. c.tool \in Texts /\ c.phase \in Texts /\ c.step \in Texts
  BY DEF CallType
<1>2. CASE Counts(c)
  <2> DEFINE step == CollapseSkillStep(c.phase, c.step)
             q == IF StartsOver(p, c.phase)
                  THEN [p EXCEPT !.labels = <<>>, !.ended = FALSE,
                                 !.changed = @ \/ c.phase # p.phase]
                  ELSE p
             r == [q EXCEPT !.phase = c.phase, !.step = step]
  <2>1. WithCall(p, c) = WithLabel(r, StepLabel(step))
    BY <1>2, Zenon DEF WithCall, Signalled, Counts
  <2>2. step \in Texts /\ StepLabel(step) \in Texts
    BY <1>1, LabelTypes
  <2> HIDE DEF step
  <2>3. <<>> \in Seq(Texts)
    OBVIOUS
  <2>4. q \in PlanType
    BY <2>3 DEF PlanType
  <2> HIDE DEF q
  <2>5. r \in PlanType
    BY <1>1, <2>2, <2>4 DEF PlanType
  <2> QED
    BY <2>1, <2>2, <2>5, AddsLabel
<1>3. CASE ~Counts(c) /\ IsSignal(c)
  BY <1>3 DEF WithCall
<1>4. CASE ~IsSignal(c)
  <2>1. WithCall(p, c) = WithLabel(p, ToolLabel(c.tool))
    BY <1>4, Zenon DEF WithCall, Counts
  <2> QED
    BY <1>1, <2>1, LabelTypes, AddsLabel
<1> QED
  BY <1>2, <1>3, <1>4

LEMMA WalkOfCalls ==
  ASSUME NEW p \in PlanType, NEW calls \in Seq(CallType)
  PROVE  /\ AfterCalls(p, calls) \in [0 .. Len(calls) -> PlanType]
         /\ AfterCalls(p, calls)[0] = p
         /\ \A i \in 1 .. Len(calls) :
              AfterCalls(p, calls)[i] = WithCall(AfterCalls(p, calls)[i - 1], calls[i])
<1> DEFINE n == Len(calls)
           G == [i \in 1 .. n |-> [q \in PlanType |-> WithCall(q, calls[i])]]
           Is(f) == f = [i \in 0 .. n |-> IF i = 0 THEN p ELSE WithCall(f[i - 1], calls[i])]
<1>1. n \in Nat /\ \A i \in 1 .. n : calls[i] \in CallType
  OBVIOUS
<1> HIDE DEF n
<1>2. G \in [1 .. n -> [PlanType -> PlanType]]
  BY <1>1, CallKeepsType
<1>3. PICK f \in [0 .. n -> PlanType] : f[0] = p /\ \A i \in 1 .. n : f[i] = G[i][f[i - 1]]
  <2> HIDE DEF G
  <2>1. Walks(PlanType, p, n, G)
    BY <1>1, <1>2, Recursion
  <2> QED
    BY <2>1 DEF Walks
<1>4. \A i \in 1 .. n : f[i] = WithCall(f[i - 1], calls[i])
  BY <1>1, <1>3
<1>5. Is(f)
  <2>1. \A i \in 0 .. n : f[i] = IF i = 0 THEN p ELSE WithCall(f[i - 1], calls[i])
    BY <1>3, <1>4
  <2> QED
    BY <1>3, <2>1
<1> DEFINE after == AfterCalls(p, calls)
<1>6. after = CHOOSE g : Is(g)
  BY DEF AfterCalls, n
<1> HIDE DEF after
<1>7. Is(after)
  <2> HIDE DEF Is
  <2> QED
    BY <1>5, <1>6, Zenon
<1>8. after[0] = p /\ \A i \in 1 .. n : after[i] = WithCall(after[i - 1], calls[i])
  BY <1>1, <1>7
<1>9. \A i \in 0 .. n : after[i] = f[i]
  <2> HIDE DEF Is
  <2>1. \A i \in 1 .. n : after[i - 1] = f[i - 1] => after[i] = f[i]
    BY <1>4, <1>8
  <2>2. after[0] = f[0]
    BY <1>3, <1>8
  <2> QED
    BY <1>1, <2>1, <2>2, SameSteps
<1>10. after \in [0 .. n -> PlanType]
  BY <1>3, <1>7, <1>9
<1> QED
  BY <1>8, <1>10 DEF after, n

LEMMA MessageKeepsType ==
  ASSUME NEW p \in PlanType, NEW m \in ViewType
  PROVE  WithMessage(p, m) \in PlanType
<1> DEFINE p0 == [p EXCEPT !.changed = FALSE]
           q == AfterCalls(p0, m.tools)[Len(m.tools)]
<1>1. p0 \in PlanType /\ m.tools \in Seq(CallType) /\ m.terminal = FALSE
  BY DEF PlanType, ViewType
<1> HIDE DEF p0
<1>2. AfterCalls(p0, m.tools) \in [0 .. Len(m.tools) -> PlanType] /\ Len(m.tools) \in 0 .. Len(m.tools)
  BY <1>1, WalkOfCalls
<1>3. q \in PlanType
  BY <1>2
<1>4. WithMessage(p, m) = [q EXCEPT !.ended = @ \/ (m.terminal /\ ~q.changed)]
  BY DEF WithMessage, p0
<1> HIDE DEF q
<1> QED
  BY <1>1, <1>3, <1>4 DEF PlanType

LEMMA WalkOfMessages ==
  ASSUME NEW ms \in Seq(ViewType)
  PROVE  /\ AfterMessages(ms)[0] = NoPlan
         /\ \A i \in 1 .. Len(ms) : AfterMessages(ms)[i] = WithMessage(AfterMessages(ms)[i - 1], ms[i])
<1> DEFINE n == Len(ms)
           G == [i \in 1 .. n |-> [q \in PlanType |-> WithMessage(q, ms[i])]]
           Is(f) == f = [i \in 0 .. n |-> IF i = 0 THEN NoPlan ELSE WithMessage(f[i - 1], ms[i])]
<1>1. n \in Nat /\ \A i \in 1 .. n : ms[i] \in ViewType
  OBVIOUS
<1> HIDE DEF n
<1>2. G \in [1 .. n -> [PlanType -> PlanType]]
  BY <1>1, MessageKeepsType
<1>3. NoPlan \in PlanType
  <2>1. <<>> \in Seq(Texts)
    OBVIOUS
  <2>2. NoPhase \in Texts /\ NoStep \in Texts
    BY Zenon DEF Texts
  <2> QED
    BY <2>1, <2>2 DEF NoPlan, PlanType
<1>4. PICK f \in [0 .. n -> PlanType] : f[0] = NoPlan /\ \A i \in 1 .. n : f[i] = G[i][f[i - 1]]
  <2> HIDE DEF G
  <2>1. Walks(PlanType, NoPlan, n, G)
    BY <1>1, <1>2, <1>3, Recursion
  <2> QED
    BY <2>1 DEF Walks
<1>5. Is(f)
  <2>1. \A i \in 1 .. n : f[i] = WithMessage(f[i - 1], ms[i])
    BY <1>1, <1>4
  <2>2. \A i \in 0 .. n : f[i] = IF i = 0 THEN NoPlan ELSE WithMessage(f[i - 1], ms[i])
    BY <1>4, <2>1
  <2> QED
    BY <1>4, <2>2
<1> DEFINE after == AfterMessages(ms)
<1>6. after = CHOOSE g : Is(g)
  BY DEF AfterMessages, n
<1> HIDE DEF after
<1>7. Is(after)
  <2> HIDE DEF Is
  <2> QED
    BY <1>5, <1>6, Zenon
<1>8. after[0] = NoPlan /\ \A i \in 1 .. n : after[i] = WithMessage(after[i - 1], ms[i])
  BY <1>1, <1>7
<1> QED
  BY <1>8 DEF after, n

(* A conversation flattened is a walk too, and one more message adds its     *)
(* calls at the end.                                                        *)
Flattens(f, s) ==
  /\ f[0] = <<>> /\ f[Len(s)] = FlattenSeq(s)
  /\ \A i \in 1 .. Len(s) : f[i] = f[i - 1] \o s[i]

HasFlat(A, s) == \E f \in [0 .. Len(s) -> Seq(A)] : Flattens(f, s)

LEMMA WalkOfFlatten ==
  ASSUME NEW A, NEW s \in Seq(Seq(A))
  PROVE  HasFlat(A, s)
<1> DEFINE n == Len(s)
           G == [i \in 1 .. n |-> [q \in Seq(A) |-> q \o s[i]]]
           Is(f) == f = [i \in 1 .. n |-> IF i = 1 THEN s[i] ELSE f[i - 1] \o s[i]]
<1>1. n \in Nat /\ \A i \in 1 .. n : s[i] \in Seq(A)
  OBVIOUS
<1>2. CASE n = 0
  <2>1. s = <<>> /\ FlattenSeq(s) = <<>>
    BY <1>2 DEF FlattenSeq
  <2> DEFINE f == [i \in 0 .. n |-> <<>>]
  <2>2. <<>> \in Seq(A) /\ n \in 0 .. n
    BY <1>2
  <2>3. f \in [0 .. n -> Seq(A)] /\ f[0] = <<>> /\ f[n] = FlattenSeq(s)
    BY <1>2, <2>1, <2>2
  <2>4. \A i \in 1 .. n : f[i] = f[i - 1] \o s[i]
    BY <1>2
  <2> HIDE DEF f
  <2> QED
    BY <2>3, <2>4 DEF HasFlat, Flattens
<1>3. CASE n # 0
  <2>1. FlattenSeq(s) = (CHOOSE g : Is(g))[n]
    BY <1>3 DEF FlattenSeq
  <2> HIDE DEF n
  <2>2. G \in [1 .. n -> [Seq(A) -> Seq(A)]] /\ <<>> \in Seq(A)
    BY <1>1
  <2>3. PICK f \in [0 .. n -> Seq(A)] : f[0] = <<>> /\ \A i \in 1 .. n : f[i] = G[i][f[i - 1]]
    <3> HIDE DEF G
    <3>1. Walks(Seq(A), <<>>, n, G)
      BY <1>1, <2>2, Recursion
    <3> QED
      BY <3>1 DEF Walks
  <2>4. ASSUME NEW i \in 1 .. n PROVE f[i] = f[i - 1] \o s[i]
    <3>1. i - 1 \in 0 .. n /\ f[i - 1] \in Seq(A) /\ f[i] = G[i][f[i - 1]]
      <4> HIDE DEF G
      <4> QED
        BY <1>1, <2>3
    <3>2. G[i] = [q \in Seq(A) |-> q \o s[i]]
      BY Zenon
    <3> QED
      BY <3>1, <3>2, Zenon
  <2> DEFINE h == [i \in 1 .. n |-> f[i]]
  <2>5. Is(h)
    <3>1. ASSUME NEW i \in 1 .. n PROVE h[i] = IF i = 1 THEN s[i] ELSE h[i - 1] \o s[i]
      <4>1. CASE i = 1
        <5> HIDE DEF G
        <5>1. f[i] = f[i - 1] \o s[i] /\ i - 1 = 0 /\ s[i] \in Seq(A)
          <6>1. i - 1 = 0
            BY <4>1
          <6> QED
            BY <1>1, <2>4, <6>1
        <5>2. f[i] = <<>> \o s[i]
          BY <2>3, <5>1
        <5>3. <<>> \o s[i] = s[i]
          BY <5>1
        <5> QED
          BY <4>1, <5>2, <5>3
      <4>2. CASE i # 1
        <5>1. i - 1 \in 1 .. n /\ h[i - 1] = f[i - 1]
          BY <1>1, <4>2
        <5> QED
          BY <2>4, <4>2, <5>1
      <4> QED
        BY <4>1, <4>2
    <3> QED
      BY <3>1
  <2> DEFINE flat == CHOOSE g : Is(g)
  <2>6. Is(flat)
    <3> HIDE DEF Is
    <3> QED
      BY <2>5, Zenon
  <2> HIDE DEF flat
  <2> DEFINE S == {0} \union {i \in 1 .. n : flat[i] = f[i]}
  <2>7. ASSUME NEW i \in 1 .. n, i - 1 \in S PROVE i \in S
    <3>1. CASE i = 1
      <4>1. flat[1] = s[1] /\ h[1] = s[1] /\ h[1] = f[1]
        BY <2>5, <2>6, <3>1
      <4> QED
        BY <3>1, <4>1
    <3>2. CASE i # 1
      <4>1. i - 1 \in 1 .. n /\ flat[i - 1] = f[i - 1]
        BY <1>1, <2>7, <3>2
      <4>2. flat[i] = flat[i - 1] \o s[i]
        BY <2>6, <3>2
      <4> QED
        BY <2>4, <4>1, <4>2
    <3> QED
      BY <3>1, <3>2
  <2>8. \A i \in 0 .. n : i \in S
    <3>1. 0 \in S
      OBVIOUS
    <3> HIDE DEF S
    <3> QED
      BY <1>1, <2>7, <3>1, Upto
  <2>9. flat[n] = f[n]
    BY <1>1, <1>3, <2>8
  <2> QED
    BY <2>1, <2>3, <2>4, <2>9 DEF flat, n, HasFlat, Flattens
<1> QED
  BY <1>2, <1>3

LEMMA OneMore ==
  ASSUME NEW A, NEW h \in Seq(A), NEW s \in Seq(A), NEW i \in 1 .. Len(s)
  PROVE  /\ s[i] \in A /\ SubSeq(s, 1, i - 1) \in Seq(A) /\ h \o SubSeq(s, 1, i - 1) \in Seq(A)
         /\ h \o SubSeq(s, 1, i) = Append(h \o SubSeq(s, 1, i - 1), s[i])
<1> DEFINE a == SubSeq(s, 1, i)
           b == SubSeq(s, 1, i - 1)
           u == h \o a
           v == Append(h \o b, s[i])
<1>1. /\ s[i] \in A /\ i \in Nat /\ i <= Len(s) /\ i - 1 \in Nat /\ i - 1 <= Len(s)
      /\ Len(h) \in Nat /\ \A k \in 1 .. Len(s) : s[k] \in A
  OBVIOUS
<1>2. /\ a \in Seq(A) /\ Len(a) = i /\ \A k \in 1 .. i : a[k] = s[k]
      /\ b \in Seq(A) /\ Len(b) = i - 1 /\ \A k \in 1 .. i - 1 : b[k] = s[k]
  BY <1>1
<1> HIDE DEF a, b
<1>3. /\ u \in Seq(A) /\ Len(u) = Len(h) + i
      /\ \A k \in 1 .. Len(h) + i : u[k] = IF k <= Len(h) THEN h[k] ELSE a[k - Len(h)]
  BY <1>1, <1>2, ConcatProperties
<1>4. /\ h \o b \in Seq(A) /\ Len(h \o b) = Len(h) + i - 1
      /\ \A k \in 1 .. Len(h) + i - 1 : (h \o b)[k] = IF k <= Len(h) THEN h[k] ELSE b[k - Len(h)]
  <2>1. Len(h) + Len(b) = Len(h) + i - 1
    BY <1>1, <1>2
  <2>2. /\ h \o b \in Seq(A) /\ Len(h \o b) = Len(h) + Len(b)
        /\ \A k \in 1 .. Len(h) + Len(b) : (h \o b)[k] = IF k <= Len(h) THEN h[k] ELSE b[k - Len(h)]
    BY <1>2, ConcatProperties
  <2> QED
    BY <2>1, <2>2
<1>5. /\ v \in Seq(A) /\ Len(v) = Len(h) + i /\ v[Len(h) + i] = s[i]
      /\ \A k \in 1 .. Len(h) + i - 1 : v[k] = (h \o b)[k]
  BY <1>1, <1>4
<1> HIDE DEF u, v
<1>6. ASSUME NEW k \in 1 .. Len(h) + i PROVE u[k] = v[k]
  <2>1. CASE k = Len(h) + i
    <3>1. k - Len(h) = i /\ ~(k <= Len(h)) /\ i \in 1 .. i
      BY <1>1, <2>1
    <3> QED
      BY <1>2, <1>3, <1>5, <2>1, <3>1
  <2>2. CASE k # Len(h) + i /\ k <= Len(h)
    <3>1. k \in 1 .. Len(h) + i - 1
      BY <1>1, <2>2
    <3> QED
      BY <1>3, <1>4, <1>5, <2>2, <3>1
  <2>3. CASE k # Len(h) + i /\ ~(k <= Len(h))
    <3>1. k \in 1 .. Len(h) + i - 1 /\ k - Len(h) \in 1 .. i - 1 /\ k - Len(h) \in 1 .. i
      BY <1>1, <2>3
    <3> QED
      BY <1>2, <1>3, <1>4, <1>5, <2>3, <3>1
  <2> QED
    BY <2>1, <2>2, <2>3
<1>7. u = v
  BY <1>3, <1>5, <1>6, SeqEqual
<1>8. s[i] \in A /\ b \in Seq(A) /\ h \o b \in Seq(A)
  BY <1>1, <1>2, <1>4
<1>9. h \o a = Append(h \o b, s[i])
  BY <1>7 DEF u, v
<1> HIDE DEF u, v
<1> QED
  BY <1>8, <1>9 DEF a, b

LEMMA NoneOrAll ==
  ASSUME NEW A, NEW h \in Seq(A), NEW s \in Seq(A)
  PROVE  h \o SubSeq(s, 1, 0) = h /\ SubSeq(s, 1, Len(s)) = s /\ h \o <<>> = h /\ <<>> \o h = h
<1>1. SubSeq(s, 1, 0) = <<>>
  OBVIOUS
<1>2. h \o <<>> = h /\ <<>> \o h = h
  OBVIOUS
<1>3. SubSeq(s, 1, Len(s)) = s
  OBVIOUS
<1> QED
  BY <1>1, <1>2, <1>3

LEMMA PlanAfterCalls ==
  ASSUME NEW h \in Seq(CallType), NEW p, PlanOf(h, p), NEW calls \in Seq(CallType)
  PROVE  PlanOf(h \o calls, AfterCalls(p, calls)[Len(calls)])
<1> DEFINE n == Len(calls)
           after == AfterCalls(p, calls)
           S == {i \in 0 .. n : PlanOf(h \o SubSeq(calls, 1, i), after[i])}
<1>1. p \in PlanType /\ n \in Nat
  BY DEF PlanOf
<1>2. after[0] = p /\ \A i \in 1 .. n : after[i] = WithCall(after[i - 1], calls[i])
  BY <1>1, WalkOfCalls
<1> HIDE DEF after
<1>3. 0 \in S
  <2>1. h \o SubSeq(calls, 1, 0) = h
    BY NoneOrAll
  <2>2. PlanOf(h \o SubSeq(calls, 1, 0), after[0])
    BY <1>2, <2>1
  <2>3. 0 \in 0 .. n
    BY <1>1
  <2> QED
    BY <2>2, <2>3
<1>4. ASSUME NEW i \in 1 .. n, i - 1 \in S PROVE i \in S
  <2>1. PlanOf(h \o SubSeq(calls, 1, i - 1), after[i - 1])
    BY <1>4
  <2>2. PlanOf(Append(h \o SubSeq(calls, 1, i - 1), calls[i]), WithCall(after[i - 1], calls[i]))
    BY <2>1, OneMore, PlanAfterCall
  <2>3. h \o SubSeq(calls, 1, i) = Append(h \o SubSeq(calls, 1, i - 1), calls[i])
    BY OneMore
  <2>4. PlanOf(h \o SubSeq(calls, 1, i), after[i])
    BY <1>2, <2>2, <2>3
  <2> QED
    BY <1>1, <2>4
<1>5. n \in S
  <2> HIDE DEF S, n
  <2>1. \A i \in 0 .. n : i \in S
    BY <1>1, <1>3, <1>4, Upto
  <2> QED
    BY <1>1, <2>1
<1>6. PlanOf(h \o SubSeq(calls, 1, n), after[n])
  BY <1>5
<1> QED
  BY <1>6, NoneOrAll DEF after

LEMMA PlanAfterMessage ==
  ASSUME NEW h \in Seq(CallType), NEW p, PlanOf(h, p), NEW m \in ViewType
  PROVE  PlanOf(h \o m.tools, WithMessage(p, m))
<1> DEFINE p0 == [p EXCEPT !.changed = FALSE]
           q == AfterCalls(p0, m.tools)[Len(m.tools)]
<1>1. m.tools \in Seq(CallType) /\ m.terminal = FALSE
  BY DEF ViewType
<1>2. PlanOf(h, p0)
  BY DEF PlanOf, PlanType
<1>3. WithMessage(p, m) = [q EXCEPT !.ended = @ \/ (m.terminal /\ ~q.changed)]
  BY DEF WithMessage
<1> HIDE DEF p0
<1>4. PlanOf(h \o m.tools, q)
  BY <1>1, <1>2, PlanAfterCalls
<1> HIDE DEF q
<1> QED
  BY <1>1, <1>3, <1>4 DEF PlanOf, PlanType

-----------------------------------------------------------------------------
(* What every reachable state satisfies.                                     *)
PlanTypeOK ==
  /\ speaker \in Speakers /\ said \in Texts
  /\ history \in [Speakers -> Seq(HistoryType)]
  /\ lastStep \in [Speakers -> Texts]
  /\ messages \in Seq(MessageType)

Tools == [i \in DOMAIN messages |-> messages[i].tools]

LEMMA ToolsAre ==
  ASSUME PlanTypeOK
  PROVE  /\ Tools \in Seq(Seq(CallType)) /\ Len(Tools) = Len(messages)
         /\ View(messages) \in Seq(ViewType) /\ Len(View(messages)) = Len(messages)
         /\ \A i \in 1 .. Len(messages) : Tools[i] = View(messages)[i].tools
         /\ Heard = FlattenSeq(Tools)
<1>1. messages \in Seq(MessageType) /\ DOMAIN messages = 1 .. Len(messages) /\ Len(messages) \in Nat
  BY DEF PlanTypeOK
<1>2. \A i \in DOMAIN messages : messages[i].tools \in Seq(CallType)
  <2>1. \A i \in DOMAIN messages : messages[i] \in MessageType
    BY <1>1
  <2> QED
    BY <2>1, Zenon DEF MessageType
<1>3. Tools \in Seq(Seq(CallType)) /\ Len(Tools) = Len(messages)
  BY <1>1, <1>2 DEF Tools
<1>4. \A i \in DOMAIN messages : ToChatMessage(messages[i]) \in ViewType
  BY <1>2 DEF ToChatMessage, ViewType
<1>5. View(messages) \in Seq(ViewType) /\ Len(View(messages)) = Len(messages)
  BY <1>1, <1>4 DEF View
<1>6. \A i \in 1 .. Len(messages) : Tools[i] = View(messages)[i].tools
  BY <1>1 DEF Tools, View, ToChatMessage
<1> QED
  BY <1>3, <1>5, <1>6 DEF Heard, HeardIn, Tools

LEMMA PlanOfHeard ==
  ASSUME PlanTypeOK
  PROVE  Heard \in Seq(CallType) /\ PlanOf(Heard, DynamicPlan(View(messages)))
<1> DEFINE n == Len(messages)
           v == View(messages)
           after == AfterMessages(v)
<1>1. /\ Tools \in Seq(Seq(CallType)) /\ Len(Tools) = n /\ n \in Nat
      /\ v \in Seq(ViewType) /\ Len(v) = n
      /\ \A i \in 1 .. n : Tools[i] = v[i].tools
      /\ Heard = FlattenSeq(Tools)
  BY ToolsAre
<1> HIDE DEF n, v
<1>2. PICK f \in [0 .. n -> Seq(CallType)] :
        f[0] = <<>> /\ f[n] = FlattenSeq(Tools) /\ \A i \in 1 .. n : f[i] = f[i - 1] \o Tools[i]
  <2>1. HasFlat(CallType, Tools)
    BY <1>1, WalkOfFlatten
  <2> QED
    BY <1>1, <2>1 DEF HasFlat, Flattens
<1>3. after[0] = NoPlan /\ \A i \in 1 .. n : after[i] = WithMessage(after[i - 1], v[i])
  BY <1>1, WalkOfMessages
<1> HIDE DEF after
<1> DEFINE S == {i \in 0 .. n : PlanOf(f[i], after[i])}
<1>4. 0 \in S
  <2>1. Signals(<<>>) = {} /\ Reached(<<>>) = {} /\ Range(<<>>) = {}
    <3>1. DOMAIN <<>> = {}
      OBVIOUS
    <3>2. Signals(<<>>) = {} /\ Since(<<>>) = {} /\ Range(<<>>) = {}
      BY <3>1 DEF Signals, Since, Range
    <3> QED
      BY <3>2, ReachedIs
  <2>2. <<>> \in Seq(Texts) /\ NoPhase \in Texts /\ NoStep \in Texts
    <3>1. <<>> \in Seq(Texts)
      OBVIOUS
    <3> QED
      BY <3>1, Zenon DEF Texts
  <2>3. NoPlan \in PlanType /\ ~NoPlan.ended /\ NoPlan.phase = NoPhase /\ NoPlan.labels = <<>>
    BY <2>2 DEF NoPlan, PlanType
  <2>4. PlanOf(<<>>, NoPlan)
    BY <2>1, <2>3 DEF PlanOf, LastSaid
  <2> QED
    BY <1>1, <1>2, <1>3, <2>4
<1>5. ASSUME NEW i \in 1 .. n, i - 1 \in S PROVE i \in S
  <2>1. f[i - 1] \in Seq(CallType) /\ PlanOf(f[i - 1], after[i - 1]) /\ v[i] \in ViewType
    BY <1>1, <1>2, <1>5
  <2>2. PlanOf(f[i - 1] \o v[i].tools, WithMessage(after[i - 1], v[i]))
    BY <2>1, PlanAfterMessage
  <2>3. PlanOf(f[i], after[i])
    BY <1>1, <1>2, <1>3, <2>2
  <2> QED
    BY <1>1, <2>3
<1>6. n \in S
  <2> HIDE DEF S
  <2>1. \A i \in 0 .. n : i \in S
    BY <1>1, <1>4, <1>5, Upto
  <2> QED
    BY <1>1, <2>1
<1>7. PlanOf(f[n], after[n]) /\ f[n] \in Seq(CallType)
  BY <1>1, <1>2, <1>6
<1> QED
  BY <1>1, <1>2, <1>7 DEF DynamicPlan, after, v

LEMMA EmptyIs ==
  ASSUME NEW A, NEW s \in Seq(A)
  PROVE  s = <<>> <=> DOMAIN s = {}
<1>1. DOMAIN s = 1 .. Len(s) /\ Len(s) \in Nat
  OBVIOUS
<1>2. s = <<>> <=> Len(s) = 0
  BY EmptySeq
<1>3. 1 .. Len(s) = {} <=> Len(s) = 0
  BY <1>1
<1> QED
  BY <1>1, <1>2, <1>3

LEMMA StepsOfHeard ==
  ASSUME PlanTypeOK
  PROVE  StepsAreOfThisPhase
<1> DEFINE p == DynamicPlan(View(messages))
           steps == IF p.labels = <<>> THEN StaticSteps(p.phase) ELSE p.labels
<1>1. p \in PlanType /\ Range(p.labels) = Reached(Heard)
  BY PlanOfHeard DEF PlanOf
<1>2. ASSUME Bar # NoBar PROVE Bar.steps = steps /\ Bar.phase = p.phase
  BY <1>2 DEF Bar, DerivePlan
<1> HIDE DEF p
<1>3. p.labels = <<>> <=> Reached(Heard) = {}
  <2>1. p.labels \in Seq(Texts)
    BY <1>1 DEF PlanType
  <2>2. p.labels = <<>> <=> DOMAIN p.labels = {}
    BY <2>1, EmptyIs
  <2> QED
    BY <1>1, <2>2 DEF Range
<1>4. ASSUME Bar # NoBar
      PROVE  Range(Bar.steps) = IF Reached(Heard) = {} THEN Range(StaticSteps(Bar.phase))
                                ELSE Reached(Heard)
  BY <1>1, <1>2, <1>3, <1>4
<1> QED
  BY <1>4, Zenon DEF StepsAreOfThisPhase

LEMMA PhaseOfHeard ==
  ASSUME PlanTypeOK
  PROVE  LastSaid(Heard, Bar.phase)
<1> DEFINE p == DynamicPlan(View(messages))
<1>1. LastSaid(Heard, p.phase)
  BY PlanOfHeard DEF PlanOf
<1>2. Bar.phase = p.phase
  BY DEF Bar, DerivePlan, NoBar
<1> QED
  BY <1>1, <1>2

-----------------------------------------------------------------------------
(* What a turn adds: the calls of some tools, and the last of them.          *)
LEMMA LatestIs ==
  ASSUME NEW n \in Nat, NEW T \in SUBSET (1 .. n), T # {}
  PROVE  Latest(T) \in T /\ \A j \in T : j <= Latest(T)
<1> DEFINE S == {m \in 0 .. n : \A U \in SUBSET (1 .. m) :
                                  U # {} => \E i \in U : \A j \in U : j <= i}
<1>1. 0 \in S
  <2>1. 1 .. 0 = {} /\ 0 \in 0 .. n
    OBVIOUS
  <2> QED
    BY <2>1, Zenon
<1>2. ASSUME NEW m \in 1 .. n, m - 1 \in S PROVE m \in S
  <2>1. ASSUME NEW U \in SUBSET (1 .. m), U # {} PROVE \E i \in U : \A j \in U : j <= i
    <3>1. CASE m \in U
      BY <3>1
    <3>2. CASE m \notin U
      <4>1. U \in SUBSET (1 .. (m - 1))
        BY <3>2
      <4> QED
        BY <1>2, <2>1, <4>1
    <3> QED
      BY <3>1, <3>2
  <2> QED
    BY <2>1
<1>3. n \in S
  <2> HIDE DEF S
  <2>1. \A i \in 0 .. n : i \in S
    BY <1>1, <1>2, Upto
  <2> QED
    BY <2>1
<1>4. \E i \in T : \A j \in T : j <= i
  BY <1>3
<1> QED
  BY <1>4 DEF Latest

LEMMA LatestIsOnly ==
  ASSUME NEW n \in Nat, NEW T \in SUBSET (1 .. n), NEW k \in T, \A j \in T : j <= k
  PROVE  Latest(T) = k
<1> DEFINE l == Latest(T)
<1>1. l \in T /\ \A j \in T : j <= l
  BY T # {}, LatestIs
<1> HIDE DEF l
<1>2. l \in 1 .. n /\ k \in 1 .. n /\ l <= k /\ k <= l
  BY <1>1
<1>3. l = k
  BY <1>2
<1> QED
  BY <1>3 DEF l

LEMMA AfterOneMore ==
  ASSUME NEW A, NEW h \in Seq(A), NEW s \in Seq(A), NEW c \in A
  PROVE  h \o Append(s, c) = Append(h \o s, c) /\ h \o s \in Seq(A)
<1> DEFINE u == h \o Append(s, c)
           v == Append(h \o s, c)
           a == Append(s, c)
           n == Len(h) + Len(s)
<1>1. /\ a \in Seq(A) /\ Len(a) = Len(s) + 1 /\ a[Len(s) + 1] = c
      /\ \A i \in 1 .. Len(s) : a[i] = s[i]
      /\ Len(s) \in Nat /\ Len(h) \in Nat
  OBVIOUS
<1>2. /\ h \o s \in Seq(A) /\ Len(h \o s) = n
      /\ \A i \in 1 .. n : (h \o s)[i] = IF i <= Len(h) THEN h[i] ELSE s[i - Len(h)]
  BY ConcatProperties
<1>3. /\ v \in Seq(A) /\ Len(v) = n + 1 /\ v[n + 1] = c
      /\ \A i \in 1 .. n : v[i] = (h \o s)[i]
  <2> HIDE DEF n
  <2> QED
    BY <1>2
<1> HIDE DEF a
<1>4. /\ h \o a \in Seq(A) /\ Len(h \o a) = Len(h) + Len(a)
      /\ \A i \in 1 .. Len(h) + Len(a) : (h \o a)[i] = IF i <= Len(h) THEN h[i] ELSE a[i - Len(h)]
  BY <1>1, ConcatProperties
<1>5. /\ u \in Seq(A) /\ Len(u) = n + 1
      /\ \A i \in 1 .. n + 1 : u[i] = IF i <= Len(h) THEN h[i] ELSE a[i - Len(h)]
  BY <1>1, <1>4 DEF a
<1> HIDE DEF u, v
<1>6. ASSUME NEW i \in 1 .. n + 1 PROVE u[i] = v[i]
  <2>1. CASE i = n + 1
    <3>1. ~(i <= Len(h)) /\ i - Len(h) = Len(s) + 1
      BY <1>1, <2>1
    <3> QED
      BY <1>1, <1>3, <1>5, <2>1, <3>1
  <2>2. CASE i # n + 1 /\ i <= Len(h)
    <3>1. i \in 1 .. n
      BY <1>1, <2>2
    <3> QED
      BY <1>2, <1>3, <1>5, <2>2, <3>1
  <2>3. CASE i # n + 1 /\ ~(i <= Len(h))
    <3>1. i \in 1 .. n /\ i - Len(h) \in 1 .. Len(s)
      BY <1>1, <2>3
    <3> QED
      BY <1>1, <1>2, <1>3, <1>5, <2>3, <3>1
  <2> QED
    BY <2>1, <2>2, <2>3
<1>7. u = v
  BY <1>3, <1>5, <1>6, SeqEqual
<1> QED
  BY <1>2, <1>7 DEF u, v

LEMMA WalkOfSifted ==
  ASSUME NEW calls \in Seq(CallType), NEW tools
  PROVE  /\ Sifted(calls, tools) \in [0 .. Len(calls) -> Seq(CallType)]
         /\ Sifted(calls, tools)[0] = <<>>
         /\ \A i \in 1 .. Len(calls) : Sifted(calls, tools)[i] =
              IF calls[i].tool \in tools THEN Append(Sifted(calls, tools)[i - 1], calls[i])
              ELSE Sifted(calls, tools)[i - 1]
<1> DEFINE n == Len(calls)
           Next1(q, i) == IF calls[i].tool \in tools THEN Append(q, calls[i]) ELSE q
           G == [i \in 1 .. n |-> [q \in Seq(CallType) |-> Next1(q, i)]]
           Is(f) == f = [i \in 0 .. n |-> IF i = 0 THEN <<>> ELSE
                      IF calls[i].tool \in tools THEN Append(f[i - 1], calls[i]) ELSE f[i - 1]]
<1>1. n \in Nat /\ \A i \in 1 .. n : calls[i] \in CallType
  OBVIOUS
<1> HIDE DEF n
<1>2. \A i \in 1 .. n : \A q \in Seq(CallType) : Next1(q, i) \in Seq(CallType)
  BY <1>1
<1>3. G \in [1 .. n -> [Seq(CallType) -> Seq(CallType)]]
  <2> HIDE DEF Next1
  <2> QED
    BY <1>2
<1>4. PICK f \in [0 .. n -> Seq(CallType)] : f[0] = <<>> /\ \A i \in 1 .. n : f[i] = G[i][f[i - 1]]
  <2> HIDE DEF G
  <2>1. <<>> \in Seq(CallType)
    OBVIOUS
  <2>2. Walks(Seq(CallType), <<>>, n, G)
    BY <1>1, <1>3, <2>1, Recursion
  <2> QED
    BY <2>2 DEF Walks
<1>5. ASSUME NEW i \in 1 .. n PROVE f[i] = Next1(f[i - 1], i)
  <2>1. i - 1 \in 0 .. n /\ f[i - 1] \in Seq(CallType) /\ f[i] = G[i][f[i - 1]]
    <3> HIDE DEF G
    <3> QED
      BY <1>1, <1>4
  <2> HIDE DEF Next1
  <2>2. G[i] = [q \in Seq(CallType) |-> Next1(q, i)]
    BY Zenon
  <2> QED
    BY <2>1, <2>2, Zenon
<1>6. Is(f)
  <2>1. \A i \in 0 .. n : f[i] = IF i = 0 THEN <<>> ELSE Next1(f[i - 1], i)
    <3> HIDE DEF G, Next1
    <3> QED
      BY <1>1, <1>4, <1>5
  <2> QED
    BY <1>4, <2>1, Zenon
<1> DEFINE after == Sifted(calls, tools)
<1>7. after = CHOOSE g : Is(g)
  BY DEF Sifted, n
<1> HIDE DEF after, G
<1>8. Is(after)
  <2> HIDE DEF Is
  <2> QED
    BY <1>6, <1>7, Zenon
<1>9. after[0] = <<>> /\ \A i \in 1 .. n : after[i] = Next1(after[i - 1], i)
  <2>1. after = [i \in 0 .. n |-> IF i = 0 THEN <<>> ELSE Next1(after[i - 1], i)]
    BY <1>8, Zenon
  <2> HIDE DEF Is, Next1
  <2> QED
    BY <1>1, <2>1
<1>10. \A i \in 0 .. n : after[i] = f[i]
  <2> HIDE DEF Is, Next1
  <2>1. \A i \in 1 .. n : after[i - 1] = f[i - 1] => after[i] = f[i]
    BY <1>5, <1>9
  <2>2. after[0] = f[0]
    BY <1>4, <1>9
  <2> QED
    BY <1>1, <2>1, <2>2, SameSteps
<1>11. after \in [0 .. n -> Seq(CallType)]
  <2>1. DOMAIN after = 0 .. n /\ after = [i \in 0 .. n |-> after[i]]
    BY <1>8
  <2> HIDE DEF Is
  <2> QED
    BY <1>4, <1>10, <2>1
<1> QED
  BY <1>9, <1>11, Zenon DEF after, n

(* The phase after the first calls of a turn that begins in one.             *)
SignalsTo(s, i) == {j \in 1 .. i : Counts(s[j])}
PhaseTo(s, i, ph) == IF SignalsTo(s, i) = {} THEN ph ELSE s[Latest(SignalsTo(s, i))].phase

LEMMA PhaseOneMore ==
  ASSUME NEW s, NEW ph
  PROVE  /\ PhaseTo(s, 0, ph) = ph
         /\ \A i \in Nat \ {0} :
              PhaseTo(s, i, ph) = IF Counts(s[i]) THEN s[i].phase ELSE PhaseTo(s, i - 1, ph)
<1>1. PhaseTo(s, 0, ph) = ph
  <2>1. SignalsTo(s, 0) = {}
    BY DEF SignalsTo
  <2> QED
    BY <2>1 DEF PhaseTo
<1>2. ASSUME NEW i \in Nat \ {0}
      PROVE  PhaseTo(s, i, ph) = IF Counts(s[i]) THEN s[i].phase ELSE PhaseTo(s, i - 1, ph)
  <2>1. CASE Counts(s[i])
    <3>1. i \in SignalsTo(s, i) /\ (\A j \in SignalsTo(s, i) : j <= i)
          /\ SignalsTo(s, i) \in SUBSET (1 .. i)
      BY <2>1 DEF SignalsTo
    <3>2. Latest(SignalsTo(s, i)) = i
      BY <3>1, LatestIsOnly
    <3> QED
      BY <2>1, <3>1, <3>2 DEF PhaseTo
  <2>2. CASE ~Counts(s[i])
    <3>1. SignalsTo(s, i) = SignalsTo(s, i - 1)
      BY <2>2 DEF SignalsTo
    <3> QED
      BY <2>2, <3>1 DEF PhaseTo
  <2> QED
    BY <2>1, <2>2
<1> QED
  BY <1>1, <1>2

LEMMA SaidAfterCalls ==
  ASSUME NEW h \in Seq(CallType), NEW ph, LastSaid(h, ph), NEW s \in Seq(CallType)
  PROVE  LastSaid(h \o s, PhaseTo(s, Len(s), ph))
<1> DEFINE n == Len(s)
           S == {i \in 0 .. n : LastSaid(h \o SubSeq(s, 1, i), PhaseTo(s, i, ph))}
<1>1. n \in Nat
  OBVIOUS
<1>2. 0 \in S
  <2>1. h \o SubSeq(s, 1, 0) = h /\ PhaseTo(s, 0, ph) = ph
    BY NoneOrAll, PhaseOneMore
  <2>2. LastSaid(h \o SubSeq(s, 1, 0), PhaseTo(s, 0, ph))
    BY <2>1
  <2>3. 0 \in 0 .. n
    BY <1>1
  <2> QED
    BY <2>2, <2>3
<1>3. ASSUME NEW i \in 1 .. n, i - 1 \in S PROVE i \in S
  <2> DEFINE g == h \o SubSeq(s, 1, i - 1)
             q == PhaseTo(s, i - 1, ph)
  <2>1. LastSaid(g, q) /\ g \in Seq(CallType) /\ s[i] \in CallType
    BY <1>3, OneMore
  <2>2. LastSaid(Append(g, s[i]), IF Counts(s[i]) THEN s[i].phase ELSE q)
    <3> HIDE DEF g, q
    <3> QED
      BY <2>1, SaidAfterCall
  <2>3. h \o SubSeq(s, 1, i) = Append(g, s[i])
    BY OneMore
  <2>4. PhaseTo(s, i, ph) = IF Counts(s[i]) THEN s[i].phase ELSE q
    BY i \in Nat \ {0}, PhaseOneMore
  <2>5. LastSaid(h \o SubSeq(s, 1, i), PhaseTo(s, i, ph))
    BY <2>2, <2>3, <2>4
  <2> QED
    BY <1>1, <2>5
<1>4. n \in S
  <2> HIDE DEF S, n
  <2>1. \A i \in 0 .. n : i \in S
    BY <1>1, <1>2, <1>3, Upto
  <2> QED
    BY <1>1, <2>1
<1>5. LastSaid(h \o SubSeq(s, 1, n), PhaseTo(s, n, ph))
  BY <1>4
<1> QED
  BY <1>5, NoneOrAll

LEMMA SaidOnce ==
  ASSUME NEW h, NEW x, NEW y, LastSaid(h, x), LastSaid(h, y), DOMAIN h \subseteq Nat
  PROVE  x = y
<1>1. CASE Signals(h) = {}
  BY <1>1 DEF LastSaid
<1>2. CASE Signals(h) # {}
  <2>1. PICK i \in Signals(h) : (\A k \in Signals(h) : k <= i) /\ h[i].phase = x
    BY <1>2 DEF LastSaid
  <2>2. PICK j \in Signals(h) : (\A k \in Signals(h) : k <= j) /\ h[j].phase = y
    BY <1>2 DEF LastSaid
  <2>3. i \in Nat /\ j \in Nat /\ i <= j /\ j <= i
    BY <2>1, <2>2 DEF Signals
  <2>4. i = j
    BY <2>3
  <2> QED
    BY <2>1, <2>2, <2>4
<1> QED
  BY <1>1, <1>2

(* What is kept of a turn tells the same phase, as long as signals are kept. *)
LEMMA SaidAfterSifted ==
  ASSUME NEW h \in Seq(CallType), NEW ph, LastSaid(h, ph), NEW s \in Seq(CallType), NEW tools
  PROVE  /\ Only(s, tools) \in Seq(CallType)
         /\ LastSaid(h \o Only(s, tools),
                     IF "signal_phase" \in tools THEN PhaseTo(s, Len(s), ph) ELSE ph)
<1> DEFINE n == Len(s)
           kept == Sifted(s, tools)
           Ph(i) == IF "signal_phase" \in tools THEN PhaseTo(s, i, ph) ELSE ph
           S == {i \in 0 .. n : LastSaid(h \o kept[i], Ph(i))}
<1>1. n \in Nat /\ \A i \in 1 .. n : s[i] \in CallType
  OBVIOUS
<1>2. /\ kept \in [0 .. n -> Seq(CallType)] /\ kept[0] = <<>>
      /\ \A i \in 1 .. n :
           kept[i] = IF s[i].tool \in tools THEN Append(kept[i - 1], s[i]) ELSE kept[i - 1]
  BY WalkOfSifted
<1> HIDE DEF kept
<1>3. 0 \in S
  <2>1. h \o <<>> = h /\ Ph(0) = ph
    BY NoneOrAll, PhaseOneMore
  <2>2. LastSaid(h \o kept[0], Ph(0))
    BY <1>2, <2>1
  <2>3. 0 \in 0 .. n
    BY <1>1
  <2> QED
    BY <2>2, <2>3
<1>4. ASSUME NEW i \in 1 .. n, i - 1 \in S PROVE i \in S
  <2>1. LastSaid(h \o kept[i - 1], Ph(i - 1)) /\ kept[i - 1] \in Seq(CallType) /\ s[i] \in CallType
    BY <1>1, <1>2, <1>4
  <2>2. PhaseTo(s, i, ph) = IF Counts(s[i]) THEN s[i].phase ELSE PhaseTo(s, i - 1, ph)
    BY i \in Nat \ {0}, PhaseOneMore
  <2>3. CASE s[i].tool \in tools
    <3>1. kept[i] = Append(kept[i - 1], s[i])
      BY <1>2, <2>3
    <3>2. h \o kept[i] = Append(h \o kept[i - 1], s[i]) /\ h \o kept[i - 1] \in Seq(CallType)
      BY <2>1, <3>1, AfterOneMore
    <3>3. LastSaid(h \o kept[i], IF Counts(s[i]) THEN s[i].phase ELSE Ph(i - 1))
      <4> HIDE DEF Ph
      <4> QED
        BY <2>1, <3>2, SaidAfterCall
    <3>4. Ph(i) = IF Counts(s[i]) THEN s[i].phase ELSE Ph(i - 1)
      <4>1. "signal_phase" \notin tools => ~Counts(s[i])
        BY <2>3 DEF Counts, IsSignal
      <4> QED
        BY <2>2, <4>1
    <3> QED
      BY <1>1, <3>3, <3>4
  <2>4. CASE s[i].tool \notin tools
    <3>1. kept[i] = kept[i - 1]
      BY <1>2, <2>4
    <3>2. Ph(i) = Ph(i - 1)
      <4>1. "signal_phase" \in tools => ~Counts(s[i])
        BY <2>4 DEF Counts, IsSignal
      <4> QED
        BY <2>2, <4>1
    <3> QED
      BY <1>1, <2>1, <3>1, <3>2
  <2> QED
    BY <2>3, <2>4
<1>5. n \in S
  <2> HIDE DEF S, n
  <2>1. \A i \in 0 .. n : i \in S
    BY <1>1, <1>3, <1>4, Upto
  <2> QED
    BY <1>1, <2>1
<1>6. kept[n] \in Seq(CallType) /\ LastSaid(h \o kept[n], Ph(n))
  BY <1>1, <1>2, <1>5
<1> QED
  BY <1>6 DEF Only, kept

(* Only calls of the tools are kept.                                         *)
LEMMA SiftedTools ==
  ASSUME NEW s \in Seq(CallType), NEW tools
  PROVE  \A k \in DOMAIN Only(s, tools) : Only(s, tools)[k].tool \in tools
<1> DEFINE n == Len(s)
           kept == Sifted(s, tools)
           S == {i \in 0 .. n : \A k \in DOMAIN kept[i] : kept[i][k].tool \in tools}
<1>1. n \in Nat /\ \A i \in 1 .. n : s[i] \in CallType
  OBVIOUS
<1>2. /\ kept \in [0 .. n -> Seq(CallType)] /\ kept[0] = <<>>
      /\ \A i \in 1 .. n :
           kept[i] = IF s[i].tool \in tools THEN Append(kept[i - 1], s[i]) ELSE kept[i - 1]
  BY WalkOfSifted
<1> HIDE DEF kept
<1>3. 0 \in S
  BY <1>1, <1>2
<1>4. ASSUME NEW i \in 1 .. n, i - 1 \in S PROVE i \in S
  <2>1. kept[i - 1] \in Seq(CallType) /\ s[i] \in CallType
        /\ \A k \in DOMAIN kept[i - 1] : kept[i - 1][k].tool \in tools
    BY <1>1, <1>2, <1>4
  <2>2. CASE s[i].tool \in tools
    <3> DEFINE a == kept[i - 1]
               b == Append(a, s[i])
    <3>1. /\ a \in Seq(CallType) /\ DOMAIN b = DOMAIN a \union {Len(a) + 1} /\ b[Len(a) + 1] = s[i]
          /\ \A k \in DOMAIN a : b[k] = a[k]
      BY <2>1, AppendedCall
    <3>2. kept[i] = b
      BY <1>2, <2>2
    <3> HIDE DEF a, b
    <3>3. \A k \in DOMAIN a : a[k].tool \in tools
      BY <2>1 DEF a
    <3>4. \A k \in DOMAIN b : b[k].tool \in tools
      BY <2>2, <3>1, <3>3
    <3> QED
      BY <1>1, <3>2, <3>4
  <2>3. CASE s[i].tool \notin tools
    BY <1>1, <1>2, <2>1, <2>3
  <2> QED
    BY <2>2, <2>3
<1>5. n \in S
  <2> HIDE DEF S, n
  <2>1. \A i \in 0 .. n : i \in S
    BY <1>1, <1>3, <1>4, Upto
  <2> QED
    BY <1>1, <2>1
<1> QED
  BY <1>5 DEF Only, kept

LEMMA FlattenOneMore ==
  ASSUME NEW A, NEW s \in Seq(Seq(A)), NEW t \in Seq(A)
  PROVE  FlattenSeq(Append(s, t)) = FlattenSeq(s) \o t /\ FlattenSeq(s) \in Seq(A)
<1> DEFINE u == Append(s, t)
           n == Len(s)
<1>1. /\ u \in Seq(Seq(A)) /\ Len(u) = n + 1 /\ n \in Nat /\ u[n + 1] = t /\ Len(s) = n
      /\ \A i \in 1 .. n : u[i] = s[i]
  OBVIOUS
<1> HIDE DEF u, n
<1>2. PICK f \in [0 .. n -> Seq(A)] : Flattens(f, s)
  BY <1>1, WalkOfFlatten DEF HasFlat
<1>3. PICK g \in [0 .. Len(u) -> Seq(A)] : Flattens(g, u)
  BY <1>1, WalkOfFlatten DEF HasFlat
<1>4. f[0] = <<>> /\ f[n] = FlattenSeq(s) /\ \A i \in 1 .. n : f[i] = f[i - 1] \o s[i]
  BY <1>1, <1>2 DEF Flattens
<1>5. g[0] = <<>> /\ g[n + 1] = FlattenSeq(u) /\ \A i \in 1 .. n + 1 : g[i] = g[i - 1] \o u[i]
  BY <1>1, <1>3 DEF Flattens
<1>6. \A i \in 0 .. n : f[i] = g[i]
  <2>1. \A i \in 1 .. n : f[i - 1] = g[i - 1] => f[i] = g[i]
    <3> TAKE i \in 1 .. n
    <3>1. i \in 1 .. n + 1
      BY <1>1
    <3>2. f[i] = f[i - 1] \o s[i] /\ g[i] = g[i - 1] \o u[i] /\ u[i] = s[i]
      BY <1>1, <1>4, <1>5, <3>1, Zenon
    <3> QED
      BY <3>2, Zenon
  <2>2. f[0] = g[0] /\ n \in Nat
    BY <1>1, <1>4, <1>5
  <2> DEFINE S == {i \in 0 .. n : f[i] = g[i]}
  <2>3. 0 \in S /\ \A i \in 1 .. n : i - 1 \in S => i \in S
    BY <2>1, <2>2
  <2> HIDE DEF S
  <2>4. \A i \in 0 .. n : i \in S
    BY <2>2, <2>3, Upto
  <2> QED
    BY <2>4 DEF S
<1>7. g[n + 1] = g[n] \o t
  <2>1. n + 1 \in 1 .. n + 1 /\ (n + 1) - 1 = n
    BY <1>1
  <2>2. g[n + 1] = g[(n + 1) - 1] \o u[n + 1]
    BY <1>5, <2>1, Zenon
  <2> QED
    BY <1>1, <2>1, <2>2, Zenon
<1>8. n \in 0 .. n /\ f[n] \in Seq(A)
  BY <1>1, <1>2
<1> QED
  BY <1>4, <1>5, <1>6, <1>7, <1>8 DEF u

(* The calls after the last message of the user are those of the turn.       *)
LEMMA CallsOfTurn ==
  ASSUME NEW old \in Seq(HistoryType), NEW calls \in Seq(CallType)
  PROVE  CurrentTurn(old \o <<[user |-> TRUE, calls |-> <<>>], [user |-> FALSE, calls |-> calls]>>)
           = calls
<1> DEFINE a == [user |-> TRUE, calls |-> <<>>]
           b == [user |-> FALSE, calls |-> calls]
           ms == old \o <<a, b>>
           n == Len(old)
           users == {i \in DOMAIN ms : ms[i].user}
           from == IF users = {} THEN 1 ELSE Latest(users) + 1
           s == [i \in 1 .. Len(ms) - from + 1 |-> ms[from + i - 1].calls]
<1>1. n \in Nat /\ <<>> \in Seq(CallType) /\ a \in HistoryType /\ b \in HistoryType
  BY DEF HistoryType
<1>2. a.user = TRUE /\ b.user = FALSE /\ b.calls = calls
  OBVIOUS
<1> HIDE DEF a, b
<1>3. <<a, b>> \in Seq(HistoryType) /\ Len(<<a, b>>) = 2 /\ <<a, b>>[1] = a /\ <<a, b>>[2] = b
  BY <1>1
<1>4. /\ ms \in Seq(HistoryType) /\ Len(ms) = n + 2 /\ DOMAIN ms = 1 .. n + 2
      /\ ms[n + 1] = a /\ ms[n + 2] = b
  <2>1. /\ ms \in Seq(HistoryType) /\ Len(ms) = n + 2
        /\ \A i \in 1 .. n + 2 : ms[i] = IF i <= n THEN old[i] ELSE <<a, b>>[i - n]
    BY <1>1, <1>3, ConcatProperties
  <2> HIDE DEF ms
  <2>2. n + 1 \in 1 .. n + 2 /\ n + 2 \in 1 .. n + 2 /\ ~(n + 1 <= n) /\ ~(n + 2 <= n)
        /\ (n + 1) - n = 1 /\ (n + 2) - n = 2
    BY <1>1
  <2>3. DOMAIN ms = 1 .. n + 2
    BY <2>1
  <2> QED
    BY <1>3, <2>1, <2>2, <2>3
<1>5. CurrentTurn(ms) = FlattenSeq(s)
  BY DEF CurrentTurn, Where
<1> HIDE DEF ms
<1>6. users \in SUBSET (1 .. n + 2) /\ n + 1 \in users /\ \A j \in users : j <= n + 1
  <2>1. n + 1 \in users
    BY <1>1, <1>2, <1>4
  <2>2. n + 2 \notin users
    BY <1>2, <1>4
  <2>3. users \in SUBSET (1 .. n + 2)
    BY <1>4
  <2> HIDE DEF users
  <2>4. \A j \in users : j <= n + 1
    BY <1>1, <2>2, <2>3
  <2> QED
    BY <2>1, <2>3, <2>4
<1>7. from = n + 2
  <2> HIDE DEF users
  <2>1. Latest(users) = n + 1
    BY <1>6, n + 2 \in Nat, LatestIsOnly
  <2>2. users # {}
    BY <1>6
  <2> QED
    BY <1>1, <2>1, <2>2
<1> HIDE DEF from
<1>8. s = <<calls>>
  <2>1. Len(ms) - from + 1 = 1
    BY <1>1, <1>4, <1>7
  <2>2. from + 1 - 1 = n + 2
    BY <1>1, <1>7
  <2>3. s = [i \in 1 .. 1 |-> ms[from + i - 1].calls]
    BY <2>1
  <2>4. \A i \in 1 .. 1 : i = 1
    OBVIOUS
  <2>5. s = [i \in 1 .. 1 |-> calls]
    BY <1>2, <1>4, <2>2, <2>3, <2>4
  <2> QED
    BY <2>5
<1>9. FlattenSeq(<<calls>>) = calls
  <2>1. /\ <<>> \in Seq(Seq(CallType)) /\ Append(<<>>, calls) = <<calls>>
        /\ <<>> \in Seq(CallType)
    OBVIOUS
  <2>2. FlattenSeq(<<>>) = <<>>
    BY DEF FlattenSeq
  <2>3. FlattenSeq(<<calls>>) = <<>> \o calls
    BY <2>1, <2>2, FlattenOneMore
  <2> QED
    BY <2>3, NoneOrAll
<1> QED
  BY <1>5, <1>8, <1>9 DEF ms, a, b

LEMMA BackfillSays ==
  ASSUME PlanTypeOK, NEW calls, NEW step \in Texts
  PROVE  /\ Backfill(calls, step) \in Seq(CallType)
         /\ \A h \in Seq(CallType) : LastSaid(h, said) =>
              LastSaid(h \o Backfill(calls, step),
                       IF Backfill(calls, step) # <<>> THEN speaker ELSE said)
<1> DEFINE c == Signal(speaker, step)
           back == Backfill(calls, step)
<1>1. CASE back = <<>>
  <2>1. back \in Seq(CallType)
    BY <1>1
  <2>2. ASSUME NEW h \in Seq(CallType), LastSaid(h, said) PROVE LastSaid(h \o back, said)
    BY <1>1, <2>2, NoneOrAll
  <2> QED
    BY <1>1, <2>1, <2>2
<1>2. CASE back # <<>>
  <2>1. back = <<c>> /\ speaker # "orchestrator"
    BY <1>2 DEF Backfill
  <2>2. speaker \in Phases /\ speaker \in Texts /\ "signal_phase" \in Texts
    <3>1. speaker \in Speakers
      BY DEF PlanTypeOK
    <3> QED
      BY <2>1, <3>1, Zenon DEF Speakers, Texts
  <2>3. c \in CallType /\ Counts(c) /\ c.phase = speaker
    BY <2>2 DEF Signal, CallType, Counts, IsSignal
  <2> HIDE DEF c, back
  <2>4. back \in Seq(CallType) /\ back = Append(<<>>, c) /\ <<>> \in Seq(CallType)
    BY <2>1, <2>3
  <2>5. ASSUME NEW h \in Seq(CallType), LastSaid(h, said) PROVE LastSaid(h \o back, speaker)
    <3>1. h \o back = Append(h, c)
      BY <2>3, <2>4, AfterOneMore, NoneOrAll
    <3>2. LastSaid(Append(h, c), IF Counts(c) THEN c.phase ELSE said)
      BY <2>3, <2>5, SaidAfterCall
    <3> QED
      BY <2>3, <3>1, <3>2
  <2> QED
    BY <1>2, <2>4, <2>5 DEF back
<1> QED
  BY <1>1, <1>2

LEMMA LastOfIsText ==
  ASSUME NEW calls \in Seq(CallType), NEW step \in Texts
  PROVE  LastOf(calls, step) \in Texts
<1> DEFINE given == {i \in DOMAIN calls : IsSignal(calls[i]) /\ calls[i].step # NoStep}
<1>1. LastOf(calls, step) = IF given = {} THEN step ELSE calls[Latest(given)].step
  BY DEF LastOf, Where
<1>2. given \in SUBSET (1 .. Len(calls)) /\ Len(calls) \in Nat
      /\ \A i \in 1 .. Len(calls) : calls[i] \in CallType
  OBVIOUS
<1> HIDE DEF given
<1>3. CASE given = {}
  BY <1>1, <1>3
<1>4. CASE given # {}
  <2>1. Latest(given) \in given
    BY <1>2, <1>4, LatestIs
  <2>2. calls[Latest(given)] \in CallType
    BY <1>2, <2>1
  <2>3. calls[Latest(given)].step \in Texts
    BY <2>2 DEF CallType
  <2> QED
    BY <1>1, <1>4, <2>3
<1> QED
  BY <1>3, <1>4

LEMMA RepliesAreCalls ==
  ASSUME NEW calls \in Replies
  PROVE  calls \in Seq(CallType)
<1> DEFINE R == [tool : STRING, phase : STRING, step : STRING]
<1>1. R \subseteq CallType
  BY DEF CallType, Texts
<1>2. calls \in Seq(R)
  BY PlanBarAssumption
<1> HIDE DEF R
<1>3. \A i \in 1 .. Len(calls) : calls[i] \in CallType
  BY <1>1, <1>2
<1>4. Len(calls) \in Nat /\ calls = [i \in 1 .. Len(calls) |-> calls[i]]
  BY <1>2
<1> QED
  BY <1>3, <1>4

(* What the studio collects of a turn tells the phase the agent said in it.  *)
Said(tools, before, after) ==
  \A h \in Seq(CallType) : LastSaid(h, before) => LastSaid(h \o tools, after)

LEMMA CollectedSays ==
  ASSUME NEW got \in Seq(CallType), NEW back \in Seq(CallType), NEW x, NEW y, Said(back, x, y)
  PROVE  /\ back \o Collected(got) \in Seq(CallType)
         /\ Said(back \o Collected(got), x, PhaseTo(got, Len(got), y))
<1> DEFINE c1 == Only(got, {"signal_phase"})
           c2 == Only(got, UiTools)
           z == PhaseTo(got, Len(got), y)
<1>1. "signal_phase" \in {"signal_phase"} /\ "signal_phase" \notin UiTools
  BY DEF UiTools
<1>2. c1 \in Seq(CallType) /\ c2 \in Seq(CallType) /\ Said(c1, y, z) /\ Said(c2, z, z)
  <2>1. ASSUME NEW h \in Seq(CallType), LastSaid(h, y)
        PROVE  c1 \in Seq(CallType) /\ LastSaid(h \o c1, z)
    BY <1>1, <2>1, SaidAfterSifted
  <2>2. ASSUME NEW h \in Seq(CallType), LastSaid(h, z)
        PROVE  c2 \in Seq(CallType) /\ LastSaid(h \o c2, z)
    BY <1>1, <2>2, SaidAfterSifted
  <2>3. <<>> \in Seq(CallType) /\ LastSaid(<<>>, NoPhase)
    BY DEF LastSaid, Signals
  <2>4. c1 \in Seq(CallType) /\ c2 \in Seq(CallType)
    BY <2>3, SaidAfterSifted
  <2> HIDE DEF c1, c2, z
  <2> QED
    BY <2>1, <2>2, <2>4 DEF Said
<1>3. Collected(got) = c1 \o c2
  BY DEF Collected
<1> HIDE DEF c1, c2, z
<1>4. c1 \o c2 \in Seq(CallType)
  BY <1>2, ConcatProperties
<1>5. back \o (c1 \o c2) \in Seq(CallType)
  BY <1>4, ConcatProperties
<1>6. ASSUME NEW h \in Seq(CallType), LastSaid(h, x) PROVE LastSaid(h \o (back \o (c1 \o c2)), z)
  <2>1. LastSaid(h \o back, y) /\ h \o back \in Seq(CallType)
    BY <1>6, ConcatProperties DEF Said
  <2>2. LastSaid((h \o back) \o c1, z)
    BY <1>2, <2>1 DEF Said
  <2>3. LastSaid(((h \o back) \o c1) \o c2, z)
    <3>1. (h \o back) \o c1 \in Seq(CallType)
      BY <1>2, <2>1, ConcatProperties
    <3> QED
      BY <1>2, <2>2, <3>1, Zenon DEF Said
  <2>4. ((h \o back) \o c1) \o c2 = (h \o back) \o (c1 \o c2)
    BY <1>2, <2>1, ConcatAssociative
  <2>5. (h \o back) \o (c1 \o c2) = h \o (back \o (c1 \o c2))
    BY <1>4, ConcatAssociative
  <2> QED
    BY <2>3, <2>4, <2>5
<1> QED
  BY <1>3, <1>5, <1>6 DEF Said, z

-----------------------------------------------------------------------------
(* The cards.  A message that asked has its card, unless it is the turn of a *)
(* finished job and the message before has that card.                       *)
Card(ms, i) == PresentOptionsSignature(ms[i].tools)

CardsOf(ms) ==
  \A i \in DOMAIN ms :
    /\ Card(ms, i) \in {ms[i].asked, NoQuestion}
    /\ ms[i].asked # NoQuestion /\ Card(ms, i) = NoQuestion =>
         i > 1 /\ ms[i].terminal /\ Card(ms, i - 1) = ms[i].asked
    /\ ms[i].terminal /\ i > 1 /\ Card(ms, i) # NoQuestion => Card(ms, i - 1) # Card(ms, i)

LEMMA SignatureIsText ==
  ASSUME NEW tools \in Seq(CallType)
  PROVE  PresentOptionsSignature(tools) \in Texts
<1> DEFINE asked == {i \in DOMAIN tools : tools[i].tool = "present_options" /\ tools[i] # BadAsk}
<1>1. PresentOptionsSignature(tools) = IF asked = {} THEN NoQuestion ELSE tools[Latest(asked)].step
  BY DEF PresentOptionsSignature, Where
<1>2. asked \in SUBSET (1 .. Len(tools)) /\ Len(tools) \in Nat
      /\ \A i \in 1 .. Len(tools) : tools[i] \in CallType
  OBVIOUS
<1> HIDE DEF asked
<1>3. CASE asked = {}
  <2>1. NoQuestion \in Texts
    BY Zenon DEF NoQuestion, Texts, NoPhase
  <2> QED
    BY <1>1, <1>3, <2>1
<1>4. CASE asked # {}
  <2>1. Latest(asked) \in asked
    BY <1>2, <1>4, LatestIs
  <2>2. tools[Latest(asked)] \in CallType
    BY <1>2, <2>1
  <2>3. tools[Latest(asked)].step \in Texts
    BY <2>2 DEF CallType
  <2> QED
    BY <1>1, <1>4, <2>3
<1> QED
  BY <1>3, <1>4

LEMMA NoCardWithoutOptions ==
  ASSUME NEW tools \in Seq(CallType)
  PROVE  PresentOptionsSignature(WithoutOptions(tools)) = NoQuestion
<1> DEFINE rest == {"signal_phase"} \union (UiTools \ {"present_options"})
           kept == Only(tools, rest)
<1>1. "present_options" \notin rest
  OBVIOUS
<1>2. \A k \in DOMAIN kept : kept[k].tool \in rest
  BY SiftedTools
<1>3. WithoutOptions(tools) = kept
  BY DEF WithoutOptions
<1> HIDE DEF rest, kept
<1>4. Where(kept, LAMBDA c : c.tool = "present_options" /\ c # BadAsk) = {}
  <2>1. \A k \in DOMAIN kept : kept[k].tool # "present_options"
    BY <1>1, <1>2
  <2> QED
    BY <2>1 DEF Where
<1> QED
  BY <1>3, <1>4 DEF PresentOptionsSignature

LEMMA NoCardOfNothing == PresentOptionsSignature(<<>>) = NoQuestion
<1>1. Where(<<>>, LAMBDA c : c.tool = "present_options" /\ c # BadAsk) = {}
  BY DEF Where
<1> QED
  BY <1>1 DEF PresentOptionsSignature

LEMMA OneMoreMessage ==
  ASSUME NEW ms \in Seq(MessageType), NEW m \in MessageType
  PROVE  /\ Append(ms, m) \in Seq(MessageType) /\ Len(ms) \in Nat /\ DOMAIN ms = 1 .. Len(ms)
         /\ DOMAIN Append(ms, m) = 1 .. Len(ms) + 1
         /\ Append(ms, m)[Len(ms) + 1] = m
         /\ \A i \in 1 .. Len(ms) : Append(ms, m)[i] = ms[i] /\ ms[i] \in MessageType
  OBVIOUS

LEMMA CardsOfOneMore ==
  ASSUME NEW ms \in Seq(MessageType), CardsOf(ms), NEW m \in MessageType,
         NEW card, card = PresentOptionsSignature(m.tools),
         card \in {m.asked, NoQuestion},
         m.asked # NoQuestion /\ card = NoQuestion =>
           ms # <<>> /\ m.terminal /\ Card(ms, Len(ms)) = m.asked,
         m.terminal /\ ms # <<>> /\ card # NoQuestion => Card(ms, Len(ms)) # card
  PROVE  CardsOf(Append(ms, m))
<1> DEFINE all == Append(ms, m)
           n == Len(ms)
<1>1. /\ n \in Nat /\ DOMAIN ms = 1 .. n /\ DOMAIN all = 1 .. n + 1 /\ all[n + 1] = m
      /\ \A i \in 1 .. n : all[i] = ms[i]
      /\ ms # <<>> <=> n # 0
  <2>1. ms # <<>> <=> n # 0
    BY EmptySeq
  <2> QED
    BY <2>1, OneMoreMessage
<1> HIDE DEF all, n
<1>2. (\A i \in 1 .. n : Card(all, i) = Card(ms, i)) /\ Card(all, n + 1) = card
  BY <1>1 DEF Card
<1>3. Len(ms) = n
  BY DEF n
<1>4. ASSUME NEW i \in 1 .. n + 1
      PROVE  /\ Card(all, i) \in {all[i].asked, NoQuestion}
             /\ all[i].asked # NoQuestion /\ Card(all, i) = NoQuestion =>
                  i > 1 /\ all[i].terminal /\ Card(all, i - 1) = all[i].asked
             /\ all[i].terminal /\ i > 1 /\ Card(all, i) # NoQuestion =>
                  Card(all, i - 1) # Card(all, i)
  <2>1. CASE i = n + 1
    <3>1. i > 1 <=> n # 0
      BY <1>1, <2>1
    <3>2. n # 0 => i - 1 = n /\ i - 1 \in 1 .. n /\ Card(all, i - 1) = Card(ms, n)
      BY <1>1, <1>2, <2>1
    <3>3. all[i] = m /\ Card(all, i) = card
      BY <1>1, <1>2, <2>1
    <3> QED
      BY <1>1, <1>3, <3>1, <3>2, <3>3
  <2>2. CASE i # n + 1
    <3>1. i \in 1 .. n /\ (i > 1 => i - 1 \in 1 .. n)
      BY <1>1, <2>2
    <3>2. all[i] = ms[i] /\ Card(all, i) = Card(ms, i) /\ (i > 1 => Card(all, i - 1) = Card(ms, i - 1))
      BY <1>1, <1>2, <3>1
    <3>3. /\ Card(ms, i) \in {ms[i].asked, NoQuestion}
          /\ ms[i].asked # NoQuestion /\ Card(ms, i) = NoQuestion =>
               i > 1 /\ ms[i].terminal /\ Card(ms, i - 1) = ms[i].asked
          /\ ms[i].terminal /\ i > 1 /\ Card(ms, i) # NoQuestion => Card(ms, i - 1) # Card(ms, i)
      BY <1>1, <3>1, Zenon DEF CardsOf
    <3> QED
      BY <3>2, <3>3
  <2> QED
    BY <2>1, <2>2
<1>5. CardsOf(all)
  BY <1>1, <1>4, Zenon DEF CardsOf
<1> QED
  BY <1>5 DEF all

LEMMA CardsAreBelow ==
  ASSUME PlanTypeOK, CardsOf(messages)
  PROVE  QuestionHasItsCard
<1> DEFINE C(i) == PresentOptionsSignature(messages[i].tools)
           Below(i) == {k \in 1 .. i : \A j \in k + 1 .. i : messages[j].terminal}
<1>1. DOMAIN messages = 1 .. Len(messages) /\ Len(messages) \in Nat
  BY DEF PlanTypeOK
<1>2. ASSUME NEW i \in DOMAIN messages
      PROVE  /\ messages[i].asked # NoQuestion => \E k \in Below(i) : C(k) = messages[i].asked
             /\ i - 1 \in Below(i) /\ C(i) # NoQuestion => C(i - 1) # C(i)
  <2>1. /\ C(i) \in {messages[i].asked, NoQuestion}
        /\ messages[i].asked # NoQuestion /\ C(i) = NoQuestion =>
             i > 1 /\ messages[i].terminal /\ C(i - 1) = messages[i].asked
        /\ messages[i].terminal /\ i > 1 /\ C(i) # NoQuestion => C(i - 1) # C(i)
    BY Zenon DEF CardsOf, Card
  <2>2. i \in Nat /\ i >= 1
    BY <1>1
  <2> HIDE DEF C
  <2>3. ASSUME messages[i].asked # NoQuestion PROVE \E k \in Below(i) : C(k) = messages[i].asked
    <3>1. CASE C(i) = messages[i].asked
      <4>1. i \in Below(i)
        BY <2>2
      <4> QED
        BY <3>1, <4>1
    <3>2. CASE C(i) # messages[i].asked
      <4>1. i > 1 /\ messages[i].terminal /\ C(i - 1) = messages[i].asked
        BY <2>1, <2>3, <3>2
      <4>2. \A j \in (i - 1) + 1 .. i : j = i
        BY <2>2
      <4>3. i - 1 \in Below(i)
        BY <2>2, <4>1, <4>2
      <4> QED
        BY <4>1, <4>3
    <3> QED
      BY <3>1, <3>2
  <2>4. ASSUME i - 1 \in Below(i), C(i) # NoQuestion PROVE C(i - 1) # C(i)
    <3>1. i - 1 \in 1 .. i /\ i \in (i - 1) + 1 .. i
      BY <2>2, <2>4
    <3>2. messages[i].terminal /\ i > 1
      BY <2>2, <2>4, <3>1
    <3> QED
      BY <2>1, <2>4, <3>2
  <2> QED
    BY <2>3, <2>4
<1> QED
  BY <1>2, Zenon DEF QuestionHasItsCard

(* What becomes of the calls of a turn when its card is the one before.      *)
LEMMA Deduped ==
  ASSUME PlanTypeOK, NEW tools \in Seq(CallType), NEW job \in BOOLEAN, NEW x, NEW y,
         LastSaid(Heard, x), Said(tools, x, y)
  PROVE  LET d == DedupeConsecutiveOptions(tools, job)
             card == PresentOptionsSignature(d)
             asked == PresentOptionsSignature(tools)
         IN  /\ d \in Seq(CallType) /\ LastSaid(Heard \o d, y)
             /\ card \in {asked, NoQuestion}
             /\ asked # NoQuestion /\ card = NoQuestion =>
                  messages # <<>> /\ job /\ Card(messages, Len(messages)) = asked
             /\ job /\ messages # <<>> /\ card # NoQuestion => Card(messages, Len(messages)) # card
<1> DEFINE d == DedupeConsecutiveOptions(tools, job)
           asked == PresentOptionsSignature(tools)
<1>1. Heard \in Seq(CallType)
  BY PlanOfHeard
<1>2. LastSaid(Heard \o tools, y)
  BY <1>1 DEF Said
<1>3. RepeatsCard(tools, job) <=>
        job /\ messages # <<>> /\ asked = Card(messages, Len(messages))
  BY DEF RepeatsCard, Card, Last
<1>4. CASE asked # NoQuestion /\ RepeatsCard(tools, job)
  <2>1. d = WithoutOptions(tools)
    BY <1>4 DEF DedupeConsecutiveOptions
  <2>2. PresentOptionsSignature(d) = NoQuestion
    BY <2>1, NoCardWithoutOptions
  <2>3. d \in Seq(CallType) /\ LastSaid(Heard \o d, PhaseTo(tools, Len(tools), x))
    BY <1>1, <2>1, SaidAfterSifted DEF WithoutOptions
  <2>4. y = PhaseTo(tools, Len(tools), x)
    <3>1. LastSaid(Heard \o tools, PhaseTo(tools, Len(tools), x))
      BY <1>1, SaidAfterCalls
    <3>2. DOMAIN (Heard \o tools) \subseteq Nat
      <4>1. Heard \o tools \in Seq(CallType)
        BY <1>1, ConcatProperties
      <4>2. DOMAIN (Heard \o tools) = 1 .. Len(Heard \o tools)
        BY <4>1
      <4> QED
        BY <4>2
    <3> QED
      BY <1>2, <3>1, <3>2, SaidOnce
  <2> QED
    BY <1>3, <1>4, <2>2, <2>3, <2>4
<1>5. CASE ~(asked # NoQuestion /\ RepeatsCard(tools, job))
  <2>1. d = tools
    BY <1>5 DEF DedupeConsecutiveOptions
  <2> QED
    BY <1>2, <1>3, <1>5, <2>1
<1> QED
  BY <1>4, <1>5

-----------------------------------------------------------------------------
(* The steps.                                                                *)
PlanInv == PlanTypeOK /\ LastSaid(Heard, said) /\ CardsOf(messages)

LEMMA HeardOneMore ==
  ASSUME PlanTypeOK, NEW m \in MessageType, messages' = Append(messages, m)
  PROVE  messages' \in Seq(MessageType) /\ Heard' = Heard \o m.tools
<1>1. messages \in Seq(MessageType)
  BY DEF PlanTypeOK
<1>2. Tools \in Seq(Seq(CallType)) /\ Len(Tools) = Len(messages) /\ Heard = FlattenSeq(Tools)
  BY ToolsAre
<1>3. m.tools \in Seq(CallType)
  BY DEF MessageType
<1> DEFINE all == Append(messages, m)
           t == [i \in DOMAIN all |-> all[i].tools]
           u == Append(Tools, m.tools)
<1>4. /\ all \in Seq(MessageType) /\ Len(messages) \in Nat /\ DOMAIN all = 1 .. Len(messages) + 1
      /\ DOMAIN messages = 1 .. Len(messages)
      /\ all[Len(messages) + 1] = m /\ \A i \in 1 .. Len(messages) : all[i] = messages[i]
  BY <1>1, OneMoreMessage
<1>5. /\ u \in Seq(Seq(CallType)) /\ DOMAIN u = 1 .. Len(messages) + 1
      /\ u[Len(messages) + 1] = m.tools /\ \A i \in 1 .. Len(messages) : u[i] = Tools[i]
      /\ u = [i \in 1 .. Len(messages) + 1 |-> u[i]]
  BY <1>2, <1>3, <1>4
<1>6. t = u
  <2> HIDE DEF all, u
  <2>1. \A i \in 1 .. Len(messages) + 1 : all[i].tools = u[i]
    <3> TAKE i \in 1 .. Len(messages) + 1
    <3>1. CASE i = Len(messages) + 1
      BY <1>4, <1>5, <3>1
    <3>2. CASE i # Len(messages) + 1
      <4>1. i \in 1 .. Len(messages)
        BY <1>4, <3>2
      <4>2. Tools[i] = messages[i].tools
        BY <1>4, <4>1 DEF Tools
      <4> QED
        BY <1>4, <1>5, <4>1, <4>2
    <3> QED
      BY <3>1, <3>2
  <2> QED
    BY <1>4, <1>5, <2>1, Zenon
<1>7. Heard' = FlattenSeq(t)
  BY DEF Heard, HeardIn
<1>8. FlattenSeq(u) = FlattenSeq(Tools) \o m.tools
  BY <1>2, <1>3, FlattenOneMore
<1> QED
  BY <1>2, <1>4, <1>6, <1>7, <1>8

LEMMA MessageKeepsInv ==
  ASSUME PlanInv, NEW tools \in Seq(CallType), NEW job \in BOOLEAN, NEW x,
         Said(tools, said, x), said' = x,
         messages' = Append(messages,
                       [tools |-> DedupeConsecutiveOptions(tools, job), terminal |-> job,
                        asked |-> PresentOptionsSignature(tools)])
  PROVE  messages' \in Seq(MessageType) /\ LastSaid(Heard, said)' /\ CardsOf(messages)'
<1> DEFINE d == DedupeConsecutiveOptions(tools, job)
           asked == PresentOptionsSignature(tools)
           m == [tools |-> d, terminal |-> job, asked |-> asked]
<1>1. PlanTypeOK /\ LastSaid(Heard, said) /\ CardsOf(messages) /\ messages \in Seq(MessageType)
  BY DEF PlanInv, PlanTypeOK
<1>2. /\ d \in Seq(CallType) /\ LastSaid(Heard \o d, x)
      /\ PresentOptionsSignature(d) \in {asked, NoQuestion}
      /\ asked # NoQuestion /\ PresentOptionsSignature(d) = NoQuestion =>
           messages # <<>> /\ job /\ Card(messages, Len(messages)) = asked
      /\ job /\ messages # <<>> /\ PresentOptionsSignature(d) # NoQuestion =>
           Card(messages, Len(messages)) # PresentOptionsSignature(d)
  BY <1>1, Deduped
<1>3. asked \in Texts
  BY SignatureIsText
<1>4. m.tools = d /\ m.terminal = job /\ m.asked = asked
  OBVIOUS
<1>5. m \in MessageType
  <2> HIDE DEF d, asked
  <2> QED
    BY <1>2, <1>3 DEF MessageType
<1>6. messages' = Append(messages, m)
  OBVIOUS
<1> HIDE DEF m, d, asked
<1>7. messages' \in Seq(MessageType) /\ Heard' = Heard \o d
  BY <1>1, <1>4, <1>5, <1>6, HeardOneMore
<1>8. CardsOf(Append(messages, m))
  BY <1>1, <1>2, <1>4, <1>5, CardsOfOneMore
<1>9. LastSaid(Heard, said)'
  <2>1. LastSaid(Heard', said')
    BY <1>2, <1>7
  <2> QED
    BY <2>1 DEF LastSaid
<1>10. CardsOf(messages)'
  <2>1. CardsOf(messages')
    BY <1>6, <1>8
  <2> QED
    BY <2>1 DEF CardsOf, Card
<1> QED
  BY <1>7, <1>9, <1>10

LEMMA TurnKeepsInv ==
  ASSUME PlanInv, NEW calls \in Replies, NEW blind \in BOOLEAN, NEW deaf \in BOOLEAN,
         NEW job \in BOOLEAN, Turn(calls, blind, deaf, job)
  PROVE  PlanInv'
<1> DEFINE pair == <<[user |-> TRUE, calls |-> <<>>], [user |-> FALSE, calls |-> calls]>>
           seen == IF blind THEN <<>> ELSE calls
           step == LastOf(seen, lastStep[speaker])
           got  == IF deaf THEN <<>> ELSE calls
           back == Backfill(seen, step)
           tools == back \o Collected(got)
           heard == {i \in DOMAIN calls : Counts(calls[i])}
           mid  == IF back # <<>> THEN speaker ELSE said
<1>1. /\ PlanTypeOK /\ LastSaid(Heard, said) /\ CardsOf(messages)
      /\ speaker \in Speakers /\ history \in [Speakers -> Seq(HistoryType)]
      /\ lastStep \in [Speakers -> Texts] /\ said \in Texts
  BY DEF PlanInv, PlanTypeOK
<1>2. calls \in Seq(CallType) /\ <<>> \in Seq(CallType)
  BY RepliesAreCalls
<1>3. /\ history' = [history EXCEPT ![speaker] = @ \o pair]
      /\ lastStep' = [lastStep EXCEPT ![speaker] = step]
      /\ speaker' = speaker
      /\ said' = IF ~deaf /\ heard # {} THEN calls[Latest(heard)].phase ELSE mid
      /\ messages' = Append(messages,
           [tools |-> DedupeConsecutiveOptions(
                        back \o Collected(IF deaf THEN <<>> ELSE CurrentTurn(history'[speaker])), job),
            terminal |-> job,
            asked |-> PresentOptionsSignature(
                        back \o Collected(IF deaf THEN <<>> ELSE CurrentTurn(history'[speaker])))])
  BY DEF Turn, Where
<1>4. history' \in [Speakers -> Seq(HistoryType)] /\ history'[speaker] = history[speaker] \o pair
  <2>1. pair \in Seq(HistoryType)
    <3>1. [user |-> TRUE, calls |-> <<>>] \in HistoryType /\ [user |-> FALSE, calls |-> calls] \in HistoryType
      BY <1>2 DEF HistoryType
    <3> QED
      BY <3>1
  <2>2. history[speaker] \in Seq(HistoryType)
    BY <1>1
  <2> HIDE DEF pair
  <2>3. history[speaker] \o pair \in Seq(HistoryType)
    BY <2>1, <2>2, ConcatProperties
  <2> QED
    BY <1>1, <1>3, <2>3
<1>5. CurrentTurn(history'[speaker]) = calls
  <2>1. history[speaker] \in Seq(HistoryType)
    BY <1>1
  <2> QED
    BY <1>2, <1>4, <2>1, CallsOfTurn
<1>6. seen \in Seq(CallType) /\ got \in Seq(CallType) /\ lastStep[speaker] \in Texts
  BY <1>1, <1>2
<1>7. step \in Texts
  BY <1>6, LastOfIsText
<1>8. messages' = Append(messages,
           [tools |-> DedupeConsecutiveOptions(tools, job), terminal |-> job,
            asked |-> PresentOptionsSignature(tools)])
  BY <1>3, <1>5
<1>9. back \in Seq(CallType) /\ Said(back, said, mid)
  <2> HIDE DEF seen, step
  <2> QED
    BY <1>1, <1>7, BackfillSays DEF Said
<1>10. tools \in Seq(CallType) /\ Said(tools, said, PhaseTo(got, Len(got), mid))
  <2> HIDE DEF back, got, mid
  <2> QED
    BY <1>6, <1>9, CollectedSays
<1>11. said' = PhaseTo(got, Len(got), mid)
  <2>1. CASE deaf
    <3>1. Len(got) = 0
      BY <2>1
    <3> QED
      BY <1>3, <2>1, <3>1, PhaseOneMore
  <2>2. CASE ~deaf
    <3>1. got = calls /\ heard = SignalsTo(calls, Len(calls))
      BY <1>2, <2>2 DEF SignalsTo
    <3> HIDE DEF heard, mid, got
    <3> QED
      BY <1>3, <2>2, <3>1 DEF PhaseTo
  <2> QED
    BY <2>1, <2>2
<1>12. messages' \in Seq(MessageType) /\ LastSaid(Heard, said)' /\ CardsOf(messages)'
  <2> HIDE DEF tools, got, mid
  <2> QED
    BY <1>8, <1>10, <1>11, MessageKeepsInv
<1>13. said' \in Texts
  <2>1. mid \in Texts
    BY <1>1, Zenon DEF Texts
  <2>2. CASE ~deaf /\ heard # {}
    <3>1. heard \in SUBSET (1 .. Len(calls)) /\ Len(calls) \in Nat
      BY <1>2
    <3>2. Latest(heard) \in heard
      <4> HIDE DEF heard
      <4> QED
        BY <2>2, <3>1, LatestIs
    <3>3. calls[Latest(heard)].phase \in Phases
      <4> DEFINE l == Latest(heard)
      <4>1. Counts(calls[l])
        BY <3>2
      <4> HIDE DEF l
      <4> QED
        BY <4>1 DEF Counts, l
    <3>4. Phases \subseteq Texts
      BY Zenon DEF Texts, Speakers
    <3> QED
      BY <1>3, <2>2, <3>3, <3>4
  <2>3. CASE ~(~deaf /\ heard # {})
    BY <1>3, <2>1, <2>3
  <2> QED
    BY <2>2, <2>3
<1>14. lastStep' \in [Speakers -> Texts] /\ speaker' \in Speakers
  <2> HIDE DEF step
  <2> QED
    BY <1>1, <1>3, <1>7
<1> QED
  BY <1>4, <1>12, <1>13, <1>14 DEF PlanInv, PlanTypeOK

LEMMA FailureKeepsInv ==
  ASSUME PlanInv, TurnFails
  PROVE  PlanInv'
<1>1. <<>> \in Seq(CallType) /\ FALSE \in BOOLEAN /\ PresentOptionsSignature(<<>>) = NoQuestion
  BY NoCardOfNothing
<1>2. DedupeConsecutiveOptions(<<>>, FALSE) = <<>>
  BY <1>1 DEF DedupeConsecutiveOptions
<1>3. messages' = Append(messages,
        [tools |-> DedupeConsecutiveOptions(<<>>, FALSE), terminal |-> FALSE,
         asked |-> PresentOptionsSignature(<<>>)])
  BY <1>1, <1>2 DEF TurnFails
<1>4. Said(<<>>, said, said) /\ said' = said
  <2>1. ASSUME NEW h \in Seq(CallType), LastSaid(h, said) PROVE LastSaid(h \o <<>>, said)
    BY <2>1, NoneOrAll
  <2> QED
    BY <2>1 DEF Said, TurnFails
<1>5. messages' \in Seq(MessageType) /\ LastSaid(Heard, said)' /\ CardsOf(messages)'
  BY <1>1, <1>3, <1>4, MessageKeepsInv
<1>6. speaker' = speaker /\ history' = history /\ lastStep' = lastStep
  BY DEF TurnFails
<1> QED
  BY <1>4, <1>5, <1>6 DEF PlanInv, PlanTypeOK

(* What does not touch the messages keeps what was heard.                    *)
LEMMA SilenceKeepsInv ==
  ASSUME PlanInv, messages' = messages, said' = said,
         speaker' \in Speakers, history' \in [Speakers -> Seq(HistoryType)],
         lastStep' \in [Speakers -> Texts]
  PROVE  PlanInv'
<1>1. Heard' = Heard
  BY DEF Heard
<1>2. LastSaid(Heard, said)'
  <2>1. LastSaid(Heard', said')
    BY <1>1 DEF PlanInv
  <2> QED
    BY <2>1 DEF LastSaid
<1>3. CardsOf(messages)'
  <2>1. CardsOf(messages')
    BY DEF PlanInv
  <2> QED
    BY <2>1 DEF CardsOf, Card
<1> QED
  BY <1>2, <1>3 DEF PlanInv, PlanTypeOK

THEOREM PlanInvariant == Spec => []PlanInv
<1>1. Init => PlanInv
  <2> SUFFICES ASSUME Init PROVE PlanInv
    OBVIOUS
  <2>1. <<>> \in Seq(HistoryType) /\ <<>> \in Seq(MessageType)
    OBVIOUS
  <2>2. NoPhase \in Texts /\ NoStep \in Texts /\ speaker \in Speakers /\ said \in Texts
    BY Zenon DEF Init, Texts, Speakers
  <2>3. PlanTypeOK
    BY <2>1, <2>2 DEF Init, PlanTypeOK
  <2>4. Heard = <<>>
    <3>1. Tools = <<>>
      BY DEF Init, Tools
    <3>2. FlattenSeq(<<>>) = <<>>
      BY DEF FlattenSeq
    <3> QED
      BY <3>1, <3>2 DEF Heard, HeardIn, Tools
  <2>5. LastSaid(Heard, said)
    BY <2>4 DEF Init, LastSaid, Signals
  <2>6. CardsOf(messages)
    BY DEF Init, CardsOf
  <2> QED
    BY <2>3, <2>5, <2>6 DEF PlanInv
<1>2. PlanInv /\ [Next]_vars => PlanInv'
  <2> SUFFICES ASSUME PlanInv, [Next]_vars PROVE PlanInv'
    OBVIOUS
  <2>1. /\ speaker \in Speakers /\ history \in [Speakers -> Seq(HistoryType)]
        /\ lastStep \in [Speakers -> Texts] /\ NoStep \in Texts
    BY Zenon DEF PlanInv, PlanTypeOK, Texts
  <2>2. CASE HandOver
    <3>1. messages' = messages /\ said' = said /\ history' = history
      BY <2>2 DEF HandOver
    <3>2. speaker' \in Speakers
      BY <2>2 DEF HandOver, Speakers
    <3>3. lastStep' \in [Speakers -> Texts]
      BY <2>1, <2>2, <3>2 DEF HandOver
    <3> QED
      BY <2>1, <3>1, <3>2, <3>3, SilenceKeepsInv
  <2>3. CASE Turns
    <3>1. PICK calls \in Replies :
            \E blind \in BOOLEAN : \E deaf \in BOOLEAN : \E job \in BOOLEAN : Turn(calls, blind, deaf, job)
      BY <2>3, Zenon DEF Turns
    <3>2. PICK blind \in BOOLEAN : \E deaf \in BOOLEAN : \E job \in BOOLEAN : Turn(calls, blind, deaf, job)
      BY <3>1
    <3>3. PICK deaf \in BOOLEAN : \E job \in BOOLEAN : Turn(calls, blind, deaf, job)
      BY <3>2
    <3>4. PICK job \in BOOLEAN : Turn(calls, blind, deaf, job)
      BY <3>3
    <3> QED
      BY <3>4, TurnKeepsInv
  <2>4. CASE TurnFails
    BY <2>4, FailureKeepsInv
  <2>5. CASE SessionDies
    <3>1. messages' = messages /\ said' = said /\ speaker' = "orchestrator"
      BY <2>5 DEF SessionDies
    <3>2. speaker' \in Speakers
      BY <3>1 DEF Speakers
    <3>3. <<>> \in Seq(HistoryType)
      OBVIOUS
    <3>4. history' \in [Speakers -> Seq(HistoryType)] /\ lastStep' \in [Speakers -> Texts]
      BY <2>1, <2>5, <3>3 DEF SessionDies
    <3> QED
      BY <3>1, <3>2, <3>4, SilenceKeepsInv
  <2>6. CASE Done \/ UNCHANGED vars
    <3>1. UNCHANGED vars
      BY <2>6 DEF Done
    <3> QED
      BY <2>1, <3>1, SilenceKeepsInv DEF vars
  <2> QED
    BY <2>2, <2>3, <2>4, <2>5, <2>6 DEF Next
<1> QED
  BY <1>1, <1>2, PTL DEF Spec

(* In every reachable state, whatever the agent says, the bar lists all that *)
(* was reached in the run the agent is in, and nothing that was reached     *)
(* before it entered the phase (derivePlan).                                *)
THEOREM ListsThisPhase == Spec => []StepsAreOfThisPhase
<1>1. PlanInv => StepsAreOfThisPhase
  BY StepsOfHeard DEF PlanInv
<1> QED
  BY <1>1, PlanInvariant, PTL

(* In every reachable state the bar is in the phase the agent last said: the *)
(* backfilled signals, the turns that could not be fetched and the history  *)
(* of a resumed agent do not move it (extractSessionData).                  *)
THEOREM FollowsAgent == Spec => []BarFollowsAgent
<1>1. PlanInv => BarFollowsAgent
  <2> SUFFICES ASSUME PlanInv PROVE BarFollowsAgent
    OBVIOUS
  <2>1. LastSaid(Heard, Bar.phase) /\ LastSaid(Heard, said)
    BY PhaseOfHeard DEF PlanInv
  <2>2. DOMAIN Heard \subseteq Nat
    <3>1. Heard \in Seq(CallType)
      BY PlanOfHeard DEF PlanInv
    <3>2. DOMAIN Heard = 1 .. Len(Heard)
      BY <3>1
    <3> QED
      BY <3>2
  <2> QED
    BY <2>1, <2>2, SaidOnce DEF BarFollowsAgent
<1> QED
  BY <1>1, PlanInvariant, PTL

(* In every reachable state a question that was heard has its card, and no   *)
(* card follows the same one (dedupeConsecutiveOptions).                    *)
THEOREM HasItsCard == Spec => []QuestionHasItsCard
<1>1. PlanInv => QuestionHasItsCard
  BY CardsAreBelow DEF PlanInv
<1> QED
  BY <1>1, PlanInvariant, PTL

=============================================================================
