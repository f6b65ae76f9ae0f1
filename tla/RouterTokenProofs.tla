-------------------------- MODULE RouterTokenProofs --------------------------
(***************************************************************************)
(* What the Router counts: machine-checked proofs about the token loops of *)
(* RouterRequests and the invariants that rest on them, for any requests,  *)
(* search results, budgets and numbers of faults.                          *)
(*                                                                         *)
(* The loops over the history, the text and the references are recursive   *)
(* functions.  LoopRuns says that a function with the equations of a loop  *)
(* exists, UpTo is induction over its rounds (from the least natural       *)
(* number of a set), and LoopsTakeAsMany says what the two loops over the  *)
(* budget have in common.  TokensOK then says, for every stage of a        *)
(* handler, what has been counted by then and for which request; a change  *)
(* of the budget, a crash or a failed write between two stages leaves it   *)
(* true.                                                                   *)
(***************************************************************************)
EXTENDS RouterRequestsProofs, FiniteSetTheorems, SequenceTheorems, WellFoundedInduction

-----------------------------------------------------------------------------
(* Induction and loops.                                                      *)

LEMMA LeastNatural ==
    ASSUME NEW T \in SUBSET Nat, T # {}
    PROVE  \E x \in T : \A y \in T : x <= y
<1>1. \E x \in T : \A y \in T : ~ (<<y, x>> \in OpToRel(<, Nat))
  BY WFMin, NatLessThanWellFounded
<1>2. \A x, y \in Nat : <<y, x>> \in OpToRel(<, Nat) <=> y < x
  BY DEF OpToRel
<1>3. PICK x \in T : \A y \in T : ~ (<<y, x>> \in OpToRel(<, Nat))
  BY <1>1
<1>4. ASSUME NEW y \in T PROVE x <= y
  <2>1. x \in Nat /\ y \in Nat /\ ~(y < x)
    BY <1>2, <1>3
  <2>2. QED
    BY <2>1
<1>5. QED
  BY <1>4

(* What holds of 0 and is handed on by every round holds of all rounds.      *)
LEMMA UpTo ==
    ASSUME NEW n \in Nat, NEW T, 0 \in T,
           \A i \in 1 .. n : i - 1 \in T => i \in T
    PROVE  0 .. n \subseteq T
<1> DEFINE Out == (0 .. n) \ T
<1> SUFFICES ASSUME Out # {} PROVE FALSE
  OBVIOUS
<1>1. PICK x \in Out : \A y \in Out : x <= y
  <2>1. Out \in SUBSET Nat
    OBVIOUS
  <2> HIDE DEF Out
  <2>2. QED
    BY <2>1, LeastNatural
<1>2. x \in 1 .. n /\ x - 1 \in 0 .. n /\ x - 1 \notin Out
  BY <1>1
<1>3. QED
  BY <1>1, <1>2

(* f holds the states of a loop of n rounds, each of which takes the state   *)
(* that the round before has left.                                           *)
LoopOf(n, S, start, step, f) ==
    f \in [0 .. n -> S] /\ f[0] = start /\ \A i \in 1 .. n : f[i] = step[i][f[i - 1]]

LEMMA LoopRuns ==
    ASSUME NEW n \in Nat, NEW S, NEW start \in S, NEW step \in [1 .. n -> [S -> S]]
    PROVE  \E f : LoopOf(n, S, start, step, f)
<1> DEFINE Runs(k, f) == f[0] = start /\ \A i \in 1 .. k : f[i] = step[i][f[i - 1]]
           T == {k \in 0 .. n : \E f \in [0 .. k -> S] : Runs(k, f)}
<1>1. 0 \in T
  <2> DEFINE f == [i \in 0 .. 0 |-> start]
  <2>1. f \in [0 .. 0 -> S] /\ Runs(0, f)
    OBVIOUS
  <2> HIDE DEF f
  <2>2. \E h \in [0 .. 0 -> S] : Runs(0, h)
    BY <2>1
  <2> HIDE DEF Runs
  <2>3. QED
    BY <2>2
<1>2. ASSUME NEW k \in 1 .. n, k - 1 \in T PROVE k \in T
  <2>1. PICK f \in [0 .. k - 1 -> S] : Runs(k - 1, f)
    BY <1>2
  <2> DEFINE last == step[k][f[k - 1]]
             g == [i \in 0 .. k |-> IF i = k THEN last ELSE f[i]]
  <2>2. last \in S
    <3>1. k - 1 \in 0 .. k - 1
      OBVIOUS
    <3>2. f[k - 1] \in S
      BY <2>1, <3>1
    <3>3. QED
      BY <3>2
  <2>3. ASSUME NEW i \in 0 .. k PROVE g[i] \in S
    <3>1. CASE i = k
      BY <2>2, <3>1
    <3>2. CASE i # k
      <4>1. i \in 0 .. k - 1
        BY <3>2
      <4>2. QED
        BY <2>1, <3>2, <4>1
    <3>3. QED
      BY <3>1, <3>2
  <2>4. g \in [0 .. k -> S]
    BY <2>3
  <2>5. ASSUME NEW i \in 1 .. k PROVE g[i] = step[i][g[i - 1]]
    <3>1. i \in 0 .. k /\ i - 1 \in 0 .. k /\ i - 1 # k
      OBVIOUS
    <3>2. g[i - 1] = f[i - 1]
      BY <3>1
    <3>3. CASE i = k
      BY <3>1, <3>2, <3>3
    <3>4. CASE i # k
      <4>1. i \in 1 .. k - 1
        BY <3>4
      <4>2. QED
        BY <2>1, <3>1, <3>2, <3>4, <4>1
    <3>5. QED
      BY <3>3, <3>4
  <2>6. g[0] = start
    BY <2>1
  <2>7. Runs(k, g)
    BY <2>5, <2>6
  <2> HIDE DEF g
  <2>8. QED
    BY <2>4, <2>7
<1>3. 0 .. n \subseteq T
  <2> HIDE DEF T
  <2>1. QED
    BY <1>1, <1>2, UpTo
<1>4. n \in T
  BY <1>3
<1>5. QED
  BY <1>4 DEF LoopOf

LEMMA LoopStates ==
    ASSUME NEW n \in Nat, NEW S, NEW start, NEW step, NEW f, LoopOf(n, S, start, step, f),
           NEW i \in 1 .. n
    PROVE  f[i - 1] \in S /\ f[i] = step[i][f[i - 1]]
<1>1. i - 1 \in 0 .. n
  OBVIOUS
<1>2. QED
  BY <1>1 DEF LoopOf

-----------------------------------------------------------------------------
(* The history.                                                              *)

LEMMA HistoryLoop ==
    ASSUME NEW messages \in Seq(Message), Len(messages) > 0
    PROVE  /\ \A i \in 1 .. Len(messages) : HistoryFrom(messages, i) \in Nat
           /\ HistoryFrom(messages, Len(messages)) = 0
<1> DEFINE n == Len(messages)
           Sums(f) == f = [k \in 1 .. n |-> IF k = n THEN 0 ELSE messages[k].tokens + f[k + 1]]
           sum == CHOOSE f : Sums(f)
           step == [i \in 1 .. (n - 1) |-> [s \in Nat |-> messages[n - i].tokens + s]]
<1>1. n \in Nat \ {0} /\ n - 1 \in Nat /\ \A k \in 1 .. n : messages[k].tokens \in Nat
  <2>1. n \in Nat \ {0} /\ n - 1 \in Nat
    BY LenProperties
  <2>2. ASSUME NEW k \in 1 .. n PROVE messages[k] \in Message
    BY <2>2, ElementOfSeq
  <2>3. \A m \in Message : m.tokens \in Nat
    BY DEF Message
  <2>4. QED
    BY <2>1, <2>2, <2>3
<1>2. \A i \in 1 .. n : HistoryFrom(messages, i) = sum[i]
  BY DEF HistoryFrom
<1>3. step \in [1 .. (n - 1) -> [Nat -> Nat]]
  BY <1>1
<1>4. PICK h \in [0 .. (n - 1) -> Nat] :
         h[0] = 0 /\ \A i \in 1 .. (n - 1) : h[i] = step[i][h[i - 1]]
  <2> HIDE DEF n, step
  <2>1. \E h : LoopOf(n - 1, Nat, 0, step, h)
    BY <1>1, <1>3, LoopRuns
  <2>2. QED
    BY <2>1 DEF LoopOf
<1> DEFINE g == [k \in 1 .. n |-> h[n - k]]
<1>5. \A k \in 1 .. n : g[k] \in Nat
  BY <1>1
<1>6. Sums(g)
  <2>1. ASSUME NEW k \in 1 .. n, k # n PROVE g[k] = messages[k].tokens + g[k + 1]
    <3>1. n - k \in 1 .. (n - 1) /\ k + 1 \in 1 .. n /\ n - k - 1 = n - (k + 1) /\ n - (n - k) = k
      BY <1>1, <2>1
    <3>2. h[n - k] = step[n - k][h[n - k - 1]]
      BY <1>4, <3>1
    <3>3. QED
      BY <1>4, <3>1, <3>2
  <2>2. g[n] = 0
    BY <1>1, <1>4
  <2>3. QED
    BY <2>1, <2>2
<1>7. Sums(sum)
  <2> HIDE DEF g
  <2>1. QED
    BY <1>6
<1>8. sum[n] = 0 /\ \A k \in 1 .. (n - 1) : sum[k] = messages[k].tokens + sum[k + 1]
  <2> HIDE DEF sum
  <2>1. QED
    BY <1>1, <1>7
<1> DEFINE T == {i \in 0 .. (n - 1) : sum[n - i] \in Nat}
<1>9. 0 .. (n - 1) \subseteq T
  <2>1. 0 \in T
    BY <1>1, <1>8
  <2>2. ASSUME NEW i \in 1 .. (n - 1), i - 1 \in T PROVE i \in T
    <3>1. /\ n - i \in 1 .. (n - 1) /\ (n - i) + 1 = n - (i - 1) /\ sum[n - (i - 1)] \in Nat
          /\ messages[n - i].tokens \in Nat
      BY <1>1, <2>2
    <3>2. sum[n - i] = messages[n - i].tokens + sum[(n - i) + 1]
      BY <1>8, <3>1
    <3> HIDE DEF sum, n
    <3>3. QED
      BY <3>1, <3>2
  <2> HIDE DEF T
  <2>3. QED
    BY <1>1, <2>1, <2>2, UpTo
<1>10. ASSUME NEW i \in 1 .. n PROVE sum[i] \in Nat
  <2>1. n - i \in 0 .. (n - 1) /\ n - (n - i) = i
    BY <1>1
  <2> HIDE DEF sum
  <2>2. QED
    BY <1>9, <2>1
<1> HIDE DEF sum, T, step, g, Sums
<1>11. ASSUME NEW i \in 1 .. n PROVE HistoryFrom(messages, i) \in Nat
  <2> HIDE DEF n
  <2>1. QED
    BY <1>2, <1>10
<1>12. HistoryFrom(messages, n) = 0
  <2>1. n \in 1 .. n
    BY <1>1
  <2> HIDE DEF n
  <2>2. QED
    BY <1>2, <1>8, <2>1
<1>13. QED
  BY <1>11, <1>12

LEMMA UserCounted ==
    ASSUME NEW messages \in Seq(Message), HasUser(messages)
    PROVE  LastUser(messages) \in Nat /\ Len(messages) > 0
<1> DEFINE n == Len(messages)
           users == {i \in DOMAIN messages : messages[i].user}
           behind == {n - i : i \in users}
<1>1. n \in Nat /\ DOMAIN messages = 1 .. n
  BY LenProperties
<1>2. users # {} /\ users \subseteq 1 .. n /\ n > 0
  BY <1>1 DEF HasUser
<1>3. behind \in SUBSET Nat /\ behind # {}
  BY <1>1, <1>2
<1>4. PICK x \in behind : \A y \in behind : x <= y
  <2> HIDE DEF behind
  <2>1. QED
    BY <1>3, LeastNatural
<1>5. PICK i \in users : x = n - i
  BY <1>4
<1>6. \A j \in users : j <= i
  <2>1. ASSUME NEW j \in users PROVE j <= i
    <3>1. n - j \in behind /\ i \in 1 .. n /\ j \in 1 .. n
      BY <1>2
    <3>2. x <= n - j
      BY <1>4, <3>1
    <3>3. QED
      BY <1>1, <1>5, <3>1, <3>2
  <2>2. QED
    BY <2>1
<1> DEFINE last == CHOOSE k \in users : \A j \in users : j <= k
<1>7. last \in users
  <2> HIDE DEF users
  <2>1. QED
    BY <1>6
<1>8. messages[last] \in Message
  <2> HIDE DEF last
  <2>1. QED
    BY <1>1, <1>2, <1>7, ElementOfSeq
<1>9. LastUser(messages) = messages[last].tokens
  BY DEF LastUser
<1> HIDE DEF last
<1>10. QED
  BY <1>1, <1>2, <1>8, <1>9 DEF Message

(* What is kept of the history is nothing or within what is allowed.         *)
LEMMA PrunedHistory ==
    ASSUME NEW messages \in Seq(Message), Len(messages) > 0, NEW allowed \in Int
    PROVE  /\ Pruned(messages, allowed) \in Nat
           /\ Pruned(messages, allowed) > 0 => Pruned(messages, allowed) <= allowed
<1> DEFINE n == Len(messages)
           kept == {i \in DOMAIN messages :
                      \A j \in i .. n - 1 : HistoryFrom(messages, j) <= allowed}
           first == CHOOSE i \in kept : \A j \in kept : i <= j
<1>1. n \in Nat \ {0} /\ DOMAIN messages = 1 .. n /\ n \in 1 .. n
  BY LenProperties
<1>2. n \in kept /\ kept \in SUBSET Nat
  BY <1>1
<1>3. first \in kept
  <2> HIDE DEF kept
  <2>1. \E x \in kept : \A y \in kept : x <= y
    BY <1>2, LeastNatural
  <2>2. QED
    BY <2>1
<1>4. Pruned(messages, allowed) = HistoryFrom(messages, first)
  BY DEF Pruned
<1> HIDE DEF first
<1>5. first \in 1 .. n /\ (first < n => HistoryFrom(messages, first) <= allowed)
  <2>1. first \in 1 .. n /\ \A j \in first .. n - 1 : HistoryFrom(messages, j) <= allowed
    BY <1>1, <1>3
  <2>2. first < n => first \in first .. n - 1
    BY <1>1, <2>1
  <2>3. QED
    BY <2>1, <2>2
<1>6. HistoryFrom(messages, first) \in Nat /\ (first = n => HistoryFrom(messages, first) = 0)
  BY <1>5, HistoryLoop
<1>7. first < n \/ first = n
  <2> HIDE DEF n, kept
  <2>1. QED
    BY <1>1, <1>5
<1>8. QED
  BY <1>4, <1>5, <1>6, <1>7

-----------------------------------------------------------------------------
(* The two loops over the candidates.                                        *)

Counted == [used : Nat, taken : Nat, dropped : Nat, blank : Nat]
Nothing == [used |-> 0, taken |-> 0, dropped |-> 0, blank |-> 0]

(* What a round of stitch_context_structured does.                           *)
Round(tokens, budget, before) ==
    IF tokens = 0 THEN [before EXCEPT !.blank = @ + 1]
    ELSE IF before.used + (tokens + Overhead) > budget THEN [before EXCEPT !.dropped = @ + 1]
    ELSE [before EXCEPT !.used = @ + (tokens + Overhead), !.taken = @ + 1]

LEMMA RoundCounts ==
    ASSUME NEW tokens \in Nat, NEW budget \in Nat, NEW before \in Counted
    PROVE  LET after == Round(tokens, budget, before)
           IN  /\ after \in Counted
               /\ after.taken + after.dropped + after.blank =
                    before.taken + before.dropped + before.blank + 1
               /\ before.used <= budget => after.used <= budget
               /\ IF tokens = 0 \/ before.used + (tokens + Overhead) > budget
                  THEN after.used = before.used /\ after.taken = before.taken
                  ELSE /\ after.used = before.used + (tokens + Overhead) /\ after.used # before.used
                       /\ after.taken = before.taken + 1
<1>1. Overhead \in Nat
  BY RouterAssumption
<1>2. PICK used \in Nat, taken \in Nat, dropped \in Nat, blank \in Nat :
         before = [used |-> used, taken |-> taken, dropped |-> dropped, blank |-> blank]
  BY DEF Counted
<1>3. CASE tokens = 0
  BY <1>1, <1>2, <1>3 DEF Round, Counted
<1>4. CASE tokens # 0 /\ before.used + (tokens + Overhead) > budget
  BY <1>1, <1>2, <1>4 DEF Round, Counted
<1>5. CASE tokens # 0 /\ ~(before.used + (tokens + Overhead) > budget)
  <2>1. Round(tokens, budget, before) = [used |-> used + (tokens + Overhead), taken |-> taken + 1,
                                         dropped |-> dropped, blank |-> blank]
    BY <1>2, <1>5 DEF Round
  <2>2. /\ used + (tokens + Overhead) \in Nat /\ used + (tokens + Overhead) # used
        /\ ~(used + (tokens + Overhead) > budget) /\ taken + 1 \in Nat
    BY <1>1, <1>2, <1>5
  <2>3. QED
    BY <1>2, <1>5, <2>1, <2>2 DEF Counted
<1>6. QED
  BY <1>3, <1>4, <1>5

LEMMA StitchLoop ==
    ASSUME NEW list \in Seq(Nat), NEW budget \in Nat
    PROVE  \E done \in [0 .. Len(list) -> Counted] :
              /\ Stitch(list, budget) = done[Len(list)] /\ done[0] = Nothing
              /\ \A i \in 1 .. Len(list) : done[i] = Round(list[i], budget, done[i - 1])
<1> DEFINE n == Len(list)
           Does(f) == f = [i \in 0 .. n |->
                              IF i = 0 THEN Nothing ELSE Round(list[i], budget, f[i - 1])]
           done == CHOOSE f : Does(f)
           step == [i \in 1 .. n |-> [before \in Counted |-> Round(list[i], budget, before)]]
<1>1. n \in Nat /\ Overhead \in Nat /\ \A i \in 1 .. n : list[i] \in Nat
  BY RouterAssumption, LenProperties, ElementOfSeq
<1>2. Nothing \in Counted
  BY DEF Nothing, Counted
<1>3. ASSUME NEW i \in 1 .. n, NEW before \in Counted
      PROVE  Round(list[i], budget, before) \in Counted
  BY <1>1, RoundCounts
<1>4. step \in [1 .. n -> [Counted -> Counted]]
  BY <1>3
<1>5. PICK f : LoopOf(n, Counted, Nothing, step, f)
  <2> HIDE DEF n, step
  <2>1. QED
    BY <1>1, <1>2, <1>4, LoopRuns
<1>6. Does(f)
  <2>1. ASSUME NEW i \in 1 .. n PROVE f[i] = Round(list[i], budget, f[i - 1])
    <3>1. f[i - 1] \in Counted /\ f[i] = step[i][f[i - 1]]
      <4> HIDE DEF n, step
      <4>1. QED
        BY <1>1, <1>5, LoopStates
    <3>2. QED
      BY <3>1
  <2>2. f \in [0 .. n -> Counted] /\ f[0] = Nothing
    BY <1>5 DEF LoopOf
  <2>3. QED
    BY <1>1, <2>1, <2>2
<1>7. Does(done)
  <2> HIDE DEF Does
  <2>1. QED
    BY <1>6
<1>8. Stitch(list, budget) = done[n]
  BY DEF Stitch, Round, Nothing
<1>9. /\ DOMAIN done = 0 .. n /\ done[0] = Nothing
      /\ \A i \in 1 .. n : done[i] = Round(list[i], budget, done[i - 1])
  <2> HIDE DEF done
  <2>1. QED
    BY <1>1, <1>7
<1>10. done \in [0 .. n -> Counted]
  <2> HIDE DEF done
  <2> DEFINE T == {i \in 0 .. n : done[i] \in Counted}
  <2>1. 0 \in T
    BY <1>1, <1>2, <1>9
  <2>2. ASSUME NEW i \in 1 .. n, i - 1 \in T PROVE i \in T
    BY <1>3, <1>9, <2>2
  <2>3. 0 .. n \subseteq T
    <3> HIDE DEF T
    <3>1. QED
      BY <1>1, <2>1, <2>2, UpTo
  <2>4. done = [i \in 0 .. n |-> done[i]]
    BY <1>7
  <2>5. QED
    BY <2>3, <2>4
<1> HIDE DEF done
<1>11. QED
  BY <1>8, <1>9, <1>10

(* What a round of selected_candidate_refs does.                             *)
RefRound(tokens, budget, before) ==
    IF tokens = 0 \/ before + (tokens + Overhead) > budget THEN before
    ELSE before + (tokens + Overhead)

LEMMA RefsLoop ==
    ASSUME NEW list \in Seq(Nat), NEW budget \in Nat
    PROVE  \E used \in [0 .. Len(list) -> Nat] :
              /\ SelectedRefs(list, budget) = {i \in 1 .. Len(list) : used[i] # used[i - 1]} /\ used[0] = 0
              /\ \A i \in 1 .. Len(list) : used[i] = RefRound(list[i], budget, used[i - 1])
<1> DEFINE n == Len(list)
           Does(f) == f = [i \in 0 .. n |->
                              IF i = 0 THEN 0 ELSE RefRound(list[i], budget, f[i - 1])]
           used == CHOOSE f : Does(f)
           step == [i \in 1 .. n |-> [before \in Nat |-> RefRound(list[i], budget, before)]]
<1>1. n \in Nat /\ Overhead \in Nat /\ \A i \in 1 .. n : list[i] \in Nat
  BY RouterAssumption, LenProperties, ElementOfSeq
<1>2. 0 \in Nat /\ DOMAIN list = 1 .. n
  BY LenProperties
<1>3. ASSUME NEW i \in 1 .. n, NEW before \in Nat
      PROVE  RefRound(list[i], budget, before) \in Nat
  BY <1>1 DEF RefRound
<1>4. step \in [1 .. n -> [Nat -> Nat]]
  BY <1>3
<1>5. PICK f : LoopOf(n, Nat, 0, step, f)
  <2> HIDE DEF n, step
  <2>1. QED
    BY <1>1, <1>2, <1>4, LoopRuns
<1>6. Does(f)
  <2>1. ASSUME NEW i \in 1 .. n PROVE f[i] = RefRound(list[i], budget, f[i - 1])
    <3>1. f[i - 1] \in Nat /\ f[i] = step[i][f[i - 1]]
      <4> HIDE DEF n, step
      <4>1. QED
        BY <1>1, <1>5, LoopStates
    <3>2. QED
      BY <3>1
  <2>2. f \in [0 .. n -> Nat] /\ f[0] = 0
    BY <1>5 DEF LoopOf
  <2>3. QED
    BY <1>1, <2>1, <2>2
<1>7. Does(used)
  <2> HIDE DEF Does
  <2>1. QED
    BY <1>6
<1>8. SelectedRefs(list, budget) = {i \in DOMAIN list : used[i] # used[i - 1]}
  BY DEF SelectedRefs, RefRound
<1>9. /\ DOMAIN used = 0 .. n /\ used[0] = 0
      /\ \A i \in 1 .. n : used[i] = RefRound(list[i], budget, used[i - 1])
  <2> HIDE DEF used
  <2>1. QED
    BY <1>1, <1>7
<1>10. used \in [0 .. n -> Nat]
  <2> HIDE DEF used
  <2> DEFINE T == {i \in 0 .. n : used[i] \in Nat}
  <2>1. 0 \in T
    BY <1>1, <1>2, <1>9
  <2>2. ASSUME NEW i \in 1 .. n, i - 1 \in T PROVE i \in T
    BY <1>3, <1>9, <2>2
  <2>3. 0 .. n \subseteq T
    <3> HIDE DEF T
    <3>1. QED
      BY <1>1, <2>1, <2>2, UpTo
  <2>4. used = [i \in 0 .. n |-> used[i]]
    BY <1>7
  <2>5. QED
    BY <2>3, <2>4
<1> HIDE DEF used
<1>11. QED
  BY <1>2, <1>8, <1>9, <1>10

(* stitch_context_structured and selected_candidate_refs (retrieval.py) take *)
(* the same number of candidates from every list, within the budget, and the *)
(* others were dropped or blank.                                             *)
THEOREM LoopsTakeAsMany ==
    ASSUME NEW list \in Seq(Nat), NEW budget \in Nat
    PROVE  LET s == Stitch(list, budget)
           IN  /\ s \in Counted /\ s.used <= budget
               /\ s.taken + s.dropped + s.blank = Len(list)
               /\ s.taken = Cardinality(SelectedRefs(list, budget))
<1> DEFINE n == Len(list)
<1>1. n \in Nat /\ Overhead \in Nat /\ \A i \in 1 .. n : list[i] \in Nat
  BY RouterAssumption, LenProperties, ElementOfSeq
<1>2. PICK done \in [0 .. n -> Counted] :
         /\ Stitch(list, budget) = done[n] /\ done[0] = Nothing
         /\ \A i \in 1 .. n : done[i] = Round(list[i], budget, done[i - 1])
  BY StitchLoop
<1>3. PICK used \in [0 .. n -> Nat] :
         /\ SelectedRefs(list, budget) = {i \in 1 .. n : used[i] # used[i - 1]} /\ used[0] = 0
         /\ \A i \in 1 .. n : used[i] = RefRound(list[i], budget, used[i - 1])
  BY RefsLoop
<1> DEFINE Taken(i) == {j \in 1 .. i : used[j] # used[j - 1]}
           Agrees(i) ==
              /\ done[i].used = used[i] /\ used[i] <= budget
              /\ done[i].taken + done[i].dropped + done[i].blank = i
              /\ IsFiniteSet(Taken(i)) /\ done[i].taken = Cardinality(Taken(i))
           T == {i \in 0 .. n : Agrees(i)}
<1>4. 0 \in T
  <2>1. Taken(0) = {}
    OBVIOUS
  <2>2. IsFiniteSet(Taken(0)) /\ Cardinality(Taken(0)) = 0
    BY <2>1, FS_EmptySet
  <2> HIDE DEF Taken
  <2>3. QED
    BY <1>1, <1>2, <1>3, <2>2 DEF Nothing
<1>5. ASSUME NEW i \in 1 .. n, i - 1 \in T PROVE i \in T
  <2>1. /\ Agrees(i - 1) /\ i - 1 \in 0 .. n /\ list[i] \in Nat
        /\ done[i - 1] \in Counted /\ used[i - 1] \in Nat
    BY <1>1, <1>5
  <2>2. /\ done[i] = Round(list[i], budget, done[i - 1])
        /\ used[i] = RefRound(list[i], budget, used[i - 1])
    BY <1>2, <1>3
  <2>3. CASE list[i] = 0 \/ used[i - 1] + (list[i] + Overhead) > budget
    <3>1. used[i] = used[i - 1]
      BY <2>2, <2>3 DEF RefRound
    <3>2. Taken(i) = Taken(i - 1)
      BY <2>1, <3>1
    <3> HIDE DEF Taken
    <3>3. /\ done[i].used = done[i - 1].used /\ done[i].taken = done[i - 1].taken
          /\ done[i].taken + done[i].dropped + done[i].blank =
               done[i - 1].taken + done[i - 1].dropped + done[i - 1].blank + 1
      BY <2>1, <2>2, <2>3, RoundCounts
    <3>4. QED
      BY <2>1, <3>1, <3>2, <3>3
  <2>4. CASE ~(list[i] = 0 \/ used[i - 1] + (list[i] + Overhead) > budget)
    <3>1. used[i] = used[i - 1] + (list[i] + Overhead)
      BY <2>2, <2>4 DEF RefRound
    <3>2. used[i] # used[i - 1] /\ used[i] <= budget
      BY <1>1, <2>1, <2>4, <3>1
    <3>3. Taken(i) = Taken(i - 1) \cup {i} /\ i \notin Taken(i - 1)
      BY <2>1, <3>2
    <3> HIDE DEF Taken
    <3>4. IsFiniteSet(Taken(i)) /\ Cardinality(Taken(i)) = Cardinality(Taken(i - 1)) + 1
      <4>1. IsFiniteSet(Taken(i - 1))
        BY <2>1
      <4> HIDE DEF Agrees
      <4>2. Cardinality(Taken(i - 1) \cup {i}) = Cardinality(Taken(i - 1)) + 1
            /\ IsFiniteSet(Taken(i - 1) \cup {i})
        BY <3>3, <4>1, FS_AddElement
      <4>3. QED
        BY <3>3, <4>2
    <3>5. /\ done[i].used = done[i - 1].used + (list[i] + Overhead)
          /\ done[i].taken = done[i - 1].taken + 1
          /\ done[i].taken + done[i].dropped + done[i].blank =
               done[i - 1].taken + done[i - 1].dropped + done[i - 1].blank + 1
      <4>1. ~(list[i] = 0 \/ done[i - 1].used + (list[i] + Overhead) > budget)
        BY <2>1, <2>4
      <4> HIDE DEF Agrees
      <4>2. QED
        BY <2>1, <2>2, <4>1, RoundCounts
    <3>6. QED
      BY <2>1, <3>1, <3>2, <3>4, <3>5
  <2>5. QED
    BY <2>3, <2>4
<1>6. n \in T
  <2> HIDE DEF T, n
  <2>1. 0 .. n \subseteq T
    BY <1>1, <1>4, <1>5, UpTo
  <2>2. QED
    BY <1>1, <2>1
<1>7. SelectedRefs(list, budget) = Taken(n) /\ Agrees(n) /\ done[n] \in Counted
  BY <1>1, <1>3, <1>6
<1> HIDE DEF Taken
<1>8. QED
  BY <1>2, <1>7
-----------------------------------------------------------------------------
(* The ranking.                                                              *)

LEMMA RerankedList ==
    ASSUME NEW raw \in Seq(Nat), NEW list \in Reranked(raw)
    PROVE  list \in Seq(Nat) /\ Len(list) = AtMost(TopK, Len(raw))
<1> DEFINE k == AtMost(TopK, Len(raw))
<1>1. k \in Nat /\ DOMAIN raw = 1 .. Len(raw)
  BY RouterAssumption, LenProperties DEF AtMost
<1>2. PICK pick \in [1 .. k -> DOMAIN raw] : list = [i \in 1 .. k |-> raw[pick[i]]]
  BY DEF Reranked
<1> HIDE DEF k
<1>3. ASSUME NEW i \in 1 .. k PROVE raw[pick[i]] \in Nat
  <2>1. pick[i] \in 1 .. Len(raw)
    BY <1>1, <1>2
  <2>2. QED
    BY <2>1, ElementOfSeq
<1>4. list \in [1 .. k -> Nat]
  BY <1>2, <1>3
<1>5. list \in Seq(Nat) /\ Len(list) = k
  BY <1>1, <1>4
<1>6. QED
  BY <1>5 DEF k
-----------------------------------------------------------------------------
(* What has been counted of a call at each of its stages.                    *)

Middle == Retrieval \cup {"request_input", "stitch"}
Early == {"idle", "bridge", "begin", "budget", "reference_search", "reference_get", "account"}
         \cup Middle

(* The stage is one of the request.                                          *)
BodyOK(c) ==
    LET h == call[c] IN
    /\ h.stage # "idle" => h.request \in Requests
    /\ h.stage = "begin" => ~Unrecorded(h.request)
    /\ h.stage = "budget" => Op(c) = "chat" /\ HasUser(h.request.messages)
    /\ h.stage \in Middle => Op(c) \in {"chat", "context"}

(* History and context are cut for the budgets that were read for them.      *)
BudgetOK(c) ==
    LET h == call[c] IN
    /\ h.stage = "idle" => h.historyBudget = NoBudget
    /\ h.historyBudget # NoBudget =>
         /\ h.request \in Requests /\ HasUser(h.request.messages) /\ h.historyBudget \in Budgets
         /\ h.history > 0 => h.history <= Allowed(h.request.messages, h.historyBudget)
    /\ h.context <= ContextCap(c)

(* The retrieval row and what the client is given.                           *)
AccountOK(c) ==
    LET h == call[c]
        a == accounts[c]
    IN  /\ h.stage \in Early => h.items = 0 /\ a = NoAccount /\ h.contextBudget = NoBudget
        /\ a # NoAccount =>
             /\ a.selected = h.items
             /\ a.selected + a.dropped + a.blank =
                  IF Op(c) = "search" THEN a.candidates ELSE AtMost(TopK, a.candidates)

TokensOK(c) == BodyOK(c) /\ BudgetOK(c) /\ AccountOK(c)

ConfigOK ==
    /\ table \in Budgets /\ cached \in Budgets /\ fresh \in BOOLEAN
    /\ held \in [Calls -> Budgets \cup {NoBudget}]
    /\ changes \in Nat /\ faults \in Nat

CountsOK(c) ==
    /\ {call[c].historyBudget, call[c].contextBudget} \subseteq Budgets \cup {NoBudget}
    /\ {call[c].history, call[c].context, call[c].items, call[c].answer} \subseteq Nat
    /\ call[c].raw \in Seq(Nat)

TokenInv ==
    /\ ConfigOK /\ accounts \in [Calls -> Account \cup {NoAccount}]
    /\ \A c \in Calls : CountsOK(c) /\ TokensOK(c)

LEMMA TokenTypes == TokenInv => TokenTypeOK
BY DEF TokenInv, ConfigOK, CountsOK, TokenTypeOK

LEMMA InitTokens == Init => TokenInv
<1> SUFFICES ASSUME Init PROVE TokenInv
  OBVIOUS
<1>1. /\ Budgets \subseteq Nat /\ DefaultBudget \in Budgets
  BY RouterAssumption
<1>2. ConfigOK /\ accounts \in [Calls -> Account \cup {NoAccount}]
  BY <1>1 DEF Init, ConfigOK
<1>3. ASSUME NEW c \in Calls PROVE CountsOK(c) /\ TokensOK(c)
  <2>1. call[c] = Fresh /\ accounts[c] = NoAccount
    BY DEF Init
  <2>2. CountsOK(c)
    BY <2>1 DEF CountsOK, Fresh
  <2>3. BodyOK(c)
    BY <2>1 DEF BodyOK, Fresh, Middle, Retrieval
  <2>4. BudgetOK(c)
    BY <2>1, RouterAssumption DEF BudgetOK, ContextCap, Fresh
  <2>5. AccountOK(c)
    BY <2>1 DEF AccountOK, Fresh
  <2>6. QED
    BY <2>2, <2>3, <2>4, <2>5 DEF TokensOK
<1>4. QED
  BY <1>2, <1>3 DEF TokenInv
-----------------------------------------------------------------------------
(* How a handler goes on.                                                    *)

OthersStay(c) == \A d \in Calls \ {c} : call'[d] = call[d] /\ accounts'[d] = accounts[d]

LEMMA CallTokens ==
    ASSUME TokenInv, NEW c \in Calls, ConfigOK', accounts' \in [Calls -> Account \cup {NoAccount}],
           OthersStay(c), CountsOK(c)', TokensOK(c)'
    PROVE  TokenInv'
<1>1. ASSUME NEW d \in Calls, d # c PROVE CountsOK(d)' /\ TokensOK(d)'
  <2>1. CountsOK(d) /\ TokensOK(d) /\ call'[d] = call[d] /\ accounts'[d] = accounts[d]
    BY <1>1 DEF TokenInv, OthersStay
  <2>2. QED
    BY <2>1 DEF CountsOK, TokensOK, BodyOK, BudgetOK, ContextCap, AccountOK, Op
<1>2. QED
  BY <1>1 DEF TokenInv

(* The handler goes on without reading or writing a count.                   *)
Keeps(c) ==
    /\ OthersStay(c) /\ accounts' = accounts
    /\ ConfigOK'
    /\ call'[c].history = call[c].history /\ call'[c].historyBudget = call[c].historyBudget
    /\ call'[c].context = call[c].context /\ call'[c].contextBudget = call[c].contextBudget
    /\ call'[c].items = call[c].items /\ call'[c].raw \in Seq(Nat) /\ call'[c].answer \in Nat

LEMMA KeptTokens ==
    ASSUME TokenInv, NEW c \in Calls, Keeps(c), BodyOK(c)', call'[c].stage # "idle",
           call'[c].stage \in Early => call[c].stage \in Early,
           call'[c].request = call[c].request \/ call[c].stage = "idle"
    PROVE  TokenInv'
<1>1. ConfigOK /\ CountsOK(c) /\ TokensOK(c) /\ accounts \in [Calls -> Account \cup {NoAccount}]
  BY DEF TokenInv
<1>2. ConfigOK' /\ accounts' \in [Calls -> Account \cup {NoAccount}]
  BY <1>1 DEF Keeps
<1>3. CountsOK(c)'
  BY <1>1 DEF CountsOK, Keeps
<1>4. call[c].stage = "idle" => call[c].historyBudget = NoBudget /\ accounts[c] = NoAccount
  BY <1>1 DEF TokensOK, BudgetOK, AccountOK, Early
<1>6. BudgetOK(c)'
  BY <1>1, <1>4 DEF TokensOK, BudgetOK, ContextCap, Keeps
<1>7. AccountOK(c)'
  BY <1>1, <1>4 DEF TokensOK, AccountOK, Keeps, Op
<1>8. OthersStay(c)
  BY DEF Keeps
<1>9. QED
  BY <1>2, <1>3, <1>6, <1>7, <1>8, CallTokens DEF TokensOK

(* One lemma for each action or group of actions.                            *)

LEMMA TelemetryFaults ==
    ASSUME TokenInv, NEW c \in Calls, NEW name, NEW how, NEW error,
           BeginRow(c) \/ EndRow(c, error) \/ BeginStep(c, name) \/ EndStep(c, name, how)
    PROVE  faults' \in Nat
<1>1. faults \in Nat
  BY DEF TokenInv, ConfigOK
<1>2. Recorded(c) \/ NotRecorded(c)
  BY DEF BeginRow, EndRow, BeginStep, EndStep
<1>3. QED
  BY <1>1, <1>2 DEF Recorded, NotRecorded

LEMMA ReceiveTokens ==
    ASSUME ControlTypeOK, TokenInv, NEW c \in Calls, Receive(c)
    PROVE  TokenInv'
<1>1. PICK r \in Requests :
         call' = [call EXCEPT ![c].request = r,
                              ![c].stage = IF Refused(r) THEN "answered"
                                           ELSE IF r.op = "glap" THEN "bridge" ELSE "begin",
                              ![c].answer = IF ~Refused(r) THEN 0 ELSE IF r.op = "chat" THEN 200 ELSE 422]
  BY DEF Receive
<1>2. CountsOK(c) /\ ConfigOK /\ DOMAIN call = Calls /\ DOMAIN call[c] = DOMAIN Fresh
  BY DEF TokenInv, ControlTypeOK
<1>3. /\ \A d \in Calls \ {c} : call'[d] = call[d]
      /\ call'[c] = [call[c] EXCEPT !.request = r,
                       !.stage = IF Refused(r) THEN "answered"
                                 ELSE IF r.op = "glap" THEN "bridge" ELSE "begin",
                       !.answer = IF ~Refused(r) THEN 0 ELSE IF r.op = "chat" THEN 200 ELSE 422]
  BY <1>1, <1>2
<1>4. /\ call'[c].request = r /\ call'[c].stage \in {"answered", "bridge", "begin"}
      /\ call'[c].stage = "begin" => ~Unrecorded(r)
      /\ call'[c].answer \in Nat /\ call'[c].raw = call[c].raw
      /\ call'[c].history = call[c].history /\ call'[c].historyBudget = call[c].historyBudget
      /\ call'[c].context = call[c].context /\ call'[c].contextBudget = call[c].contextBudget
      /\ call'[c].items = call[c].items
  BY <1>2, <1>3 DEF Fresh, Unrecorded
<1>5. Keeps(c)
  <2>1. ConfigOK'
    BY <1>2 DEF Receive, ConfigOK, configVars
  <2>2. QED
    BY <1>2, <1>3, <1>4, <2>1 DEF Keeps, OthersStay, Receive, CountsOK
<1>6. BodyOK(c)'
  BY <1>4 DEF BodyOK, Middle, Retrieval
<1>7. call[c].stage = "idle" /\ "idle" \in Early
  BY DEF Receive, Early
<1>8. QED
  BY <1>4, <1>5, <1>6, <1>7, KeptTokens

(* The handler goes on to a stage.                                           *)
GoesTo(c, stage) ==
    /\ DOMAIN call' = Calls /\ \A d \in Calls \ {c} : call'[d] = call[d]
    /\ call'[c].stage = stage /\ call'[c].request = call[c].request
    /\ call'[c].history = call[c].history /\ call'[c].historyBudget = call[c].historyBudget
    /\ call'[c].context = call[c].context /\ call'[c].contextBudget = call[c].contextBudget
    /\ call'[c].items = call[c].items /\ call'[c].answer \in Nat

Last == {"account", "reference_search", "reference_get", "end", "answered", "hung"} \cup Builder

LEMMA GoneTokens ==
    ASSUME TokenInv, NEW c \in Calls, NEW stage, GoesTo(c, stage), call'[c].raw \in Seq(Nat),
           UNCHANGED <<configVars, accounts, changes>>, faults' \in Nat,
           call[c].stage # "idle", stage # "idle", stage \in Early => call[c].stage \in Early,
           \/ stage \in Last
           \/ stage \in Middle /\ Op(c) \in {"chat", "context"}
           \/ stage = "budget" /\ Op(c) = "chat" /\ HasUser(call[c].request.messages)
           \/ stage = call[c].stage
    PROVE  TokenInv'
<1>1. TokensOK(c) /\ call'[c].stage = stage /\ call'[c].request = call[c].request
  BY DEF TokenInv, GoesTo
<1>2. Last \cap ({"idle", "begin", "budget"} \cup Middle) = {}
      /\ Middle \cap {"idle", "begin", "budget"} = {}
  BY DEF Last, Middle, Retrieval, Builder
<1>3. BodyOK(c)'
  BY <1>1, <1>2 DEF TokensOK, BodyOK, Op
<1>4. Keeps(c)
  <2>1. ConfigOK'
    BY DEF TokenInv, ConfigOK, configVars
  <2>2. QED
    BY <2>1 DEF Keeps, GoesTo, OthersStay
<1>5. QED
  BY <1>1, <1>3, <1>4, KeptTokens

LEMMA BridgeTokens ==
    ASSUME ControlTypeOK, TokenInv, NEW c \in Calls, Bridge(c)
    PROVE  TokenInv'
<1>1. CountsOK(c) /\ ConfigOK /\ DOMAIN call = Calls /\ DOMAIN call[c] = DOMAIN Fresh
  BY DEF TokenInv, ControlTypeOK
<1>2. GoesTo(c, "answered") /\ call'[c].raw = call[c].raw
  BY <1>1 DEF Bridge, GoesTo, Fresh
<1>3. "answered" \in Last /\ "answered" \notin Early
  BY DEF Last, Early, Middle, Retrieval
<1>4. UNCHANGED <<configVars, accounts, changes, faults>> /\ call[c].stage # "idle"
  BY DEF Bridge
<1>5. faults' \in Nat /\ call'[c].raw \in Seq(Nat)
  BY <1>1, <1>2, <1>4 DEF ConfigOK, CountsOK
<1>6. QED
  BY <1>2, <1>3, <1>4, <1>5, GoneTokens

LEMMA NoModelTokens ==
    ASSUME ControlTypeOK, TokenInv, NEW c \in Calls, NoModel(c)
    PROVE  TokenInv'
<1>1. CountsOK(c) /\ ConfigOK /\ DOMAIN call = Calls /\ DOMAIN call[c] = DOMAIN Fresh
  BY DEF TokenInv, ControlTypeOK
<1>2. GoesTo(c, "answered") /\ call'[c].raw = call[c].raw
  BY <1>1 DEF NoModel, GoesTo, Fresh
<1>3. "answered" \in Last /\ "answered" \notin Early
  BY DEF Last, Early, Middle, Retrieval
<1>4. UNCHANGED <<configVars, accounts, changes, faults>> /\ call[c].stage # "idle"
  BY DEF NoModel
<1>5. faults' \in Nat /\ call'[c].raw \in Seq(Nat)
  BY <1>1, <1>2, <1>4 DEF ConfigOK, CountsOK
<1>6. QED
  BY <1>2, <1>3, <1>4, <1>5, GoneTokens

LEMMA HangsTokens ==
    ASSUME ControlTypeOK, TokenInv, NEW c \in Calls, Hangs(c)
    PROVE  TokenInv'
<1>1. CountsOK(c) /\ ConfigOK /\ DOMAIN call = Calls /\ DOMAIN call[c] = DOMAIN Fresh
  BY DEF TokenInv, ControlTypeOK
<1>2. GoesTo(c, "hung") /\ call'[c].raw = <<>>
  BY <1>1 DEF Hangs, GoesTo, Fresh, CountsOK
<1>3. "hung" \in Last /\ "hung" \notin Early
  BY DEF Last, Early, Middle, Retrieval
<1>4. UNCHANGED <<configVars, accounts, changes>> /\ faults' = faults + 1 /\ call[c].stage # "idle"
  BY DEF Hangs
<1>5. faults' \in Nat /\ call'[c].raw \in Seq(Nat)
  BY <1>1, <1>2, <1>4 DEF ConfigOK
<1>6. QED
  BY <1>2, <1>3, <1>4, <1>5, GoneTokens

LEMMA BeginTokens ==
    ASSUME ControlTypeOK, TokenInv, NEW c \in Calls, Begin(c)
    PROVE  TokenInv'
<1> DEFINE stage == CASE Op(c) = "chat" -> "budget"
                      [] Op(c) = "context" -> "request_input"
                      [] Op(c) = "search" -> "reference_search"
                      [] OTHER -> "reference_get"
<1>1. /\ CountsOK(c) /\ TokensOK(c) /\ DOMAIN call = Calls /\ DOMAIN call[c] = DOMAIN Fresh
      /\ call[c].stage = "begin"
  BY DEF TokenInv, ControlTypeOK, Begin
<1>2. GoesTo(c, stage) /\ call'[c].raw = call[c].raw
  <2>1. call' = [call EXCEPT ![c].stage = stage]
    BY DEF Begin
  <2> HIDE DEF stage
  <2>2. QED
    BY <1>1, <2>1 DEF GoesTo, Fresh, CountsOK
<1>3. UNCHANGED <<configVars, accounts, changes>> /\ faults' \in Nat
  BY TelemetryFaults DEF Begin
<1>4. "begin" \in Early /\ "request_input" \in Middle /\ {"reference_search", "reference_get"} \subseteq Last
  BY DEF Early, Middle, Last
<1>5. ~Refused(call[c].request)
  BY <1>1 DEF TokensOK, BodyOK, Unrecorded
<1>6. \/ stage \in Last
      \/ stage \in Middle /\ Op(c) \in {"chat", "context"}
      \/ stage = "budget" /\ Op(c) = "chat" /\ HasUser(call[c].request.messages)
  BY <1>4, <1>5 DEF Refused, Op
<1>7. stage # "idle"
  OBVIOUS
<1>8. call'[c].raw \in Seq(Nat)
  BY <1>1, <1>2 DEF CountsOK
<1> HIDE DEF stage
<1>9. QED
  BY <1>1, <1>2, <1>3, <1>4, <1>6, <1>7, <1>8, GoneTokens

LEMMA EnterTokens ==
    ASSUME ControlTypeOK, TokenInv, NEW c \in Calls, Enter(c)
    PROVE  TokenInv'
<1>1. /\ CountsOK(c) /\ DOMAIN call = Calls /\ DOMAIN call[c] = DOMAIN Fresh
      /\ call[c].stage \in Measured
  BY DEF TokenInv, ControlTypeOK, Enter
<1>2. GoesTo(c, call[c].stage) /\ call'[c].raw = call[c].raw
  BY <1>1 DEF Enter, GoesTo, Fresh, CountsOK
<1>3. UNCHANGED <<configVars, accounts, changes>> /\ faults' \in Nat
  BY TelemetryFaults DEF Enter
<1>4. call[c].stage # "idle"
  BY <1>1, StageNames DEF Unbegun
<1>5. call'[c].raw \in Seq(Nat)
  BY <1>1, <1>2 DEF CountsOK
<1>6. QED
  BY <1>2, <1>3, <1>4, <1>5, GoneTokens

LEMMA BodyTokens ==
    ASSUME ControlTypeOK, TokenInv, NEW c \in Calls, NEW next, call[c].stage \in Measured,
           next \in {"end", "builder_chat_retry_empty", After(c)},
           GoesTo(c, next), call'[c].raw \in Seq(Nat),
           UNCHANGED <<configVars, accounts, changes>>, faults' \in Nat
    PROVE  TokenInv'
<1>1. TokensOK(c)
  BY DEF TokenInv
<1>2. {"end", "builder_chat_retry_empty", "account"} \subseteq Last
      /\ {"end", "builder_chat_retry_empty"} \cap Early = {}
  BY DEF Last, Builder, Early, Middle, Retrieval
<1>3. next # "idle" /\ call[c].stage # "idle"
  BY StageNames DEF After, Unbegun
<1>4. next \in Early => call[c].stage \in Early
  BY <1>2 DEF After, Early, Middle, Retrieval
<1>5. \/ next \in Last
      \/ next \in Middle /\ Op(c) \in {"chat", "context"}
  <2>1. CASE call[c].stage \in Middle
    <3>1. Op(c) \in {"chat", "context"}
      BY <1>1, <2>1 DEF TokensOK, BodyOK
    <3>2. After(c) \in Middle \cup {"account", "end"}
      BY DEF After, Middle, Retrieval
    <3>3. QED
      BY <1>2, <3>1, <3>2
  <2>2. CASE call[c].stage \notin Middle
    <3>1. After(c) \in {"account", "end"}
      BY <2>2 DEF After, Middle, Retrieval
    <3>2. QED
      BY <1>2, <3>1
  <2>3. QED
    BY <2>1, <2>2
<1>6. QED
  BY <1>3, <1>4, <1>5, GoneTokens

LEMMA BodiesTokens ==
    ASSUME IndInv, TokenInv, NEW c \in Calls,
           \/ Pass(c) \/ SearchDense(c) \/ SearchReference(c) \/ GetReference(c)
           \/ Raise(c) \/ BuilderReplies(c)
    PROVE  TokenInv'
<1>1. /\ CountsOK(c) /\ DOMAIN call = Calls /\ DOMAIN call[c] = DOMAIN Fresh
      /\ call[c].raw \in Seq(Nat) /\ call[c].answer \in Nat
  BY DEF IndInv, TokenInv, ControlTypeOK, CountsOK
<1>2. UNCHANGED <<configVars, accounts, changes>> /\ faults' \in Nat
  <2>1. UNCHANGED <<configVars, accounts, changes>>
    BY DEF Pass, SearchDense, SearchReference, GetReference, Raise, BuilderReplies
  <2>2. \E name, how : EndStep(c, name, how)
    BY DEF Pass, SearchDense, SearchReference, GetReference, Raise, BuilderReplies
  <2>3. QED
    BY <2>1, <2>2, TelemetryFaults
<1>3. call[c].stage \in Measured
  <2>1. call[c].entered
    BY DEF Pass, SearchDense, SearchReference, GetReference, Raise, BuilderReplies
  <2>2. QED
    BY <2>1 DEF IndInv, CallInv, StageOK
<1>4. \E next \in {"end", "builder_chat_retry_empty", After(c)} :
         GoesTo(c, next) /\ call'[c].raw \in Seq(Nat)
  <2>1. CASE Pass(c)
    <3>1. GoesTo(c, After(c)) /\ call'[c].raw = call[c].raw
      <4>1. call' = [call EXCEPT ![c].entered = FALSE, ![c].stage = After(c)]
        BY <2>1 DEF Pass
      <4>2. QED
        BY <1>1, <4>1 DEF GoesTo, Fresh
    <3>2. QED
      BY <1>1, <3>1
  <2>2. CASE SearchDense(c)
    <3>1. PICK found \in Found :
             call' = [call EXCEPT ![c].entered = FALSE, ![c].stage = After(c), ![c].raw = found]
      BY <2>2 DEF SearchDense
    <3>2. GoesTo(c, After(c)) /\ call'[c].raw = found
      BY <1>1, <3>1 DEF GoesTo, Fresh
    <3>3. QED
      BY <3>2, RouterAssumption
  <2>3. CASE SearchReference(c)
    <3>1. PICK found \in Found :
             call' = [call EXCEPT ![c].entered = FALSE, ![c].stage = After(c),
                                  ![c].raw = found \o call[c].raw]
      BY <1>1, <2>3 DEF SearchReference, Fresh
    <3>2. GoesTo(c, After(c)) /\ call'[c].raw = found \o call[c].raw
      BY <1>1, <3>1 DEF GoesTo, Fresh
    <3>3. found \o call[c].raw \in Seq(Nat)
      BY <1>1, RouterAssumption, ConcatProperties
    <3>4. QED
      BY <3>2, <3>3
  <2>4. CASE GetReference(c)
    <3>1. PICK answer \in {200, 404} :
             call' = [call EXCEPT ![c].entered = FALSE, ![c].stage = "end", ![c].answer = answer]
      BY <2>4 DEF GetReference
    <3>2. GoesTo(c, "end") /\ call'[c].raw = call[c].raw
      BY <1>1, <3>1 DEF GoesTo, Fresh
    <3>3. QED
      BY <1>1, <3>2
  <2>5. CASE Raise(c)
    <3>1. PICK error :
             call' = [call EXCEPT ![c].entered = FALSE, ![c].stage = "end", ![c].error = error]
      BY <2>5 DEF Raise
    <3>2. GoesTo(c, "end") /\ call'[c].raw = call[c].raw
      BY <1>1, <3>1 DEF GoesTo, Fresh
    <3>3. QED
      BY <1>1, <3>2
  <2>6. CASE BuilderReplies(c)
    <3>1. \/ call' = [call EXCEPT ![c].entered = FALSE, ![c].stage = "end", ![c].answered = TRUE]
          \/ call' = [call EXCEPT ![c].entered = FALSE, ![c].stage = "end", ![c].answered = TRUE,
                                  ![c].error = "unmeasured"]
          \/ call' = [call EXCEPT ![c].entered = FALSE, ![c].stage = "builder_chat_retry_empty"]
          \/ call' = [call EXCEPT ![c].entered = FALSE, ![c].stage = "end",
                                  ![c].error = "builder_empty_completion"]
      BY <2>6 DEF BuilderReplies
    <3>2. \E next \in {"end", "builder_chat_retry_empty"} :
             GoesTo(c, next) /\ call'[c].raw = call[c].raw
      BY <1>1, <3>1 DEF GoesTo, Fresh
    <3>3. QED
      BY <1>1, <3>2
  <2>7. QED
    BY <2>1, <2>2, <2>3, <2>4, <2>5, <2>6
<1>5. QED
  BY <1>2, <1>3, <1>4, BodyTokens DEF IndInv

LEMMA EndTokens ==
    ASSUME ControlTypeOK, TokenInv, NEW c \in Calls, End(c)
    PROVE  TokenInv'
<1>1. /\ CountsOK(c) /\ DOMAIN call = Calls /\ DOMAIN call[c] = DOMAIN Fresh
      /\ call[c].raw \in Seq(Nat) /\ call[c].stage = "end"
  BY DEF TokenInv, ControlTypeOK, CountsOK, End
<1>2. GoesTo(c, "answered") /\ call'[c].raw = call[c].raw
  <2>1. \E a \in Nat : call' = [call EXCEPT ![c].stage = "answered", ![c].answer = a]
    <3> DEFINE a == CASE call[c].error = "builder_empty_completion" -> 502
                      [] Kind(call[c].error) \in {"exception", "builder_error"} -> 500
                      [] OTHER -> IF call[c].answer = 404 THEN 404 ELSE 200
    <3>1. a \in Nat
      OBVIOUS
    <3>2. call' = [call EXCEPT ![c].stage = "answered", ![c].answer = a]
      BY <1>1 DEF End, Fresh
    <3> HIDE DEF a
    <3>3. QED
      BY <3>1, <3>2
  <2>2. QED
    BY <1>1, <2>1 DEF GoesTo, Fresh
<1>3. UNCHANGED <<configVars, accounts, changes>> /\ faults' \in Nat
  BY TelemetryFaults DEF End
<1>4. "answered" \in Last /\ "answered" \notin Early
  BY DEF Last, Early, Middle, Retrieval
<1>5. QED
  BY <1>1, <1>2, <1>3, <1>4, GoneTokens
-----------------------------------------------------------------------------
(* The stages that count.                                                    *)

LEMMA BudgetRead ==
    ASSUME ConfigOK, NEW c \in Calls, NEW budget \in Budgets, ReadsBudget(c, budget),
           changes' = changes, faults' \in Nat
    PROVE  ConfigOK'
BY DEF ConfigOK, ReadsBudget, configVars

(* An exception between the steps, after the budget was read or before.      *)
LEMMA OutsideTokens ==
    ASSUME ControlTypeOK, TokenInv, NEW c \in Calls, RaiseOutside(c)
    PROVE  TokenInv'
<1>1. /\ CountsOK(c) /\ ConfigOK /\ TokensOK(c) /\ DOMAIN call = Calls
      /\ DOMAIN call[c] = DOMAIN Fresh /\ call[c].stage # "idle"
  BY DEF TokenInv, ControlTypeOK, RaiseOutside
<1>2. /\ call' = [call EXCEPT ![c].stage = "end", ![c].error = "unmeasured", ![c].raw = <<>>]
      /\ accounts' = accounts /\ changes' = changes /\ faults' = faults
  BY DEF RaiseOutside
<1>3. ConfigOK'
  <2>1. CASE UNCHANGED configVars
    BY <1>1, <1>2, <2>1 DEF ConfigOK, configVars
  <2>2. CASE \E budget \in Budgets : ReadsBudget(c, budget)
    <3>1. PICK budget \in Budgets : ReadsBudget(c, budget)
      BY <2>2
    <3>2. faults' \in Nat
      BY <1>1, <1>2 DEF ConfigOK
    <3>3. QED
      BY <1>1, <1>2, <3>1, <3>2, BudgetRead
  <2>3. QED
    BY <2>1, <2>2 DEF RaiseOutside
<1>4. GoesTo(c, "end") /\ call'[c].raw = <<>>
  BY <1>1, <1>2 DEF GoesTo, Fresh, CountsOK
<1>5. Keeps(c)
  BY <1>2, <1>3, <1>4 DEF Keeps, GoesTo, OthersStay
<1>6. "end" \notin Early /\ "end" \notin Middle
  BY DEF Early, Middle, Retrieval
<1>7. BodyOK(c)'
  BY <1>1, <1>4, <1>6 DEF TokensOK, BodyOK, GoesTo
<1>8. QED
  BY <1>4, <1>5, <1>6, <1>7, KeptTokens DEF GoesTo

LEMMA AccountWritten ==
    ASSUME TokenInv, NEW c \in Calls, NEW a \in Account, WriteAccount(c, a)
    PROVE  /\ faults' \in Nat /\ accounts' \in [Calls -> Account \cup {NoAccount}]
           /\ \A d \in Calls \ {c} : accounts'[d] = accounts[d]
           /\ accounts'[c] \in {accounts[c], a}
<1>1. faults \in Nat /\ accounts \in [Calls -> Account \cup {NoAccount}]
  BY DEF TokenInv, ConfigOK
<1>2. /\ Recorded(c) \/ NotRecorded(c)
      /\ accounts' = accounts \/ accounts' = [accounts EXCEPT ![c] = a]
  BY DEF WriteAccount
<1>3. faults' \in Nat
  BY <1>1, <1>2 DEF Recorded, NotRecorded
<1>4. QED
  BY <1>1, <1>2, <1>3

LEMMA AllowedHistory ==
    ASSUME NEW r \in Requests, HasUser(r.messages), NEW budget \in Budgets
    PROVE  LET history == Pruned(r.messages, Allowed(r.messages, budget))
           IN  /\ LastUser(r.messages) \in Nat /\ history \in Nat
               /\ history > 0 => history <= Allowed(r.messages, budget)
<1>1. r.messages \in Seq(Message) /\ {budget, MaxTotal, Static} \subseteq Nat
  BY RouterAssumption DEF RequestType
<1>2. LastUser(r.messages) \in Nat /\ Len(r.messages) > 0
  BY <1>1, UserCounted
<1>3. Allowed(r.messages, budget) \in Int
  BY <1>1, <1>2 DEF Allowed
<1>4. QED
  BY <1>1, <1>2, <1>3, PrunedHistory

LEMMA PruneTokens ==
    ASSUME ControlTypeOK, TokenInv, NEW c \in Calls, PruneHistory(c)
    PROVE  TokenInv'
<1> DEFINE messages == call[c].request.messages
<1>1. /\ ConfigOK /\ CountsOK(c) /\ TokensOK(c) /\ DOMAIN call = Calls
      /\ DOMAIN call[c] = DOMAIN Fresh /\ call[c].stage = "budget"
  BY DEF TokenInv, ControlTypeOK, PruneHistory
<1>2. PICK budget \in Budgets :
         /\ ReadsBudget(c, budget)
         /\ call' = [call EXCEPT ![c].stage = "pg_static", ![c].historyBudget = budget,
                                 ![c].history = Pruned(messages, Allowed(messages, budget))]
  BY DEF PruneHistory
<1>3. Op(c) = "chat" /\ HasUser(messages) /\ call[c].request \in Requests
  BY <1>1 DEF TokensOK, BodyOK
<1> DEFINE history == Pruned(messages, Allowed(messages, budget))
<1>4. history \in Nat /\ (history > 0 => history <= Allowed(messages, budget))
  BY <1>3, AllowedHistory
<1>5. /\ \A d \in Calls \ {c} : call'[d] = call[d]
      /\ call'[c] = [call[c] EXCEPT !.stage = "pg_static", !.historyBudget = budget,
                                    !.history = history]
  BY <1>1, <1>2
<1> HIDE DEF history
<1>6. /\ call'[c].stage = "pg_static" /\ call'[c].historyBudget = budget
      /\ call'[c].history = history /\ call'[c].request = call[c].request
      /\ call'[c].context = call[c].context /\ call'[c].contextBudget = call[c].contextBudget
      /\ call'[c].items = call[c].items /\ call'[c].raw = call[c].raw
      /\ call'[c].answer = call[c].answer
  BY <1>1, <1>5 DEF Fresh
<1>7. accounts' = accounts /\ changes' = changes /\ faults' = faults
  BY DEF PruneHistory
<1>8. ConfigOK' /\ accounts' \in [Calls -> Account \cup {NoAccount}]
  <2>1. faults' \in Nat
    BY <1>1, <1>7 DEF ConfigOK
  <2>2. QED
    BY <1>1, <1>2, <1>7, <2>1, BudgetRead DEF TokenInv
<1>9. CountsOK(c)'
  BY <1>1, <1>4, <1>6 DEF CountsOK
<1>10. BodyOK(c)'
  BY <1>3, <1>6 DEF BodyOK, Op
<1>11. BudgetOK(c)'
  BY <1>1, <1>3, <1>4, <1>6 DEF TokensOK, BudgetOK, ContextCap
<1>12. AccountOK(c)'
  BY <1>1, <1>6, <1>7 DEF TokensOK, AccountOK, Op, Early
<1>13. OthersStay(c)
  BY <1>5, <1>7 DEF OthersStay
<1>14. QED
  BY <1>8, <1>9, <1>10, <1>11, <1>12, <1>13, CallTokens DEF TokensOK

LEMMA StitchTokens ==
    ASSUME ControlTypeOK, TokenInv, NEW c \in Calls, StitchContext(c)
    PROVE  TokenInv'
<1>1. /\ ConfigOK /\ CountsOK(c) /\ TokensOK(c) /\ DOMAIN call = Calls
      /\ DOMAIN call[c] = DOMAIN Fresh /\ call[c].stage = "stitch"
  BY DEF TokenInv, ControlTypeOK, StitchContext
<1> DEFINE raw == call[c].raw
           next == IF Op(c) = "chat" THEN "builder_chat" ELSE "end"
           Dense(b) == Positive(b - Static)
           Result(list, b) == Stitch(list, Dense(b))
           Writes(list, b) ==
              [candidates |-> Len(raw), selected |-> Result(list, b).taken,
               context |-> Static + Result(list, b).used, dropped |-> Result(list, b).dropped,
               blank |-> Result(list, b).blank]
<1>2. PICK budget \in Budgets, list \in Reranked(raw) :
         /\ ReadsBudget(c, budget)
         /\ WriteAccount(c, Writes(list, budget))
         /\ call' = [call EXCEPT ![c].stage = next, ![c].contextBudget = budget,
                                 ![c].context = Writes(list, budget).context,
                                 ![c].items = Cardinality(SelectedRefs(list, Dense(budget))),
                                 ![c].raw = <<>>]
  BY DEF StitchContext
<1> DEFINE dense == Dense(budget)
           s == Result(list, budget)
           account == Writes(list, budget)
<1>3. raw \in Seq(Nat) /\ Len(raw) \in Nat /\ {budget, Static, TopK} \subseteq Nat
  BY <1>1, RouterAssumption, LenProperties DEF CountsOK
<1>4. list \in Seq(Nat) /\ Len(list) = AtMost(TopK, Len(raw))
  BY <1>3, RerankedList
<1>5. dense \in Nat
  BY <1>3 DEF Positive
<1>6. /\ s \in Counted /\ s.used <= dense
      /\ s.taken + s.dropped + s.blank = AtMost(TopK, Len(raw))
      /\ s.taken = Cardinality(SelectedRefs(list, dense))
  <2> HIDE DEF dense
  <2>1. QED
    BY <1>4, <1>5, LoopsTakeAsMany DEF dense
<1> HIDE DEF dense, s
<1>7. /\ account \in Account /\ account.selected = s.taken /\ account.dropped = s.dropped
      /\ account.blank = s.blank /\ account.candidates = Len(raw)
      /\ account.context = Static + s.used
      /\ {s.taken, s.used, s.dropped, s.blank} \subseteq Nat
  BY <1>3, <1>6 DEF Account, Counted, s
<1> HIDE DEF account
<1>8. /\ faults' \in Nat /\ accounts' \in [Calls -> Account \cup {NoAccount}]
      /\ \A d \in Calls \ {c} : accounts'[d] = accounts[d]
      /\ accounts'[c] \in {accounts[c], account}
  BY <1>2, <1>7, AccountWritten DEF account
<1>9. /\ \A d \in Calls \ {c} : call'[d] = call[d]
      /\ call'[c] = [call[c] EXCEPT !.stage = next, !.contextBudget = budget,
                                    !.context = Static + s.used, !.items = s.taken, !.raw = <<>>]
  <2>1. call' = [call EXCEPT ![c].stage = next, ![c].contextBudget = budget,
                             ![c].context = Static + s.used, ![c].items = s.taken, ![c].raw = <<>>]
    BY <1>2, <1>6, <1>7 DEF account, dense
  <2> HIDE DEF next
  <2>2. QED
    BY <1>1, <2>1
<1>10. next \in {"builder_chat", "end"} /\ next \notin Early /\ next \notin Middle
  BY DEF Early, Middle, Retrieval
<1> HIDE DEF next
<1>11. /\ call'[c].stage = next /\ call'[c].contextBudget = budget
       /\ call'[c].context = Static + s.used /\ call'[c].items = s.taken /\ call'[c].raw = <<>>
       /\ call'[c].history = call[c].history /\ call'[c].historyBudget = call[c].historyBudget
       /\ call'[c].request = call[c].request /\ call'[c].answer = call[c].answer
  BY <1>1, <1>9 DEF Fresh
<1>12. ConfigOK'
  BY <1>1, <1>2, <1>8, BudgetRead DEF StitchContext
<1>13. CountsOK(c)'
  <2>1. Static + s.used \in Nat
    BY <1>3, <1>7
  <2>2. QED
    BY <1>1, <1>7, <1>11, <2>1 DEF CountsOK
<1>14. BodyOK(c)'
  BY <1>1, <1>10, <1>11 DEF TokensOK, BodyOK
<1>15. BudgetOK(c)'
  <2>1. Static + s.used <= Static + Positive(budget - Static)
    BY <1>3, <1>5, <1>6, <1>7 DEF dense
  <2>2. QED
    BY <1>1, <1>3, <1>10, <1>11, <2>1, RouterAssumption DEF TokensOK, BudgetOK, ContextCap
<1>16. AccountOK(c)'
  <2>1. accounts[c] = NoAccount /\ Op(c) \in {"chat", "context"} /\ Op(c)' = Op(c)
    BY <1>1, <1>11 DEF TokensOK, BodyOK, AccountOK, Early, Middle, Op
  <2>2. accounts'[c] = NoAccount \/ accounts'[c] = account
    BY <1>8, <2>1
  <2>3. account.selected + account.dropped + account.blank = AtMost(TopK, account.candidates)
    BY <1>6, <1>7
  <2>4. QED
    BY <1>7, <1>10, <1>11, <2>1, <2>2, <2>3 DEF AccountOK
<1>17. OthersStay(c)
  BY <1>8, <1>9 DEF OthersStay
<1>18. QED
  BY <1>8, <1>12, <1>13, <1>14, <1>15, <1>16, <1>17, CallTokens DEF TokensOK
LEMMA AccountTokens ==
    ASSUME ControlTypeOK, TokenInv, NEW c \in Calls, WriteSearchAccount(c) \/ WriteContextAccount(c)
    PROVE  TokenInv'
<1>1. /\ ConfigOK /\ CountsOK(c) /\ TokensOK(c) /\ DOMAIN call = Calls
      /\ DOMAIN call[c] = DOMAIN Fresh /\ call[c].stage = "account"
      /\ UNCHANGED <<configVars, changes>>
  BY DEF TokenInv, ControlTypeOK, WriteSearchAccount, WriteContextAccount
<1>2. /\ Static \in Nat /\ TopK \in Nat /\ Len(call[c].raw) \in Nat /\ call[c].raw \in Seq(Nat)
      /\ accounts[c] = NoAccount /\ call[c].items = 0 /\ call[c].contextBudget = NoBudget
  BY <1>1, RouterAssumption, LenProperties DEF CountsOK, TokensOK, AccountOK, Early
<1>3. \E a \in Account :
         /\ WriteAccount(c, a) /\ \A d \in Calls \ {c} : call'[d] = call[d]
         /\ call'[c].stage \in {"end", "builder_chat"} /\ call'[c].request = call[c].request
         /\ call'[c].history = call[c].history /\ call'[c].historyBudget = call[c].historyBudget
         /\ call'[c].context \in {call[c].context, Static} /\ call'[c].contextBudget = NoBudget
         /\ call'[c].items = a.selected /\ call'[c].items \in Nat /\ call'[c].raw \in Seq(Nat)
         /\ call'[c].answer = call[c].answer
         /\ a.selected + a.dropped + a.blank =
              IF Op(c) = "search" THEN a.candidates ELSE AtMost(TopK, a.candidates)
  <2>1. CASE WriteSearchAccount(c)
    <3> DEFINE n == Len(call[c].raw)
               a == [candidates |-> n, selected |-> n, context |-> 0, dropped |-> 0, blank |-> 0]
    <3>1. /\ WriteAccount(c, a) /\ Op(c) = "search"
          /\ call' = [call EXCEPT ![c].stage = "end", ![c].items = n, ![c].raw = <<>>]
      BY <2>1 DEF WriteSearchAccount
    <3>2. a \in Account /\ a.selected = n /\ a.selected + a.dropped + a.blank = a.candidates
      BY <1>2 DEF Account
    <3> HIDE DEF a
    <3>3. QED
      BY <1>1, <1>2, <3>1, <3>2 DEF Fresh, CountsOK
  <2>2. CASE WriteContextAccount(c)
    <3> DEFINE a == [candidates |-> 0, selected |-> 0, context |-> Static, dropped |-> 0, blank |-> 0]
    <3> DEFINE next == IF Op(c) = "chat" THEN "builder_chat" ELSE "end"
    <3>1. /\ WriteAccount(c, a) /\ Op(c) # "search" /\ next \in {"end", "builder_chat"}
          /\ call' = [call EXCEPT ![c].stage = next, ![c].context = Static]
      BY <2>2 DEF WriteContextAccount
    <3>2. /\ a \in Account /\ a.selected = 0
          /\ a.selected + a.dropped + a.blank = AtMost(TopK, a.candidates)
      BY <1>2 DEF Account, AtMost
    <3> HIDE DEF a, next
    <3>3. QED
      BY <1>1, <1>2, <3>1, <3>2 DEF Fresh, CountsOK
  <2>3. QED
    BY <2>1, <2>2
<1>4. PICK a \in Account :
         /\ WriteAccount(c, a) /\ \A d \in Calls \ {c} : call'[d] = call[d]
         /\ call'[c].stage \in {"end", "builder_chat"} /\ call'[c].request = call[c].request
         /\ call'[c].history = call[c].history /\ call'[c].historyBudget = call[c].historyBudget
         /\ call'[c].context \in {call[c].context, Static} /\ call'[c].contextBudget = NoBudget
         /\ call'[c].items = a.selected /\ call'[c].items \in Nat /\ call'[c].raw \in Seq(Nat)
         /\ call'[c].answer = call[c].answer
         /\ a.selected + a.dropped + a.blank =
              IF Op(c) = "search" THEN a.candidates ELSE AtMost(TopK, a.candidates)
  BY <1>3
<1>5. /\ faults' \in Nat /\ accounts' \in [Calls -> Account \cup {NoAccount}]
      /\ \A d \in Calls \ {c} : accounts'[d] = accounts[d]
      /\ accounts'[c] \in {NoAccount, a}
  BY <1>2, <1>4, AccountWritten
<1>6. ConfigOK'
  BY <1>1, <1>5 DEF ConfigOK, configVars
<1>7. CountsOK(c)'
  BY <1>1, <1>2, <1>4 DEF CountsOK
<1>8. {"end", "builder_chat"} \cap Early = {} /\ {"end", "builder_chat"} \cap Middle = {}
  BY DEF Early, Middle, Retrieval
<1>9. BodyOK(c)'
  BY <1>1, <1>4, <1>8 DEF TokensOK, BodyOK
<1>10. BudgetOK(c)'
  BY <1>1, <1>2, <1>4 DEF TokensOK, BudgetOK, ContextCap
<1>11. AccountOK(c)'
  BY <1>4, <1>5, <1>8 DEF AccountOK, Op
<1>12. OthersStay(c)
  BY <1>4, <1>5 DEF OthersStay
<1>13. QED
  BY <1>5, <1>6, <1>7, <1>9, <1>10, <1>11, <1>12, CallTokens DEF TokensOK

LEMMA ConfigTokens ==
    ASSUME TokenInv, ConfigOK', UNCHANGED <<call, accounts>>
    PROVE  TokenInv'
<1>1. ASSUME NEW c \in Calls PROVE CountsOK(c)' /\ TokensOK(c)'
  <2>1. CountsOK(c) /\ TokensOK(c)
    BY DEF TokenInv
  <2>2. QED
    BY <2>1 DEF CountsOK, TokensOK, BodyOK, BudgetOK, ContextCap, AccountOK, Op
<1>2. QED
  BY <1>1 DEF TokenInv

LEMMA BesideTokens ==
    ASSUME TokenInv,
           \/ OperatorSets \/ CacheExpires \/ OthersRefresh \/ UNCHANGED vars
           \/ \E c \in Calls : Refresh(c) \/ Admit(c) \/ AdmitHangs(c) \/ StewardReceives(c) \/ StewardEnds(c)
    PROVE  TokenInv'
<1>1. ConfigOK /\ DefaultBudget \in Budgets
  BY RouterAssumption DEF TokenInv
<1>2. ASSUME NEW c \in Calls, Refresh(c) PROVE TokenInv'
  <2>1. ConfigOK'
    BY <1>1, <1>2 DEF Refresh, ConfigOK
  <2>2. QED
    BY <1>2, <2>1, ConfigTokens DEF Refresh
<1>3. ASSUME NEW c \in Calls, Admit(c) PROVE TokenInv'
  <2>1. faults' \in Nat
    <3>1. \E how : \/ BeginStep(c, "steward_async_call")
                   \/ EndStep(c, "steward_async_call", how)
      BY <1>3 DEF Admit, AdmitPosts, AdmitEnds
    <3>2. QED
      BY <3>1, TelemetryFaults
  <2>2. UNCHANGED <<configVars, call, accounts, changes>>
    BY <1>3 DEF Admit, AdmitPosts, AdmitEnds
  <2>3. ConfigOK'
    BY <1>1, <2>1, <2>2 DEF ConfigOK, configVars
  <2>4. QED
    BY <2>2, <2>3, ConfigTokens
<1>4. ASSUME NEW c \in Calls, AdmitHangs(c) \/ StewardReceives(c) \/ StewardEnds(c) PROVE TokenInv'
  <2>1. UNCHANGED <<configVars, call, accounts, changes>> /\ faults' \in {faults, faults + 1}
    BY <1>4 DEF AdmitHangs, StewardReceives, StewardEnds
  <2>2. ConfigOK'
    BY <1>1, <2>1 DEF ConfigOK, configVars
  <2>3. QED
    BY <2>1, <2>2, ConfigTokens
<1>5. CASE OperatorSets \/ CacheExpires \/ OthersRefresh
  <2>1. UNCHANGED <<call, accounts>>
    BY <1>5 DEF OperatorSets, CacheExpires, OthersRefresh
  <2>2. /\ {table', cached'} \subseteq Budgets /\ held' = held
        /\ changes' \in Nat /\ faults' \in Nat
    BY <1>1, <1>5 DEF ConfigOK, OperatorSets, CacheExpires, OthersRefresh
  <2>3. fresh' \in BOOLEAN
    <3>1. fresh \in BOOLEAN /\ (fresh' = fresh \/ fresh' = FALSE \/ fresh' = TRUE)
      BY <1>1, <1>5 DEF ConfigOK, OperatorSets, CacheExpires, OthersRefresh
    <3>2. QED
      BY <3>1
  <2>4. ConfigOK'
    BY <1>1, <2>2, <2>3 DEF ConfigOK
  <2>5. QED
    BY <2>1, <2>4, ConfigTokens
<1>6. CASE UNCHANGED vars
  <2>1. ConfigOK'
    BY <1>1, <1>6 DEF ConfigOK, vars, configVars
  <2>2. QED
    BY <1>6, <2>1, ConfigTokens DEF vars
<1>7. QED
  BY <1>2, <1>3, <1>4, <1>5, <1>6

LEMMA CrashTokens ==
    ASSUME ControlTypeOK, TokenInv, Crash
    PROVE  TokenInv'
<1>1. /\ ConfigOK /\ DefaultBudget \in Budgets /\ DOMAIN call = Calls
      /\ accounts \in [Calls -> Account \cup {NoAccount}]
  BY RouterAssumption DEF TokenInv, ControlTypeOK
<1>2. ConfigOK' /\ accounts' = accounts
  <2>1. table' \in Budgets /\ cached' \in Budgets /\ changes' \in Nat /\ faults' \in Nat
    <3>1. table' = table /\ cached' = DefaultBudget /\ changes' = changes /\ faults' = faults + 1
      BY DEF Crash
    <3>2. QED
      BY <1>1, <3>1 DEF ConfigOK
  <2>2. held' \in [Calls -> Budgets \cup {NoBudget}] /\ accounts' = accounts
    BY DEF Crash
  <2>3. fresh' \in BOOLEAN
    <3>1. fresh' = FALSE
      BY DEF Crash
    <3>2. QED
      BY <3>1
  <2>4. QED
    BY <2>1, <2>2, <2>3 DEF ConfigOK
<1>3. ASSUME NEW c \in Calls PROVE CountsOK(c)' /\ TokensOK(c)'
  <2>1. CountsOK(c) /\ TokensOK(c) /\ DOMAIN call[c] = DOMAIN Fresh
    BY DEF TokenInv, ControlTypeOK
  <2>2. call'[c] = IF call[c].stage \in {"idle"} \cup Ends THEN call[c]
                   ELSE [call[c] EXCEPT !.stage = "lost", !.entered = FALSE, !.raw = <<>>]
    BY DEF Crash
  <2>3. CASE call[c].stage \in {"idle"} \cup Ends
    BY <1>2, <2>1, <2>2, <2>3 DEF CountsOK, TokensOK, BodyOK, BudgetOK, ContextCap, AccountOK, Op
  <2>4. CASE call[c].stage \notin {"idle"} \cup Ends
    <3>1. /\ call'[c].stage = "lost" /\ call'[c].raw = <<>> /\ call'[c].answer = call[c].answer
          /\ call'[c].history = call[c].history /\ call'[c].historyBudget = call[c].historyBudget
          /\ call'[c].context = call[c].context /\ call'[c].contextBudget = call[c].contextBudget
          /\ call'[c].items = call[c].items /\ call'[c].request = call[c].request
      BY <2>1, <2>2, <2>4 DEF Fresh
    <3>2. "lost" \notin Early /\ "lost" \notin Middle
      BY DEF Early, Middle, Retrieval
    <3>3. CountsOK(c)'
      BY <2>1, <3>1 DEF CountsOK
    <3>4. BodyOK(c)'
      BY <2>1, <2>4, <3>1, <3>2 DEF TokensOK, BodyOK
    <3>5. BudgetOK(c)'
      BY <2>1, <3>1 DEF TokensOK, BudgetOK, ContextCap
    <3>6. AccountOK(c)'
      BY <1>2, <2>1, <3>1, <3>2 DEF TokensOK, AccountOK, Op
    <3>7. QED
      BY <3>3, <3>4, <3>5, <3>6 DEF TokensOK
  <2>5. QED
    BY <2>3, <2>4
<1>4. QED
  BY <1>1, <1>2, <1>3 DEF TokenInv
-----------------------------------------------------------------------------
(* The theorems.                                                             *)

LEMMA NextTokens ==
    ASSUME IndInv, TokenInv, [Next]_vars
    PROVE  TokenInv'
<1>1. ControlTypeOK
  BY DEF IndInv
<1>2. ASSUME NEW c \in Calls, Receive(c) \/ Handle(c) \/ Hangs(c) PROVE TokenInv'
  <2>1. CASE \/ Receive(c) \/ Bridge(c) \/ Begin(c) \/ NoModel(c) \/ Enter(c) \/ End(c)
             \/ Hangs(c)
    BY <1>1, <2>1, ReceiveTokens, BridgeTokens, BeginTokens, NoModelTokens, EnterTokens, EndTokens,
       HangsTokens
  <2>2. CASE PruneHistory(c) \/ StitchContext(c) \/ RaiseOutside(c)
    BY <1>1, <2>2, PruneTokens, StitchTokens, OutsideTokens
  <2>3. CASE WriteSearchAccount(c) \/ WriteContextAccount(c)
    BY <1>1, <2>3, AccountTokens
  <2>4. CASE \/ Pass(c) \/ SearchDense(c) \/ SearchReference(c) \/ GetReference(c)
             \/ Raise(c) \/ BuilderReplies(c)
    BY <2>4, BodiesTokens
  <2>5. CASE Refresh(c)
    BY <2>5, BesideTokens
  <2>6. QED
    BY <1>2, <2>1, <2>2, <2>3, <2>4, <2>5 DEF Handle
<1>3. ASSUME NEW c \in Calls, Admit(c) \/ AdmitHangs(c) \/ StewardReceives(c) \/ StewardEnds(c) PROVE TokenInv'
  BY <1>3, BesideTokens
<1>4. CASE OperatorSets \/ CacheExpires \/ OthersRefresh \/ UNCHANGED vars
  BY <1>4, BesideTokens
<1>5. CASE Crash
  BY <1>1, <1>5, CrashTokens
<1>6. QED
  BY <1>2, <1>3, <1>4, <1>5 DEF Next

(* The strengthened invariant of the counts.                                 *)
THEOREM TokenInvariance == Spec => []TokenInv
BY InitTokens, NextTokens, Invariance, PTL DEF Spec

(* All the state of the handlers keeps to its types: no count of the plan,   *)
(* the stitched context or the retrieval row becomes negative, whatever the  *)
(* budgets and the search results are.                                       *)
THEOREM TypeCorrect == Spec => []TypeOK
<1>1. TokenInv => TokenTypeOK
  BY TokenTypes
<1>2. QED
  BY <1>1, TokenInvariance, ControlTypeCorrect, PTL DEF TypeOK

(* The items a client is given are as many as retrieval_write (telemetry.py) *)
(* recorded as selected for it, and selected, dropped and blank add up to    *)
(* the candidates that were ranked, for every list of results, every budget  *)
(* and every request.                                                        *)
THEOREM AccountsAddUp == Spec => []SelectionAgrees
<1>1. TokenInv => SelectionAgrees
  BY DEF TokenInv, TokensOK, AccountOK, SelectionAgrees
<1>2. QED
  BY <1>1, TokenInvariance, PTL

(* The history that chat (server.py) keeps, the message of the user and the  *)
(* estimated context stay within MAX_TOTAL_TOKENS, or exceed it by no more   *)
(* than the budget was raised between the two places that read it, when some *)
(* of the history is kept; when none is, the plan is the message and a       *)
(* context within its budget, and may exceed the ceiling by itself.  This    *)
(* holds for any requests, budgets, caches and searches.                     *)
THEOREM PlansFitTheCeiling == Spec => []PlannedWithinCeiling
<1>1. ASSUME TokenInv PROVE PlannedWithinCeiling
  <2> SUFFICES ASSUME NEW c \in Calls, call[c].historyBudget # NoBudget
               PROVE  Planned(c) <= IF call[c].history > 0 THEN MaxTotal + Raised(c)
                                    ELSE LastUser(call[c].request.messages) + ContextCap(c)
    BY DEF PlannedWithinCeiling
  <2> DEFINE messages == call[c].request.messages
             first == call[c].historyBudget
             second == call[c].contextBudget
  <2>1. CountsOK(c) /\ TokensOK(c)
    BY <1>1 DEF TokenInv
  <2>2. /\ call[c].request \in Requests /\ HasUser(messages) /\ first \in Budgets
        /\ call[c].history > 0 => call[c].history <= Allowed(messages, first)
        /\ call[c].context <= ContextCap(c)
    BY <2>1 DEF TokensOK, BudgetOK
  <2>3. /\ {first, MaxTotal, Static, call[c].history, call[c].context} \subseteq Nat
        /\ second \in Nat \/ second = NoBudget
    BY <2>1, <2>2, RouterAssumption DEF CountsOK
  <2>4. LastUser(messages) \in Nat
    BY <2>2, AllowedHistory
  <2>5. ContextCap(c) \in Nat
    BY <2>3 DEF ContextCap, Positive
  <2>6. CASE call[c].history > 0
    <3>1. CASE second = NoBudget
      BY <2>2, <2>3, <2>4, <2>6, <3>1 DEF Planned, Allowed, ContextCap, Raised
    <3>2. CASE second # NoBudget
      BY <2>2, <2>3, <2>4, <2>6, <3>2 DEF Planned, Allowed, Positive, ContextCap, Raised
    <3>3. QED
      BY <3>1, <3>2
  <2>7. CASE ~(call[c].history > 0)
    BY <2>2, <2>3, <2>4, <2>5, <2>7 DEF Planned
  <2>8. QED
    BY <2>6, <2>7
<1>2. QED
  BY <1>1, TokenInvariance, PTL
=============================================================================
