------------------------- MODULE DecodeControlProofs -------------------------
(***************************************************************************)
(* What the controls of the decode loop are worth, for every vocabulary,   *)
(* transition, budget, limit and machine: the number of threads, the       *)
(* budget of a thinking block, what the client reads, and the repetition   *)
(* guard.                                                                  *)
(***************************************************************************)
EXTENDS DecodeControl, RangeSumTheorems, FiniteSetTheorems

Levels == {"normal", "fair", "serious"}
Samples == [level : Levels, threads : Nat]

TypeOK ==
    /\ at \in {"idle", "top", "choose", "chosen", "sent"}
    /\ turn \in [thinks : BOOLEAN, budget : Nat, limit : Nat]
    /\ out \in Seq(Tokens)
    /\ thinking \in BOOLEAN /\ sinkOpen \in BOOLEAN /\ cancel \in BOOLEAN
    /\ position \in 0 .. Len(Transition)
    /\ sent \in Seq({"reasoning", "content"} \X Words)
    /\ why \in {"none", "cancelled", "stop", "repetition", "length"}
    /\ at \in {"chosen", "sent"} => out # <<>>

-----------------------------------------------------------------------------
(* The threads.                                                            *)

\* The last samples, as far as greens counts, were normal at the present number of threads.
ThreadsOK ==
    /\ machine \in Machines
    /\ threads \in {0} \cup Cool .. Most /\ (threads = 0 => greens = 0)
    /\ greens \in 0 .. GreensToRise - 1
    /\ heat \in Seq(Samples)
    /\ greens <= Len(heat) /\ Len(heat) <= GreensToRise
    /\ \A i \in Len(heat) - greens + 1 .. Len(heat) :
           heat[i] = [level |-> "normal", threads |-> threads]

LEMMA ThreadNumbers ==
    ASSUME machine \in Machines
    PROVE  /\ Most \in 1 .. machine.cores
           /\ machine.quota > 0 => Most <= machine.quota
           /\ Cool \in 1 .. Most
<1>1. machine.cores \in Nat \ {0} /\ machine.quota \in Nat
  BY NumbersAssumption
<1>2. Half(machine.cores) \in Nat \ {0}
  BY <1>1 DEF Half
<1> QED
  BY <1>1, <1>2 DEF Most, Cool, Least

\* A look at the temperature: the count of normal ones stays true to the samples kept, and a
\* thread is only added when they fill the window.
LEMMA SampleStep ==
    ASSUME ThreadsOK, NEW level \in Levels, threads # 0, machine' = machine, Sample(level)
    PROVE  /\ ThreadsOK'
           /\ threads' \in Cool .. Most
           /\ threads' > threads =>
                heat' = [i \in 1 .. GreensToRise |-> [level |-> "normal", threads |-> threads]]
<1> DEFINE s    == [level |-> level, threads |-> threads]
           all  == Append(heat, s)
           keep == Least(Len(all), GreensToRise)
           rises == level = "normal" /\ GreensAfter(level) >= GreensToRise
<1> USE DEF ThreadsOK
<1>1. GreensToRise \in Nat \ {0}
  BY NumbersAssumption
<1>2. Most \in Nat /\ Cool \in 1 .. Most /\ threads \in Cool .. Most /\ machine.cores \in Nat
  BY ThreadNumbers, NumbersAssumption
<1>3. s \in Samples /\ all \in Seq(Samples) /\ Len(all) = Len(heat) + 1 /\ Len(heat) \in Nat
  BY <1>2 DEF Samples
<1>4. keep \in 1 .. Len(all) /\ keep <= GreensToRise /\ (Len(all) <= GreensToRise => keep = Len(all))
      /\ (Len(all) > GreensToRise => keep = GreensToRise)
  <2> HIDE DEF all, ThreadsOK
  <2> QED
    BY <1>1, <1>3 DEF Least
<1>5. heat' = SubSeq(all, Len(all) - keep + 1, Len(all))
  BY DEF Sample
<1> HIDE DEF s, all, keep
<1>6. /\ heat' \in Seq(Samples) /\ Len(heat') = keep
      /\ \A i \in 1 .. keep : heat'[i] = all[Len(all) - keep + i]
  BY <1>3, <1>4, <1>5
<1>7. \A i \in 1 .. Len(heat) : all[i] = heat[i]
  BY <1>3 DEF all
<1>8. all[Len(all)] = s
  BY <1>3 DEF all
<1>9. GreensAfter(level) = IF level = "normal" THEN greens + 1 ELSE 0
  BY DEF GreensAfter
<1>10. level = "normal" =>
          \A i \in keep - Least(greens + 1, keep) + 1 .. keep : heat'[i] = [level |-> "normal", threads |-> threads]
  <2> SUFFICES ASSUME level = "normal", NEW i \in keep - Least(greens + 1, keep) + 1 .. keep
               PROVE  heat'[i] = [level |-> "normal", threads |-> threads]
    OBVIOUS
  <2>1. i \in 1 .. keep /\ keep - greens <= i
    BY <1>1, <1>3, <1>4 DEF Least
  <2>2. CASE i = keep
    BY <1>3, <1>4, <1>6, <1>8, <2>1, <2>2 DEF s
  <2>3. CASE i # keep
    <3>1. Len(all) - keep + i \in Len(heat) - greens + 1 .. Len(heat)
      BY <1>1, <1>3, <1>4, <2>1, <2>3
    <3>2. Len(all) - keep + i \in 1 .. Len(heat)
      BY <1>3, <1>4, <2>1, <2>3
    <3> QED
      BY <1>6, <1>7, <2>1, <3>1, <3>2
  <2> QED
    BY <2>2, <2>3
<1>11. CASE rises
  <2>1. level = "normal" /\ greens = GreensToRise - 1 /\ greens' = 0
    BY <1>1, <1>9, <1>11 DEF Sample
  <2>2. keep = GreensToRise
    BY <1>1, <1>3, <1>4, <2>1
  <2>3. \A i \in 1 .. GreensToRise : heat'[i] = [level |-> "normal", threads |-> threads]
    <3>1. keep - Least(greens + 1, keep) + 1 = 1
      BY <1>1, <2>1, <2>2 DEF Least
    <3> QED
      BY <1>10, <2>1, <2>2, <3>1
  <2>4. heat' = [i \in 1 .. GreensToRise |-> [level |-> "normal", threads |-> threads]]
    BY <1>1, <1>6, <2>2, <2>3
  <2>5. threads' \in Cool .. Most
    BY <1>2, <1>11, <2>1 DEF Sample, BacksOff
  <2>6. Most' = Most /\ Cool' = Cool
    BY DEF Most, Cool
  <2>7. \A i \in Len(heat') - greens' + 1 .. Len(heat') : FALSE
    BY <1>1, <1>6, <2>1, <2>2
  <2> HIDE DEF rises
  <2>8. ThreadsOK'
    BY <1>1, <1>2, <1>4, <1>6, <2>1, <2>2, <2>5, <2>6, <2>7
  <2> QED
    BY <2>4, <2>5, <2>8
<1>12. CASE ~rises
  <2>1. greens' = GreensAfter(level) /\ greens' \in 0 .. GreensToRise - 1
    BY <1>1, <1>9, <1>12 DEF Sample
  <2>2. threads' \in Cool .. Most /\ threads' <= threads /\ (level # "serious" => threads' = threads)
    BY <1>2, <1>12 DEF Sample, BacksOff
  <2>3. Most' = Most /\ Cool' = Cool
    BY DEF Most, Cool
  <2>4. greens' <= keep
    BY <1>1, <1>3, <1>4, <1>9, <2>1
  <2>5. \A i \in keep - greens' + 1 .. keep : heat'[i] = [level |-> "normal", threads |-> threads']
    <3>1. CASE level = "normal"
      <4>1. greens' = greens + 1 /\ threads' = threads
        BY <1>9, <2>1, <2>2, <3>1
      <4>2. Least(greens + 1, keep) = greens'
        BY <1>4, <2>1, <2>4, <4>1 DEF Least
      <4> QED
        BY <1>10, <3>1, <4>1, <4>2
    <3>2. CASE level # "normal"
      BY <1>4, <1>9, <2>1, <3>2
    <3> QED
      BY <3>1, <3>2
  <2> HIDE DEF rises
  <2> QED
    BY <1>1, <1>2, <1>4, <1>6, <2>1, <2>2, <2>3, <2>4, <2>5
<1> QED
  BY <1>11, <1>12

\* The number of threads stays between the cool default and what the machine allows, and grows
\* only after GreensToRise normal temperatures in a row at the present number.
THEOREM ThreadsAreBounded == Spec => ThreadsFollowHeat
<1> DEFINE Change ==
      /\ threads' \in Cool .. machine.cores
      /\ machine.quota > 0 => threads' <= machine.quota
      /\ threads # 0 /\ threads' > threads =>
             heat' = [i \in 1 .. GreensToRise |-> [level |-> "normal", threads |-> threads]]
<1>1. Init => ThreadsOK
  <2> SUFFICES ASSUME Init PROVE ThreadsOK
    OBVIOUS
  <2>1. machine \in Machines /\ threads = 0 /\ greens = 0 /\ heat = <<>>
    BY DEF Init
  <2>2. Most \in Nat /\ GreensToRise \in Nat \ {0}
    BY <2>1, ThreadNumbers, NumbersAssumption
  <2> QED
    BY <2>1, <2>2 DEF ThreadsOK
<1>2. ASSUME ThreadsOK, [Next]_vars PROVE ThreadsOK' /\ [Change]_threadVars
  <2>1. ASSUME NEW level \in Levels, Top(level) PROVE ThreadsOK' /\ [Change]_threadVars
    <3>1. machine' = machine /\ machine \in Machines /\ AdjustThreads(level)
      BY <1>2, <2>1 DEF Top, ThreadsOK
    <3>2. Most \in 1 .. machine.cores /\ (machine.quota > 0 => Most <= machine.quota) /\ Cool \in 1 .. Most
          /\ machine.cores \in Nat /\ machine.quota \in Nat /\ threads \in {0} \cup Cool .. Most
      BY <1>2, <3>1, ThreadNumbers, NumbersAssumption DEF ThreadsOK
    <3>3. CASE threads = 0
      <4>1. threads' = Cool /\ UNCHANGED <<greens, heat, machine>> /\ Most' = Most /\ Cool' = Cool
        BY <3>1, <3>3 DEF AdjustThreads, Most, Cool
      <4>2. greens = 0 /\ greens' = 0
        BY <1>2, <3>3, <4>1 DEF ThreadsOK
      <4> QED
        BY <1>2, <3>2, <3>3, <4>1, <4>2 DEF ThreadsOK
    <3>4. CASE threads # 0 /\ Sample(level)
      BY <1>2, <3>1, <3>2, <3>4, SampleStep
    <3>5. CASE UNCHANGED threadVars
      BY <1>2, <3>1, <3>5 DEF ThreadsOK, threadVars, Most, Cool
    <3> QED
      BY <3>1, <3>3, <3>4, <3>5 DEF AdjustThreads
  <2>2. CASE UNCHANGED <<machine, threadVars>>
    BY <1>2, <2>2 DEF ThreadsOK, threadVars, Most, Cool
  <2> QED
    BY <1>2, <2>1, <2>2 DEF Next, StartTurn, Cancel, Choose, Sink, ClientGone, Guard, vars, Levels
<1> QED
  BY <1>1, <1>2, PTL DEF Spec, ThreadsFollowHeat

-----------------------------------------------------------------------------
(* Types.                                                                  *)

LEMMA TypeStep ==
    ASSUME TypeOK, [Next]_vars
    PROVE  TypeOK'
<1> USE DEF TypeOK
<1>1. ASSUME NEW thinks \in BOOLEAN, NEW budget \in Budgets, NEW limit \in Limits,
             StartTurn(thinks, budget, limit)
      PROVE  TypeOK'
  <2>1. budget \in Nat /\ limit \in Nat
    BY NumbersAssumption
  <2>2. Len(Transition) \in Nat
    BY TransitionAssumption
  <2>3. (IF thinks THEN budget ELSE 0) \in Nat
    BY <2>1
  <2>4. turn' \in [thinks : BOOLEAN, budget : Nat, limit : Nat]
    BY <1>1, <2>1, <2>3 DEF StartTurn
  <2>5. out' \in Seq(Tokens)
    BY <1>1 DEF StartTurn
  <2>6. sent' \in Seq({"reasoning", "content"} \X Words)
    BY <1>1 DEF StartTurn
  <2>7. position' \in 0 .. Len(Transition)
    BY <1>1, <2>2 DEF StartTurn
  <2> QED
    BY <1>1, <2>4, <2>5, <2>6, <2>7 DEF StartTurn
<1>2. CASE Cancel
  BY <1>2 DEF Cancel, turnVars
<1>3. ASSUME NEW level \in Levels, Top(level) PROVE TypeOK'
  BY <1>3 DEF Top, Stops, turnVars
<1>4. ASSUME NEW t \in Tokens, Choose(t) PROVE TypeOK'
  <2>1. Append(out, t) \in Seq(Tokens) /\ Append(out, t) # <<>>
    OBVIOUS
  <2>2. position' \in 0 .. Len(Transition)
    <3>1. Len(Transition) \in Nat \ {0}
      BY TransitionAssumption DEF Contains
    <3>2. Injects => position < Len(Transition)
      BY <3>1 DEF Injects, Continuing, Starting
    <3> QED
      BY <1>4, <3>1, <3>2 DEF Choose
  <2>3. thinking' \in BOOLEAN
    BY <1>4 DEF Choose, StaysOpen
  <2> QED
    BY <1>4, <2>1, <2>2, <2>3 DEF Choose
<1>5. CASE Sink
  <2>1. Last(out) \in Tokens
    BY <1>5 DEF Sink, Last
  <2>2. Last(out) \notin {Close, End} => Append(sent, <<Field, Last(out)>>) \in Seq({"reasoning", "content"} \X Words)
    BY <2>1 DEF Tokens, Field
  <2> QED
    BY <1>5, <2>2 DEF Sink, Stops
<1>6. CASE ClientGone
  BY <1>6 DEF ClientGone, Stops, turnVars
<1>7. CASE Guard
  BY <1>7 DEF Guard, Stops, turnVars
<1>8. CASE UNCHANGED vars
  BY <1>8 DEF vars, turnVars
<1> QED
  BY <1>1, <1>2, <1>3, <1>4, <1>5, <1>6, <1>7, <1>8 DEF Next, Levels

\* Every variable of the decode loop keeps its type.
THEOREM TypeCorrect == Spec => []TypeOK
<1>1. Init => TypeOK
  <2> SUFFICES ASSUME Init PROVE TypeOK
    OBVIOUS
  <2>1. turn \in [thinks : BOOLEAN, budget : Nat, limit : Nat]
    BY DEF Init
  <2>2. Len(Transition) \in Nat
    BY TransitionAssumption
  <2>3. out \in Seq(Tokens)
    BY DEF Init
  <2>4. sent \in Seq({"reasoning", "content"} \X Words)
    BY DEF Init
  <2>5. position \in 0 .. Len(Transition)
    BY <2>2 DEF Init
  <2> QED
    BY <2>1, <2>3, <2>4, <2>5 DEF Init, TypeOK
<1> QED
  BY <1>1, TypeStep, PTL DEF Spec

-----------------------------------------------------------------------------
(* The budget.                                                             *)

LEMMA ContainsAppend ==
    ASSUME NEW s \in Seq(Tokens), NEW t \in Tokens, NEW e
    PROVE  Contains(Append(s, t), e) <=> Contains(s, e) \/ t = e
<1>1. /\ Len(Append(s, t)) = Len(s) + 1 /\ Len(s) \in Nat
      /\ \A i \in 1 .. Len(s) : Append(s, t)[i] = s[i]
      /\ Append(s, t)[Len(s) + 1] = t
  OBVIOUS
<1> QED
  BY <1>1 DEF Contains

\* What a sequence starts with does not change as it grows.
LEMMA PrefixStays ==
    ASSUME NEW s \in Seq(Tokens), NEW t \in Tokens, NEW n \in 0 .. Len(s)
    PROVE  SubSeq(Append(s, t), 1, n) = SubSeq(s, 1, n)
  OBVIOUS

LEMMA WholePrefix ==
    ASSUME NEW s \in Seq(Tokens)
    PROVE  SubSeq(s, 1, Len(s)) = s
  OBVIOUS

\* The generator's flag is what its tokens say.
ThinkingTrue == thinking = (turn.thinks /\ ~Contains(out, Close))

Over == turn.thinks /\ turn.budget > 0 /\ ~Contains(Prefix(turn.budget), Close)

LEMMA BudgetSays ==
    BudgetHolds <=>
      /\ Over => \A i \in DOMAIN SubSeq(out, turn.budget + 1, Len(out)) \cap DOMAIN Transition :
                     SubSeq(out, turn.budget + 1, Len(out))[i] = Transition[i]
      /\ position = IF Over THEN Least(Len(SubSeq(out, turn.budget + 1, Len(out))), Len(Transition)) ELSE 0
  BY DEF BudgetHolds, Over

\* How what follows the budget grows.
LEMMA ForcedGrows ==
    ASSUME NEW s \in Seq(Tokens), NEW t \in Tokens, NEW b \in Nat
    PROVE  LET old == SubSeq(s, b + 1, Len(s))
               new == SubSeq(Append(s, t), b + 1, Len(s) + 1)
           IN  /\ old \in Seq(Tokens) /\ new \in Seq(Tokens)
               /\ Len(s) < b  => Len(old) = 0 /\ Len(new) = 0
               /\ Len(s) >= b => /\ Len(old) = Len(s) - b /\ Len(new) = Len(old) + 1
                                 /\ \A i \in 1 .. Len(old) : new[i] = old[i]
                                 /\ new[Len(new)] = t
<1> DEFINE a == Append(s, t)
           old == SubSeq(s, b + 1, Len(s))
           new == SubSeq(a, b + 1, Len(s) + 1)
<1>1. a \in Seq(Tokens) /\ Len(a) = Len(s) + 1 /\ Len(s) \in Nat
      /\ (\A i \in 1 .. Len(s) : a[i] = s[i]) /\ a[Len(s) + 1] = t
  OBVIOUS
<1> HIDE DEF a
<1>2. /\ old \in Seq(Tokens)
      /\ Len(s) < b  => Len(old) = 0
      /\ Len(s) >= b => Len(old) = Len(s) - b /\ \A i \in 1 .. Len(s) - b : old[i] = s[b + i]
  BY <1>1
<1>3. /\ new \in Seq(Tokens)
      /\ Len(s) < b  => Len(new) = 0
      /\ Len(s) >= b => Len(new) = Len(s) + 1 - b /\ \A i \in 1 .. Len(s) + 1 - b : new[i] = a[b + i]
  BY <1>1
<1> HIDE DEF old, new
<1>4. ASSUME Len(s) >= b
      PROVE  /\ Len(old) = Len(s) - b /\ Len(new) = Len(old) + 1
             /\ \A i \in 1 .. Len(old) : new[i] = old[i]
             /\ new[Len(new)] = t
  <2>1. Len(old) = Len(s) - b /\ Len(new) = Len(s) + 1 - b /\ Len(new) = Len(old) + 1
    BY <1>1, <1>2, <1>3, <1>4
  <2>2. ASSUME NEW i \in 1 .. Len(old) PROVE new[i] = old[i]
    <3>1. i \in 1 .. Len(s) - b /\ i \in 1 .. Len(s) + 1 - b /\ b + i \in 1 .. Len(s)
      BY <1>1, <1>4, <2>1
    <3> QED
      BY <1>1, <1>2, <1>3, <1>4, <3>1
  <2>3. Len(new) \in 1 .. Len(s) + 1 - b /\ b + Len(new) = Len(s) + 1
    BY <1>1, <1>4, <2>1
  <2> QED
    BY <1>1, <1>3, <1>4, <2>1, <2>2, <2>3
<1>5. /\ old \in Seq(Tokens) /\ new \in Seq(Tokens)
      /\ Len(s) < b  => Len(old) = 0 /\ Len(new) = 0
      /\ Len(s) >= b => /\ Len(old) = Len(s) - b /\ Len(new) = Len(old) + 1
                        /\ \A i \in 1 .. Len(old) : new[i] = old[i]
                        /\ new[Len(new)] = t
  BY <1>2, <1>3, <1>4
<1> QED
  BY <1>5 DEF old, new, a

\* One more token keeps to the budget.
LEMMA ChooseKeepsBudget ==
    ASSUME TypeOK, ThinkingTrue, BudgetHolds, NEW t \in Tokens, Choose(t)
    PROVE  BudgetHolds'
<1> DEFINE b    == turn.budget
           old  == SubSeq(out, b + 1, Len(out))
           new  == SubSeq(Append(out, t), b + 1, Len(out) + 1)
           T    == Len(Transition)
           L    == Len(old)
           M    == Len(new)
<1>1. /\ out' = Append(out, t) /\ Len(out') = Len(out) + 1 /\ turn' = turn /\ out' \in Seq(Tokens)
      /\ position' = IF Injects THEN position + 1 ELSE position
      /\ out \in Seq(Tokens) /\ Len(out) \in Nat /\ b \in Nat /\ position \in 0 .. T
      /\ Injects => t = Transition[position + 1]
  BY DEF Choose, TypeOK, NextTokens
<1>2. T \in Nat \ {0} /\ DOMAIN Transition = 1 .. T
  BY TransitionAssumption DEF Contains
<1>3. /\ old \in Seq(Tokens) /\ new \in Seq(Tokens)
      /\ Len(out) < b  => L = 0 /\ M = 0
      /\ Len(out) >= b => /\ L = Len(out) - b /\ M = L + 1
                          /\ \A i \in 1 .. L : new[i] = old[i]
                          /\ new[M] = t
  BY <1>1, ForcedGrows
<1>4. Injects <=> position \in 1 .. T - 1 \/ (position = 0 /\ thinking /\ b > 0 /\ Len(out) >= b)
  BY DEF Injects, Continuing, Starting
<1>5. /\ Over => \A i \in DOMAIN old \cap DOMAIN Transition : old[i] = Transition[i]
      /\ position = IF Over THEN Least(L, T) ELSE 0
  BY BudgetSays
<1>6. SUFFICES /\ Over' => \A i \in DOMAIN new \cap DOMAIN Transition : new[i] = Transition[i]
               /\ position' = IF Over' THEN Least(M, T) ELSE 0
  <2>1. /\ (turn.budget)' = b /\ SubSeq(out', b + 1, Len(out')) = new
    BY <1>1
  <2> HIDE DEF old, new
  <2> QED
    BY <1>1, <1>6, <2>1 DEF BudgetHolds, Over
<1>7. L \in Nat /\ M \in Nat /\ DOMAIN old = 1 .. L /\ DOMAIN new = 1 .. M
  <2> HIDE DEF old, new
  <2> QED
    BY <1>3
<1>8. \A n \in Nat : Least(n, T) = IF n < T THEN n ELSE T
  BY DEF Least
<1> HIDE DEF old, new, T, L, M
<1>9. CASE b > 0 /\ Len(out) < b
  <2>1. L = 0 /\ M = 0
    BY <1>3, <1>9
  <2>2. position = 0
    BY <1>2, <1>5, <1>8, <2>1
  <2>3. ~Injects
    BY <1>1, <1>2, <1>4, <1>9, <2>2
  <2>4. position' = 0 /\ DOMAIN new = {}
    BY <1>1, <1>7, <2>1, <2>2, <2>3
  <2>5. Least(M, T) = 0
    BY <1>2, <1>8, <2>1
  <2> QED
    BY <2>4, <2>5
<1>10. CASE b = 0
  <2>1. ~Over /\ ~Over'
    BY <1>1, <1>10 DEF Over
  <2>2. ~Injects
    BY <1>1, <1>2, <1>4, <1>5, <1>10, <2>1
  <2> QED
    BY <1>1, <1>5, <2>1, <2>2
<1>11. CASE b > 0 /\ Len(out) >= b
  <2>1. Prefix(b)' = SubSeq(out, 1, b) /\ Prefix(b) = SubSeq(out, 1, b)
    <3>1. Least(b, Len(out)) = b /\ Least(b, Len(out')) = b
      BY <1>1, <1>11 DEF Least
    <3>2. SubSeq(out', 1, b) = SubSeq(out, 1, b)
      BY <1>1, <1>11, PrefixStays
    <3> QED
      BY <1>1, <3>1, <3>2 DEF Prefix
  <2>2. Over' = Over
    BY <1>1, <2>1 DEF Over
  <2>3. CASE ~Over
    <3>1. ~thinking
      <4>1. ~Contains(out, Close) => ~Contains(SubSeq(out, 1, b), Close)
        <5>1. Len(SubSeq(out, 1, b)) = b /\ \A i \in 1 .. b : SubSeq(out, 1, b)[i] = out[i]
          BY <1>1, <1>11
        <5> QED
          BY <1>1, <1>11, <5>1 DEF Contains
      <4> QED
        BY <1>11, <2>1, <2>3, <4>1 DEF Over, ThinkingTrue
    <3>2. position = 0 /\ ~Injects
      BY <1>2, <1>4, <1>5, <2>3, <3>1
    <3> QED
      BY <1>1, <2>2, <2>3, <3>2
  <2>4. CASE Over
    <3>1. L = Len(out) - b /\ M = L + 1 /\ new[M] = t /\ \A i \in 1 .. L : new[i] = old[i]
      BY <1>3, <1>11
    <3>2. position = IF L < T THEN L ELSE T
      BY <1>5, <1>7, <1>8, <2>4
    <3>3. L < T => Injects
      <4>1. CASE L = 0
        <5>1. Len(out) = b
          BY <1>1, <3>1, <4>1
        <5>2. SubSeq(out, 1, b) = out
          BY <1>1, <5>1, WholePrefix
        <5>3. thinking
          BY <2>1, <2>4, <5>2 DEF Over, ThinkingTrue
        <5> QED
          BY <1>2, <1>4, <1>11, <3>2, <4>1, <5>3
      <4>2. CASE L # 0
        BY <1>2, <1>4, <1>7, <3>2, <4>2
      <4> QED
        BY <4>1, <4>2
    <3>4. L >= T => ~Injects
      BY <1>2, <1>4, <1>7, <3>2
    <3>5. position' = IF M < T THEN M ELSE T
      <4>1. CASE L < T
        BY <1>1, <1>2, <1>7, <3>1, <3>2, <3>3, <4>1
      <4>2. CASE L >= T
        BY <1>1, <1>2, <1>7, <3>1, <3>2, <3>4, <4>2
      <4> QED
        BY <1>2, <1>7, <4>1, <4>2
    <3>6. ASSUME NEW i \in DOMAIN new \cap DOMAIN Transition PROVE new[i] = Transition[i]
      <4>1. i \in 1 .. M /\ i \in 1 .. T
        BY <1>2, <1>7
      <4>2. CASE i = M
        <5>1. L < T /\ position = L
          BY <1>2, <1>7, <3>1, <3>2, <4>1, <4>2
        <5> QED
          BY <1>1, <3>1, <3>3, <4>2, <5>1
      <4>3. CASE i # M
        <5>1. i \in 1 .. L
          BY <1>7, <3>1, <4>1, <4>3
        <5> QED
          BY <1>2, <1>5, <1>7, <2>4, <3>1, <4>1, <5>1
      <4> QED
        BY <4>2, <4>3
    <3> QED
      BY <1>7, <1>8, <2>2, <2>4, <3>5, <3>6
  <2> QED
    BY <2>3, <2>4
<1> QED
  BY <1>1, <1>9, <1>10, <1>11

\* The budget closes a block that the model has left open, with the whole transition and nothing
\* else, and no other block.
THEOREM BudgetKept == Spec => []BudgetHolds
<1>1. Init => ThinkingTrue /\ BudgetHolds
  <2> SUFFICES ASSUME Init PROVE ThinkingTrue /\ BudgetHolds
    OBVIOUS
  <2> QED
    BY DEF Init, ThinkingTrue, BudgetHolds
<1>2. ASSUME TypeOK, ThinkingTrue, BudgetHolds, [Next]_vars PROVE ThinkingTrue' /\ BudgetHolds'
  <2>1. ASSUME NEW thinks \in BOOLEAN, NEW budget \in Budgets, NEW limit \in Limits,
               StartTurn(thinks, budget, limit)
        PROVE  ThinkingTrue' /\ BudgetHolds'
    <3>1. /\ out' = <<>> /\ position' = 0 /\ thinking' = thinks /\ turn'.thinks = thinks
          /\ turn'.budget \in Nat
      BY <2>1, NumbersAssumption DEF StartTurn
    <3>2. ~Contains(<<>>, Close)
      BY DEF Contains
    <3>3. LET f == SubSeq(<<>>, turn'.budget + 1, 0) IN Len(f) = 0 /\ DOMAIN f = {}
      BY <3>1
    <3>4. Len(Transition) \in Nat
      BY TransitionAssumption
    <3>5. ThinkingTrue'
      BY <3>1, <3>2 DEF ThinkingTrue
    <3>6. Len(out') = 0
      BY <3>1
    <3>7. BudgetHolds'
      BY <3>1, <3>3, <3>4, <3>6 DEF BudgetHolds, Least
    <3> QED
      BY <3>5, <3>7
  <2>2. ASSUME NEW t \in Tokens, Choose(t) PROVE ThinkingTrue' /\ BudgetHolds'
    <3>1. Contains(out', Close) <=> Contains(out, Close) \/ t = Close
      BY <1>2, <2>2, ContainsAppend DEF TypeOK, Choose
    <3>2. ThinkingTrue'
      BY <1>2, <2>2, <3>1 DEF Choose, StaysOpen, ThinkingTrue, TypeOK
    <3> QED
      BY <1>2, <2>2, <3>2, ChooseKeepsBudget
  <2>3. CASE UNCHANGED <<turn, out, thinking, position>>
    BY <1>2, <2>3 DEF ThinkingTrue, BudgetHolds, Prefix
  <2> QED
    BY <1>2, <2>1, <2>2, <2>3 DEF Next, Cancel, Top, Sink, ClientGone, Guard, vars, turnVars
<1> QED
  BY <1>1, <1>2, TypeCorrect, PTL DEF Spec

-----------------------------------------------------------------------------
(* What the client reads.                                                  *)

\* How many tokens the sink has had.
Taken == IF at = "chosen" THEN Len(out) - 1 ELSE Len(out)

SinkOK ==
    at # "idle" =>
        /\ sinkOpen = Before(Taken)
        /\ Len(sent) = Cardinality(WordsTo(Taken))
        /\ \A i \in WordsTo(Taken) : sent[Cardinality(WordsTo(i))] = Piece(i)

\* The place of a word among the words.
LEMMA WordPlaces ==
    ASSUME out \in Seq(Tokens), NEW n \in 0 .. Len(out)
    PROVE  /\ IsFiniteSet(WordsTo(n)) /\ Cardinality(WordsTo(n)) \in Nat
           /\ \A i \in WordsTo(n) : Cardinality(WordsTo(i)) \in 1 .. Cardinality(WordsTo(n))
           /\ n = 0 => WordsTo(n) = {} /\ Cardinality(WordsTo(n)) = 0
           /\ n < Len(out) =>
                WordsTo(n + 1) = IF out[n + 1] \in Words THEN WordsTo(n) \cup {n + 1} ELSE WordsTo(n)
           /\ n < Len(out) /\ out[n + 1] \in Words =>
                Cardinality(WordsTo(n + 1)) = Cardinality(WordsTo(n)) + 1
<1>1. Len(out) \in Nat
  OBVIOUS
<1>2. \A i \in 0 .. n : WordsTo(i) \subseteq WordsTo(n) /\ WordsTo(i) \subseteq 1 .. i
  BY <1>1 DEF WordsTo
<1>3. \A i \in 0 .. n : IsFiniteSet(WordsTo(i)) /\ Cardinality(WordsTo(i)) \in Nat
  <2>1. ASSUME NEW i \in 0 .. n PROVE IsFiniteSet(WordsTo(i)) /\ Cardinality(WordsTo(i)) \in Nat
    <3>1. IsFiniteSet(1 .. i)
      BY FS_Interval
    <3> QED
      BY <1>2, <3>1, FS_Subset, FS_CardinalityType
  <2> QED
    BY <2>1
<1>4. ASSUME NEW i \in WordsTo(n)
      PROVE  Cardinality(WordsTo(i)) \in 1 .. Cardinality(WordsTo(n))
  <2>1. i \in 1 .. n /\ i \in 0 .. n /\ i \in WordsTo(i)
    BY <1>1 DEF WordsTo
  <2>2. Cardinality(WordsTo(i)) <= Cardinality(WordsTo(n))
    BY <1>2, <1>3, <2>1, FS_Subset
  <2>3. Cardinality(WordsTo(i)) # 0
    BY <1>3, <2>1, FS_EmptySet
  <2> QED
    BY <1>3, <2>1, <2>2, <2>3
<1>5. n = 0 => WordsTo(n) = {} /\ Cardinality(WordsTo(n)) = 0
  BY FS_EmptySet DEF WordsTo
<1>6. n < Len(out) =>
         WordsTo(n + 1) = IF out[n + 1] \in Words THEN WordsTo(n) \cup {n + 1} ELSE WordsTo(n)
  BY <1>1 DEF WordsTo
<1>7. n < Len(out) /\ out[n + 1] \in Words =>
         Cardinality(WordsTo(n + 1)) = Cardinality(WordsTo(n)) + 1
  <2>1. n \in 0 .. n
    OBVIOUS
  <2>2. n + 1 \notin WordsTo(n)
    BY <1>2, <2>1
  <2>3. IsFiniteSet(WordsTo(n))
    BY <1>3, <2>1
  <2>4. Cardinality(WordsTo(n) \cup {n + 1}) = Cardinality(WordsTo(n)) + 1
    BY <2>2, <2>3, FS_AddElement
  <2> QED
    BY <1>6, <2>4
<1> QED
  BY <1>3, <1>4, <1>5, <1>6, <1>7

\* What was decoded stays, and so do its words and their fields.
LEMMA PastStays ==
    ASSUME TypeOK, NEW t \in Tokens, Choose(t), NEW n \in 0 .. Len(out)
    PROVE  /\ WordsTo(n)' = WordsTo(n) /\ Before(n)' = Before(n)
           /\ n > 0 => Piece(n)' = Piece(n)
<1>1. /\ out \in Seq(Tokens) /\ Len(out) \in Nat /\ out' = Append(out, t) /\ turn' = turn
      /\ \A i \in 1 .. Len(out) : out'[i] = out[i]
  BY DEF TypeOK, Choose
<1>2. WordsTo(n)' = WordsTo(n)
  BY <1>1 DEF WordsTo
<1>3. SubSeq(out', 1, n) = SubSeq(out, 1, n)
  BY <1>1, PrefixStays
<1>4. Before(n)' = Before(n)
  BY <1>1, <1>3 DEF Before
<1> QED
  BY <1>1, <1>2, <1>4 DEF Piece

\* One more token is before </think> when those up to it are and it is not </think> itself.
LEMMA BeforeNext ==
    ASSUME out \in Seq(Tokens), NEW n \in Nat, n < Len(out)
    PROVE  /\ Before(n + 1) \in BOOLEAN /\ Before(n) \in BOOLEAN
           /\ Before(n + 1) <=> Before(n) /\ out[n + 1] # Close
<1>1. /\ Len(SubSeq(out, 1, n)) = n /\ \A i \in 1 .. n : SubSeq(out, 1, n)[i] = out[i]
      /\ Len(SubSeq(out, 1, n + 1)) = n + 1 /\ \A i \in 1 .. n + 1 : SubSeq(out, 1, n + 1)[i] = out[i]
  OBVIOUS
<1> QED
  BY <1>1 DEF Before, Contains

\* A word the sink gets through is the next piece, in the field the client expects.
LEMMA SinkStep ==
    ASSUME TypeOK, SinkOK, Sink
    PROVE  SinkOK'
<1> DEFINE m == Len(out) - 1
           t == Last(out)
<1>1. /\ at = "chosen" /\ out' = out /\ turn' = turn /\ out \in Seq(Tokens)
      /\ m \in Nat /\ m < Len(out) /\ m + 1 = Len(out) /\ t = out[m + 1]
  BY DEF TypeOK, Sink, Last
<1>2. /\ sinkOpen = Before(m) /\ Len(sent) = Cardinality(WordsTo(m))
      /\ \A i \in WordsTo(m) : sent[Cardinality(WordsTo(i))] = Piece(i)
  BY <1>1 DEF SinkOK, Taken
<1>3. \A n \in 0 .. Len(out) : WordsTo(n)' = WordsTo(n) /\ Before(n)' = Before(n)
  BY <1>1 DEF WordsTo, Before
<1>4. \A n \in 0 .. Len(out) : Piece(n)' = Piece(n)
  BY <1>1, <1>3 DEF Piece
<1>5. Before(m + 1) \in BOOLEAN /\ Before(m) \in BOOLEAN /\ (Before(m + 1) <=> Before(m) /\ t # Close)
  BY <1>1, BeforeNext
<1>6. /\ \A i \in WordsTo(m) : Cardinality(WordsTo(i)) \in 1 .. Cardinality(WordsTo(m))
      /\ WordsTo(m + 1) = IF t \in Words THEN WordsTo(m) \cup {m + 1} ELSE WordsTo(m)
      /\ t \in Words => Cardinality(WordsTo(m + 1)) = Cardinality(WordsTo(m)) + 1
  <2>1. m \in 0 .. Len(out)
    BY <1>1
  <2> HIDE DEF m, t
  <2> QED
    BY <1>1, <2>1, WordPlaces
<1>7. \A i \in WordsTo(m) \cup WordsTo(m + 1) : i \in 0 .. Len(out)
  BY <1>1 DEF WordsTo
<1>8. CASE at' = "idle"
  BY <1>8 DEF SinkOK
<1>9. CASE at' = "sent"
  <2>1. Taken' = m + 1 /\ m + 1 \in 0 .. Len(out)
    BY <1>1, <1>9 DEF Taken
  <2> HIDE DEF m, t
    <2>2. SUFFICES /\ sinkOpen' = Before(m + 1)
                 /\ Len(sent') = Cardinality(WordsTo(m + 1))
                 /\ \A i \in WordsTo(m + 1) : sent'[Cardinality(WordsTo(i))] = Piece(i)
    <3>1. WordsTo(Taken') = WordsTo(m + 1)
      BY <2>1
    <3>2. WordsTo(Taken)' = WordsTo(m + 1)
      BY <1>1, <2>1 DEF WordsTo
    <3>3. Before(Taken)' = Before(m + 1)
      BY <1>1, <2>1 DEF Before
    <3>4. \A i \in WordsTo(m + 1) : WordsTo(i)' = WordsTo(i) /\ Piece(i)' = Piece(i)
      BY <1>3, <1>4, <1>7
    <3> QED
      BY <2>2, <3>2, <3>3, <3>4 DEF SinkOK
  <2>3. CASE t = Close
    <3>1. sinkOpen' = FALSE /\ sent' = sent /\ t \notin Words
      BY <1>9, <2>3, TokensAssumption DEF Sink, Stops, t
    <3> QED
      BY <1>1, <1>2, <1>5, <1>6, <2>1, <2>3, <3>1
  <2>4. CASE t # Close
    <3>1. sinkOpen' = sinkOpen /\ sent' = Append(sent, <<Field, t>>) /\ t # End
      BY <1>9, <2>4 DEF Sink, Stops, t
    <3>2. t \in Words
      BY <1>1, <2>4, <3>1 DEF Tokens
    <3>3. /\ sent \in Seq({"reasoning", "content"} \X Words) /\ <<Field, t>> \in {"reasoning", "content"} \X Words
      BY <3>2 DEF TypeOK, Field
    <3>4. /\ Len(sent') = Len(sent) + 1 /\ Len(sent) \in Nat
          /\ \A k \in 1 .. Len(sent) : sent'[k] = sent[k]
          /\ sent'[Len(sent) + 1] = <<Field, t>>
      BY <3>1, <3>3
    <3>5. <<Field, t>> = Piece(m + 1)
      BY <1>1, <1>2, <1>5, <2>4 DEF Field, Piece
    <3> QED
      <4>1. Len(sent') = Cardinality(WordsTo(m + 1))
        BY <1>2, <1>6, <3>2, <3>4
      <4>2. ASSUME NEW i \in WordsTo(m) PROVE sent'[Cardinality(WordsTo(i))] = Piece(i)
        BY <1>2, <1>6, <3>4
      <4>3. sent'[Cardinality(WordsTo(m + 1))] = Piece(m + 1)
        BY <1>2, <1>6, <3>2, <3>4, <3>5
      <4> QED
        BY <1>2, <1>5, <1>6, <2>4, <3>1, <3>2, <4>1, <4>2, <4>3
  <2> QED
    BY <2>3, <2>4
<1> QED
  BY <1>8, <1>9 DEF Sink, Stops

\* The client reads every word once and in order, in the field that the generator's own flag says.
THEOREM ClientReadsWhatWasDecoded == Spec => []SinkAgrees
<1>1. Init => ThinkingTrue /\ SinkOK
  <2> SUFFICES ASSUME Init PROVE ThinkingTrue /\ SinkOK
    OBVIOUS
  <2> QED
    BY DEF Init, ThinkingTrue, SinkOK
<1>2. ASSUME TypeOK, ThinkingTrue, SinkOK, [Next]_vars PROVE ThinkingTrue' /\ SinkOK'
  <2>1. ASSUME NEW thinks \in BOOLEAN, NEW budget \in Budgets, NEW limit \in Limits,
               StartTurn(thinks, budget, limit)
        PROVE  ThinkingTrue' /\ SinkOK'
    <3>1. /\ out' = <<>> /\ sent' = <<>> /\ thinking' = thinks /\ sinkOpen' = thinks
          /\ turn'.thinks = thinks /\ at' = "top"
      BY <2>1 DEF StartTurn
    <3>2. ~Contains(<<>>, Close) /\ Len(<<>>) = 0 /\ SubSeq(<<>>, 1, 0) = <<>>
      BY DEF Contains
    <3>3. ThinkingTrue'
      BY <3>1, <3>2 DEF ThinkingTrue
    <3>4. Taken' = 0
      BY <3>1, <3>2 DEF Taken
    <3>5. Before(Taken)' = thinks
      BY <3>1, <3>2, <3>4 DEF Before
    <3>6. WordsTo(Taken)' = {} /\ Cardinality({}) = 0
      BY <3>4, FS_EmptySet DEF WordsTo
    <3>7. Len(sent') = 0
      BY <3>1
    <3> QED
      BY <3>1, <3>3, <3>5, <3>6, <3>7 DEF SinkOK
  <2>2. ASSUME NEW t \in Tokens, Choose(t) PROVE ThinkingTrue' /\ SinkOK'
    <3>1. Contains(out', Close) <=> Contains(out, Close) \/ t = Close
      BY <1>2, <2>2, ContainsAppend DEF TypeOK, Choose
    <3>2. ThinkingTrue'
      BY <1>2, <2>2, <3>1 DEF Choose, StaysOpen, ThinkingTrue, TypeOK
    <3>3. /\ Len(out) \in Nat /\ Taken = Len(out) /\ Taken' = Len(out) /\ Len(out) \in 0 .. Len(out)
          /\ at = "choose" /\ sent' = sent /\ sinkOpen' = sinkOpen
      BY <1>2, <2>2 DEF Taken, Choose, TypeOK
    <3>4. Before(Taken)' = Before(Len(out)) /\ WordsTo(Taken)' = WordsTo(Len(out))
      <4>1. PICK n \in 0 .. Len(out) : n = Len(out)
        BY <3>3
      <4>2. Before(n)' = Before(n) /\ WordsTo(n)' = WordsTo(n)
        BY <1>2, <2>2, PastStays
      <4>3. Before(Taken)' = Before(n)' /\ WordsTo(Taken)' = WordsTo(n)'
        BY <3>3, <4>1 DEF Before, WordsTo
      <4> QED
        BY <4>1, <4>2, <4>3
    <3>5. \A i \in WordsTo(Len(out)) : WordsTo(i)' = WordsTo(i) /\ Piece(i)' = Piece(i)
      BY <1>2, <2>2, <3>3, PastStays DEF WordsTo
    <3> QED
      BY <1>2, <3>2, <3>3, <3>4, <3>5 DEF SinkOK
  <2>3. CASE Sink
    BY <1>2, <2>3, SinkStep DEF Sink, ThinkingTrue
  <2>4. CASE UNCHANGED turnVars /\ (at = "idle" => at' = "idle") /\ (at' = "chosen" <=> at = "chosen")
    BY <1>2, <2>4 DEF turnVars, ThinkingTrue, SinkOK, Taken, Before, WordsTo, Piece
  <2>5. CASE UNCHANGED turnVars /\ at' = "idle"
    BY <1>2, <2>5 DEF turnVars, ThinkingTrue, SinkOK
  <2> QED
    BY <1>2, <2>1, <2>2, <2>3, <2>4, <2>5
    DEF Next, Cancel, Top, Stops, ClientGone, Guard, vars, turnVars
<1>3. TypeOK /\ ThinkingTrue /\ SinkOK => SinkAgrees
  <2> SUFFICES ASSUME TypeOK, ThinkingTrue, SinkOK, at = "top" 
               PROVE  /\ thinking = sinkOpen
                      /\ Len(sent) = Cardinality(WordsTo(Len(out)))
                      /\ \A i \in WordsTo(Len(out)) : sent[Cardinality(WordsTo(i))] = Piece(i)
    BY DEF SinkAgrees
  <2>1. Taken = Len(out) /\ SubSeq(out, 1, Len(out)) = out
    BY WholePrefix DEF Taken, TypeOK
  <2>2. sinkOpen = Before(Len(out)) /\ Before(Len(out)) = (turn.thinks /\ ~Contains(out, Close))
    BY <2>1 DEF SinkOK, Before
  <2> QED
    BY <2>1, <2>2 DEF SinkOK, ThinkingTrue
<1> QED
  BY <1>1, <1>2, <1>3, TypeCorrect, PTL DEF Spec

-----------------------------------------------------------------------------
(* The guard against repeated tails.                                       *)

\* Products of the kind that places a repetition in the text.
LEMMA ProductFacts ==
    ASSUME NEW n \in Nat, NEW a \in Nat, NEW b \in Nat
    PROVE  /\ a * n \in Nat /\ n * a = a * n
           /\ (a + 1) * n = a * n + n
           /\ a <= b => a * n <= b * n
<1>1. a * n \in Nat /\ n * a = a * n /\ (a + 1) * n = a * n + n
  OBVIOUS
<1>2. ASSUME a <= b PROVE a * n <= b * n
  <2>1. PICK k \in Nat : b = a + k
    BY <1>2
  <2>2. b * n = a * n + k * n /\ k * n \in Nat /\ a * n \in Nat
    BY <2>1
  <2> QED
    BY <2>2
<1> QED
  BY <1>1, <1>2

\* Every distance is so many periods and a rest.
LEMMA Division ==
    ASSUME NEW n \in Nat \ {0}, NEW d \in Nat
    PROVE  \E r \in Nat, q \in 0 .. n - 1 : d = r * n + q
<1> DEFINE Rests == {q \in Nat : \E r \in Nat : d = r * n + q}
<1>1. d \in Rests
  <2>1. d = 0 * n + d
    OBVIOUS
  <2> QED
    BY <2>1
<1>2. PICK q \in Rests : \A k \in Rests : q <= k
  <2>1. Rests \in SUBSET Nat
    OBVIOUS
  <2> HIDE DEF Rests
  <2> QED
    BY <1>1, <2>1, LeastElement
<1>3. PICK r \in Nat : d = r * n + q
  BY <1>2
<1>4. q < n
  <2> SUFFICES ASSUME q >= n PROVE FALSE
    BY <1>2
  <2>1. q - n \in Nat /\ d = (r + 1) * n + (q - n)
    <3>1. q \in Nat /\ r * n \in Nat /\ (r + 1) * n = r * n + n
      BY <1>2, <1>3, ProductFacts
    <3> QED
      BY <1>3, <3>1
  <2>2. q - n \in Rests
    BY <1>3, <2>1
  <2>3. q <= q - n
    <3> HIDE DEF Rests
    <3> QED
      BY <1>2, <2>2
  <2>4. q \in Nat
    BY <1>2
  <2> QED
    BY <2>3, <2>4
<1> QED
  BY <1>2, <1>3, <1>4

\* A tail that agrees with itself one period back, over all but one of its repetitions, says its
\* last period again in each of them, and the other way round.
LEMMA CyclesSays ==
    ASSUME NEW s \in Seq(Tokens), NEW n \in 1 .. MaxPeriod, n * Repeats <= Len(s)
    PROVE  CyclesWith(n, s) <=>
             \A r \in 0 .. Repeats - 1, i \in 1 .. n :
                 s[Len(s) - r * n - n + i] = s[Len(s) - n + i]
<1> DEFINE L == Len(s)
           R == Repeats
           top == (R - 1) * n
<1>1. L \in Nat /\ R \in Nat \ {0} /\ n \in Nat \ {0} /\ R - 1 \in Nat
  BY NumbersAssumption
<1>2. top \in Nat /\ n * R = top + n /\ top + n <= L
  <2>1. R = (R - 1) + 1
    BY <1>1
  <2>2. n * R = R * n /\ R * n = (R - 1) * n + n /\ (R - 1) * n \in Nat
    BY <1>1, <2>1, ProductFacts
  <2> QED
    BY <2>2
<1>3. CyclesWith(n, s) <=> \A i \in L - top + 1 .. L : s[i] = s[i - n]
  <2>1. L - n * R + n + 1 = L - top + 1
    BY <1>1, <1>2
  <2> HIDE DEF top
  <2> QED
    BY <2>1 DEF CyclesWith
<1> HIDE DEF L, R, top
<1>4. ASSUME \A i \in L - top + 1 .. L : s[i] = s[i - n],
             NEW r \in 0 .. R - 1, NEW i \in 1 .. n
      PROVE  s[L - r * n - n + i] = s[L - n + i]
  <2> DEFINE Bad == {k \in 0 .. R - 1 : s[L - k * n - n + i] # s[L - n + i]}
  <2>1. SUFFICES ASSUME Bad # {} PROVE FALSE
    OBVIOUS
  <2>2. PICK k \in Bad : \A j \in Bad : k <= j
    <3>1. Bad \in SUBSET Nat
      BY <1>1
    <3> HIDE DEF Bad
    <3> QED
      BY <2>1, <3>1, LeastElement
  <2>3. k # 0
    <3>1. L - 0 * n - n + i = L - n + i
      BY <1>1
    <3> QED
      BY <2>2, <3>1
  <2>4. k - 1 \in 0 .. R - 1 /\ k - 1 \in Nat /\ k \in Nat
    BY <1>1, <2>2, <2>3
  <2>5. k - 1 \notin Bad
    <3> HIDE DEF Bad
    <3> QED
      BY <2>2, <2>4
  <2>6. s[L - (k - 1) * n - n + i] = s[L - n + i]
    BY <2>4, <2>5
  <2>7. k * n = (k - 1) * n + n /\ k * n \in Nat /\ (k - 1) * n \in Nat /\ k * n <= top
    <3>1. k = (k - 1) + 1 /\ k <= R - 1
      BY <1>1, <2>2, <2>4
    <3> QED
      BY <1>1, <2>4, <3>1, ProductFacts DEF top
  <2> HIDE DEF Bad
  <2>8. PICK j \in L - top + 1 .. L : j = L - k * n + i
    <3>1. L - k * n + i \in L - top + 1 .. L
      BY <1>1, <1>2, <2>7
    <3> QED
      BY <3>1
  <2>9. s[j] = s[j - n]
    BY <1>4
  <2>10. j = L - (k - 1) * n - n + i /\ j - n = L - k * n - n + i
    BY <1>1, <2>7, <2>8
  <2> QED
    BY <2>2, <2>6, <2>9, <2>10 DEF Bad
<1>5. ASSUME \A r \in 0 .. R - 1, i \in 1 .. n : s[L - r * n - n + i] = s[L - n + i],
             NEW i \in L - top + 1 .. L
      PROVE  s[i] = s[i - n]
  <2>1. L - i \in Nat /\ L - i < top
    BY <1>1, <1>2
  <2>2. PICK r \in Nat, q \in 0 .. n - 1 : L - i = r * n + q
    BY <1>1, <2>1, Division
  <2>3. r * n \in Nat /\ (r + 1) * n = r * n + n /\ r < R - 1
    <3>1. r * n \in Nat /\ (r + 1) * n = r * n + n /\ (R - 1 <= r => (R - 1) * n <= r * n)
      BY <1>1, <2>2, ProductFacts
    <3>2. r * n < top
      BY <1>1, <1>2, <2>1, <2>2, <3>1
    <3> QED
      BY <1>1, <1>2, <3>1, <3>2 DEF top
  <2>4. n - q \in 1 .. n /\ r \in 0 .. R - 1 /\ r + 1 \in 0 .. R - 1
    BY <1>1, <2>2, <2>3
  <2>5. i = L - r * n - n + (n - q) /\ i - n = L - (r + 1) * n - n + (n - q)
    BY <1>1, <2>2, <2>3
  <2> QED
    BY <1>5, <2>4, <2>5
<1>6. CyclesWith(n, s) <=> \A r \in 0 .. R - 1, i \in 1 .. n : s[L - r * n - n + i] = s[L - n + i]
  BY <1>3, <1>4, <1>5
<1> QED
  BY <1>6 DEF L, R

\* What the guard looks for is what a reader calls a loop.
LEMMA TailIsLoop ==
    ASSUME NEW s \in Seq(Tokens)
    PROVE  RepeatedTail(s) <=> SaysAgain(s)
  BY CyclesSays DEF RepeatedTail, SaysAgain

GuardOK ==
    /\ at # "idle" => why = "none"
    /\ at \in {"top", "choose"} => ~RepeatedTail(out)
    /\ \A k \in 0 .. Len(out) - 1 : ~RepeatedTail(SubSeq(out, 1, k))
    /\ why = "repetition" => RepeatedTail(out)

\* No turn goes on past the first loop its tokens end in, and none is ended for a loop that is
\* not there.
THEOREM LoopsStop == Spec => []StopsAtFirstLoop
<1>1. ~RepeatedTail(<<>>)
  <2>1. ASSUME NEW n \in 1 .. MaxPeriod PROVE ~(n * Repeats <= 0)
    <3>1. n \in Nat \ {0} /\ Repeats \in Nat \ {0}
      BY NumbersAssumption
    <3>2. 1 * n <= Repeats * n /\ n * Repeats = Repeats * n /\ Repeats * n \in Nat
      BY <3>1, ProductFacts
    <3> QED
      BY <3>1, <3>2
  <2>2. Len(<<>>) = 0
    OBVIOUS
  <2> QED
    BY <2>1, <2>2 DEF RepeatedTail
<1>2. Init => GuardOK
  <2> SUFFICES ASSUME Init PROVE GuardOK
    OBVIOUS
  <2>1. at = "idle" /\ why = "none" /\ out = <<>> /\ Len(out) = 0
    BY DEF Init
  <2> QED
    BY <2>1 DEF GuardOK
<1>3. ASSUME TypeOK, GuardOK, [Next]_vars PROVE GuardOK'
  <2>1. ASSUME NEW thinks \in BOOLEAN, NEW budget \in Budgets, NEW limit \in Limits,
               StartTurn(thinks, budget, limit)
        PROVE  GuardOK'
    <3>1. at' = "top" /\ why' = "none" /\ out' = <<>> /\ Len(out') = 0
      BY <2>1 DEF StartTurn
    <3>2. ~RepeatedTail(out)'
      BY <1>1, <3>1 DEF RepeatedTail, CyclesWith
    <3> QED
      BY <3>1, <3>2 DEF GuardOK
  <2>2. ASSUME NEW t \in Tokens, Choose(t) PROVE GuardOK'
    <3>1. /\ at = "choose" /\ at' = "chosen" /\ why' = why /\ out' = Append(out, t)
          /\ out \in Seq(Tokens) /\ Len(out) \in Nat /\ Len(out') = Len(out) + 1
      BY <1>3, <2>2 DEF Choose, TypeOK
    <3>2. why = "none" /\ ~RepeatedTail(out)
      BY <1>3, <3>1 DEF GuardOK
    <3>3. ASSUME NEW k \in 0 .. Len(out') - 1 PROVE ~RepeatedTail(SubSeq(out', 1, k))
      <4>1. k \in 0 .. Len(out) /\ SubSeq(out', 1, k) = SubSeq(out, 1, k)
        BY <3>1, PrefixStays
      <4>2. CASE k = Len(out)
        BY <3>1, <3>2, <4>1, <4>2, WholePrefix
      <4>3. CASE k # Len(out)
        <5>1. k \in 0 .. Len(out) - 1
          BY <3>1, <4>1, <4>3
        <5>2. ~RepeatedTail(SubSeq(out, 1, k))
          BY <1>3, <5>1 DEF GuardOK
        <5> QED
          BY <4>1, <5>2
      <4> QED
        BY <4>2, <4>3
    <3> QED
      BY <3>1, <3>2, <3>3 DEF GuardOK, RepeatedTail, CyclesWith
  <2>3. ASSUME UNCHANGED out,
               \/ UNCHANGED why /\ at \in {"top", "choose"} /\ at' # "idle"
               \/ UNCHANGED why /\ at' \notin {"top", "choose"} /\ (at' = "idle" \/ at # "idle")
               \/ UNCHANGED <<at, why>>
               \/ at # "idle" /\ at' = "idle" /\ why' # "repetition"
               \/ Guard
        PROVE  GuardOK'
    <3>1. RepeatedTail(out)' = RepeatedTail(out)
      BY <2>3 DEF RepeatedTail, CyclesWith
    <3>2. (\A k \in 0 .. Len(out) - 1 : ~RepeatedTail(SubSeq(out, 1, k)))'
      BY <1>3, <2>3 DEF GuardOK, RepeatedTail, CyclesWith
    <3> QED
      BY <1>3, <2>3, <3>1, <3>2 DEF GuardOK, Guard, Stops
  <2> QED
    BY <1>3, <2>1, <2>2, <2>3 DEF Next, Cancel, Top, Stops, Sink, ClientGone, Guard, vars, turnVars
<1>4. TypeOK /\ GuardOK => StopsAtFirstLoop
  <2> SUFFICES ASSUME TypeOK, GuardOK PROVE StopsAtFirstLoop
    OBVIOUS
  <2>1. out \in Seq(Tokens) /\ \A k \in 0 .. Len(out) - 1 : SubSeq(out, 1, k) \in Seq(Tokens)
    BY DEF TypeOK
  <2> QED
    BY <2>1, TailIsLoop DEF GuardOK, StopsAtFirstLoop
<1> QED
  BY <1>2, <1>3, <1>4, TypeCorrect, PTL DEF Spec
=============================================================================
