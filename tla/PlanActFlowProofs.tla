--------------------------- MODULE PlanActFlowProofs ---------------------------
(***************************************************************************)
(* Proofs about PlanActFlow, for any number of messages, steps, calls and    *)
(* iterations: its properties follow from the inductive invariant IInv,      *)
(* whose parts say where a run may be in each state of the flow, how the      *)
(* flow's plan stands to the stored one, what the reported steps are in        *)
(* either, and which calls of the conversation are open.                      *)
(***************************************************************************)
EXTENDS PlanActFlow, Integers, FiniteSetTheorems, WellFoundedInduction, TLAPS

-----------------------------------------------------------------------------
(* The operators the flow is built from *)

\* A set of natural numbers has a least one: of the intervals 1 .. x that end in
\* the set, none is a proper part of the least.
LEMMA Least ==
  ASSUME NEW T, T \subseteq Nat, T # {}
  PROVE  \E x \in T : \A y \in T : x <= y
<1> DEFINE R == StrictSubsetOrdering(Nat)
           S == FiniteSubsetsOf(Nat)
           I == {1 .. x : x \in T}
<1>1. IsWellFoundedOn(R, S)
  BY FS_StrictSubsetOrderingWellFounded
<1>2. I \subseteq S /\ I # {}
  <2> SUFFICES ASSUME NEW x \in T PROVE 1 .. x \in S
    OBVIOUS
  <2> QED BY FS_Interval DEF FiniteSubsetsOf
<1>3. PICK X \in I : \A Y \in I : <<Y, X>> \notin R
  <2> HIDE DEF R, S, I
  <2> QED BY <1>1, <1>2, WFMin
<1>4. PICK x \in T : X = 1 .. x
  OBVIOUS
<1>5. ASSUME NEW y \in T, y < x PROVE FALSE
  <2>1. 1 .. y \subseteq 1 .. x /\ x \in 1 .. x /\ x \notin 1 .. y
    BY <1>5
  <2>2. <<1 .. y, 1 .. x>> \in R
    BY <2>1 DEF StrictSubsetOrdering
  <2> QED BY <2>2, <1>3, <1>4
<1> QED BY <1>5

\* get_next_step finds a step as long as one is not done.
LEMMA NextExists ==
  ASSUME NEW p \in Seq(PlanStep), HasNext(p)
  PROVE  \E i \in 1 .. Len(p) : IsNext(p, i)
<1> DEFINE T == {i \in 1 .. Len(p) : ~p[i].done}
<1>1. T \subseteq Nat /\ T # {}
  BY DEF HasNext
<1>2. PICK i \in T : \A j \in T : i <= j
  <2> HIDE DEF T
  <2> QED BY <1>1, Least
<1> QED BY <1>2 DEF IsNext

\* The calls of an answer are a sequence of at most MaxCalls.
LEMMA CallsAreSeq ==
  ASSUME NEW c \in Calls
  PROVE  /\ c \in Seq(Tool)
         /\ Len(c) \in 0 .. MaxCalls
         /\ DOMAIN c = 1 .. Len(c)
         /\ \A i \in 1 .. Len(c) : c[i] \in Tool
<1>1. PICK n \in 0 .. MaxCalls : c \in [1 .. n -> Tool]
  BY DEF Calls
<1> QED BY <1>1, FlowAssumption

\* An answer may have no calls.
LEMMA NoCalls == <<>> \in Calls
<1>1. <<>> \in [1 .. 0 -> Tool]
  OBVIOUS
<1> QED BY <1>1, FlowAssumption DEF Calls

\* The calls left unanswered are pairs of calls.
LEMMA UnansweredType ==
  ASSUME NEW m \in Memory
  PROVE  Unanswered(m) \subseteq Tool \X Tool
<1>1. m.calls \in Calls
  BY DEF Memory
<1> QED BY <1>1, CallsAreSeq DEF Unanswered

\* What the agent does to its memory gives a memory.
LEMMA MemoryOps ==
  ASSUME NEW m \in Memory, NEW calls \in Calls, NEW S \in SUBSET (1 .. MaxCalls)
  PROVE  AddHuman(m) \in Memory /\ AddAI(m, calls) \in Memory /\ AddResults(m, S) \in Memory
<1>1. m.lost \cup Unanswered(m) \subseteq Tool \X Tool
  BY UnansweredType DEF Memory
<1>2. AddHuman(m) \in Memory
  BY <1>1, NoCalls DEF AddHuman, Memory
<1>3. AddAI(m, calls) \in Memory
  BY <1>1 DEF AddAI, Memory
<1>4. AddResults(m, S) \in Memory
  BY DEF AddResults, Memory
<1> QED BY <1>2, <1>3, <1>4

\* A memory that is rolled back is a memory.
LEMMA RollBackType ==
  ASSUME NEW m \in Memory
  PROVE  RollBack(m) \in Memory
<1>1. m.calls # <<>> => 1 \in 1 .. MaxCalls
  BY CallsAreSeq, FlowAssumption DEF Memory
<1> QED BY <1>1, NoCalls DEF RollBack, AddResults, DropLast, Memory

\* The steps the planner invents.
LEMMA NewStepsType ==
  ASSUME TypeOK, NEW n \in 0 .. MaxSteps - made
  PROVE  /\ NewSteps(n) \in Seq(PlanStep) /\ Len(NewSteps(n)) = n
         /\ \A i \in 1 .. n : NewSteps(n)[i].id = made + i /\ ~NewSteps(n)[i].done
         /\ made + n \in made .. MaxSteps
  BY FlowAssumption DEF TypeOK, NewSteps, PlanStep, StepId

\* A revised plan: what was before the first open step, all of it done, and then
\* what is new.
RevisedPlan(i, n) == SubSeq(plan, 1, i - 1) \o NewSteps(n)

\* A revised plan keeps the steps before the one it revises and numbers the new ones on.
LEMMA RevisedType ==
  ASSUME TypeOK, NEW n \in 0 .. MaxSteps - made, NEW i \in 1 .. Len(plan), IsNext(plan, i)
  PROVE  /\ RevisedPlan(i, n) \in Seq(PlanStep)
         /\ Len(RevisedPlan(i, n)) = i - 1 + n
         /\ \A j \in 1 .. i - 1 : RevisedPlan(i, n)[j] = plan[j] /\ plan[j].done
         /\ \A j \in i .. i - 1 + n : /\ RevisedPlan(i, n)[j].id = made + (j - i + 1)
                                      /\ ~RevisedPlan(i, n)[j].done
<1>1. /\ plan \in Seq(PlanStep) /\ Len(plan) \in Nat
      /\ NewSteps(n) \in Seq(PlanStep) /\ Len(NewSteps(n)) = n
      /\ \A k \in 1 .. n : NewSteps(n)[k].id = made + k /\ ~NewSteps(n)[k].done
  BY NewStepsType DEF TypeOK
<1>2. /\ SubSeq(plan, 1, i - 1) \in Seq(PlanStep)
      /\ Len(SubSeq(plan, 1, i - 1)) = i - 1
      /\ \A j \in 1 .. i - 1 : SubSeq(plan, 1, i - 1)[j] = plan[j]
  BY <1>1
<1>3. RevisedPlan(i, n) \in Seq(PlanStep) /\ Len(RevisedPlan(i, n)) = i - 1 + n
  BY <1>1, <1>2 DEF RevisedPlan
<1>4. ASSUME NEW j \in 1 .. i - 1
      PROVE  RevisedPlan(i, n)[j] = plan[j] /\ plan[j].done
  BY <1>1, <1>2 DEF RevisedPlan, IsNext
<1>5. ASSUME NEW j \in i .. i - 1 + n
      PROVE  RevisedPlan(i, n)[j].id = made + (j - i + 1) /\ ~RevisedPlan(i, n)[j].done
  <2>1. j - (i - 1) \in 1 .. n /\ j > i - 1 /\ j <= (i - 1) + n
    BY <1>1, FlowAssumption DEF TypeOK
  <2>2. RevisedPlan(i, n)[j] = NewSteps(n)[j - (i - 1)]
    BY <1>1, <1>2, <2>1 DEF RevisedPlan
  <2>3. j - (i - 1) = j - i + 1
    BY <1>1, <2>1
  <2> QED BY <1>1, <2>1, <2>2, <2>3
<1> QED BY <1>3, <1>4, <1>5

\* update_plan leaves a plan that is complete as it is, and revises any other.
LEMMA ReviseCases ==
  ASSUME TypeOK, Revise
  PROVE  \E n \in 0 .. MaxSteps - made :
           /\ made' = made + n
           /\ \/ ~HasNext(plan) /\ plan' = plan
              \/ \E i \in 1 .. Len(plan) : IsNext(plan, i) /\ plan' = RevisedPlan(i, n)
<1>1. PICK n \in 0 .. MaxSteps - made :
         /\ plan' = IF HasNext(plan)
                    THEN SubSeq(plan, 1, (CHOOSE i \in 1 .. Len(plan) : IsNext(plan,
                      i)) - 1)
                            \o NewSteps(n)
                    ELSE plan
         /\ made' = made + n
  BY DEF Revise
<1>2. CASE HasNext(plan)
  <2> DEFINE i == CHOOSE j \in 1 .. Len(plan) : IsNext(plan, j)
  <2>1. i \in 1 .. Len(plan) /\ IsNext(plan, i)
    BY <1>2, NextExists DEF TypeOK
  <2>2. plan' = RevisedPlan(i, n)
    BY <1>1, <1>2 DEF RevisedPlan
  <2> QED BY <1>1, <2>1, <2>2
<1>3. CASE ~HasNext(plan)
  BY <1>1, <1>3
<1> QED BY <1>2, <1>3

\* execute_step marks the step at work and changes nothing else.
LEMMA FinishCases ==
  ASSUME TypeOK, FinishStep
  PROVE  /\ plan' \in Seq(PlanStep) /\ Len(plan') = Len(plan)
         /\ \A i \in 1 .. Len(plan) : /\ plan'[i].id = plan[i].id
                                      /\ (plan'[i].done <=> plan[i].done
                                           \/ plan[i].id = step)
<1>1. plan \in Seq(PlanStep) /\ DOMAIN plan = 1 .. Len(plan) /\ Len(plan) \in Nat
  BY DEF TypeOK
<1>2. plan' = [i \in 1 .. Len(plan) |->
                 IF plan[i].id = step THEN [plan[i] EXCEPT !.done = TRUE] ELSE plan[i]]
  BY <1>1 DEF FinishStep
<1>3. ASSUME NEW i \in 1 .. Len(plan)
      PROVE  /\ plan'[i] \in PlanStep
             /\ plan'[i].id = plan[i].id
             /\ plan'[i].done <=> plan[i].done \/ plan[i].id = step
  <2>1. plan[i] \in PlanStep
    BY <1>1
  <2>2. plan'[i] = IF plan[i].id = step THEN [plan[i] EXCEPT !.done = TRUE] ELSE plan[i]
    BY <1>2
  <2> QED BY <2>1, <2>2 DEF PlanStep
<1>4. plan' \in [1 .. Len(plan) -> PlanStep]
  BY <1>2, <1>3
<1>5. plan' \in Seq(PlanStep) /\ Len(plan') = Len(plan)
  BY <1>1, <1>4
<1> QED BY <1>3, <1>5

\* The steps of a new or revised plan are among those invented so far.
LEMMA InventedSteps ==
  ASSUME TypeOK, NEW n \in 0 .. MaxSteps - made
  PROVE  /\ \A i \in 1 .. Len(NewSteps(n)) : NewSteps(n)[i].id \in 1 .. made + n
         /\ \A i \in 1 .. Len(plan) :
              IsNext(plan, i) /\ (\A j \in 1 .. Len(plan) : plan[j].id \in 1 .. made) =>
                \A j \in 1 .. Len(RevisedPlan(i, n)) : RevisedPlan(i,
                  n)[j].id \in 1 .. made + n
<1>1. made \in Nat /\ n \in Nat
  BY FlowAssumption DEF TypeOK
<1>2. ASSUME NEW i \in 1 .. n
      PROVE  NewSteps(n)[i].id \in 1 .. made + n
  <2>1. NewSteps(n)[i].id = made + i
    BY NewStepsType
  <2> QED BY <1>1, <2>1
<1>3. ASSUME NEW i \in 1 .. Len(plan), IsNext(plan, i),
             \A j \in 1 .. Len(plan) : plan[j].id \in 1 .. made,
             NEW j \in 1 .. i - 1 + n
      PROVE  RevisedPlan(i, n)[j].id \in 1 .. made + n
  <2>1. Len(plan) \in Nat
    BY DEF TypeOK
  <2>2. CASE j \in 1 .. i - 1
    <3>1. RevisedPlan(i, n)[j] = plan[j] /\ plan[j].id \in 1 .. made
      BY <1>3, <2>1, <2>2, RevisedType
    <3> QED BY <1>1, <3>1
  <2>3. CASE j \in i .. i - 1 + n
    <3>1. RevisedPlan(i, n)[j].id = made + (j - i + 1)
      BY <1>3, <2>3, RevisedType
    <3> QED BY <1>1, <2>1, <2>3, <3>1
  <2> QED BY <1>1, <2>1, <2>2, <2>3
<1>4. \A i \in 1 .. Len(plan) : IsNext(plan, i) => Len(RevisedPlan(i, n)) = i - 1 + n
  BY RevisedType
<1>5. Len(NewSteps(n)) = n
  BY NewStepsType
<1> QED BY <1>2, <1>3, <1>4, <1>5

-----------------------------------------------------------------------------
(* The inductive invariant *)

Agents  == {"planning", "executing", "updating", "summarizing"}
Working == {"request", "model", "calls", "invoke", "finish"}

\* Where the run may be in each state of the flow.
Places ==
    /\ pc # "off" => flow # "gone"
    /\ pc \notin {"off", "start", "enter"} => session = "running"
    /\ pc = "request" => flow = "executing"
    /\ pc = "titled" => flow = "planning"
    /\ pc \in {"model", "calls", "finish", "advance"} => flow \in Agents
    /\ pc = "invoke" => flow \in {"executing", "summarizing"}
    /\ pc = "done" => flow = "completed"
    /\ pc = "enter" => step = NoStep
    /\ idx # 0

\* A plan has steps the planner invented.
RealSteps(p) == p = NoPlan \/ \A i \in 1 .. Len(p) : p[i].id \in 1 .. made

\* The step at work is the first open one of the plan, and the stored plan is the
\* flow's wherever a run may be given up to be resumed.
Plans ==
    /\ RealSteps(plan) /\ RealSteps(stored)
    /\ told \subseteq 1 .. made
    /\ flow = "executing" /\ pc \in Working \cup {"loop"} => plan = stored
    /\ flow \in {"planning", "updating"} /\ pc = "advance" => plan = stored
    /\ flow = "executing" /\ pc \in Working =>
         /\ step \in StepId
         /\ \E i \in 1 .. Len(plan) : IsNext(plan, i) /\ plan[i].id = step

\* No step that was told as completed is open in a plan.
Consistent(p) == \A i \in 1 .. Len(p) : p[i].id \in told => p[i].done

\* The plans of which the next step may still be taken are consistent.
Kept ==
    /\ session = "waiting" => Consistent(stored)
    /\ pc = "start" /\ session # "running" /\ flow = "executing" => Consistent(stored)
    /\ pc = "enter" /\ flow = "executing" => Consistent(stored)
    /\ flow = "executing" /\ pc \in Working \cup {"loop", "advance"} => Consistent(plan)
    /\ flow = "updating" /\ pc = "loop" => step = NoStep \/ Consistent(plan)
    /\ flow = "updating" /\ pc \in {"model", "calls", "finish", "advance"}
         => Consistent(plan)
    /\ flow = "planning" /\ pc \in {"titled", "advance"} => Consistent(plan)

\* A session waits where nothing moves the plan on.
Waits ==
    /\ session = "waiting" => pc \in {"off", "start", "enter"}
    /\ ResumesAsker

\* A flow that has come to its summary has no open step, in the stored plan either.
Summed ==
    /\ flow \in {"summarizing", "completed"} => ~HasNext(stored)
    /\ SummaryIsLast

\* Every call of the last answer has a result, but for those CallsAnswered excuses.
Excused(m) ==
    \A i \in DOMAIN m.calls \ m.answered : m.calls[i] = "unknown" \/ m.calls[1] = "ask"

\* The places from which the model may be asked again, or the run ended, with the
\* memory as it is.
Settled ==
    \/ pc \in {"enter", "loop", "request", "model", "titled", "finish", "advance", "done"}
    \/ pc = "calls" /\ flow \in {"planning", "updating"}

\* The calls before the one at hand have their results at hand, unless unknown.
InHand ==
    /\ memory.last = "ai"
    /\ idx \in 1 .. Len(memory.calls) + 1
    /\ got = {j \in 1 .. idx - 1 : memory.calls[j] # "unknown"}

Conversation ==
    /\ memory.last \in {"none", "human"} \/ session = "pending" => memory.calls = <<>>
    /\ memory.last # "ai" => Excused(memory)
    /\ Settled => exhausted \/ Excused(memory)
    /\ pc \in {"calls", "invoke"} /\ flow \in {"executing", "summarizing"} => InHand
    /\ pc = "invoke" => idx <= Len(memory.calls) /\ memory.calls[idx] # "unknown"
    /\ CallsAnswered

\* A question that stands alone is open or answered while the session waits.
Question ==
    session = "waiting" /\ memory.calls = <<"ask">> =>
        memory.last = "ai" \/ (memory.last = "tool" /\ memory.answered = {1})

IInv == TypeOK /\ Places /\ Plans /\ Kept /\ Waits /\ Summed /\ Conversation /\ Question

\* The calls an excused message leaves open are those CallsAnswered excuses.
LEMMA ExcusedCalls ==
  ASSUME NEW m \in Memory, Excused(m)
  PROVE  \A c \in Unanswered(m) : c[1] = "unknown" \/ c[2] = "ask"
  BY DEF Excused, Unanswered

\* A message without calls leaves nothing unanswered.
LEMMA NoCallsExcused ==
  ASSUME NEW m, m.calls = <<>>
  PROVE  Excused(m)
  BY DEF Excused

\* A request to the model, its answer and the results of its calls, as the memory has
\* them.
LEMMA HumanMemory ==
  ASSUME NEW m \in Memory
  PROVE  /\ AddHuman(m).last = "human" /\ AddHuman(m).calls = <<>>
         /\ AddHuman(m).lost = m.lost \cup Unanswered(m)
  BY DEF AddHuman

\* An answer of the model is the last message, and what was open before it is lost.
LEMMA AnswerMemory ==
  ASSUME NEW m \in Memory, NEW calls
  PROVE  /\ AddAI(m, calls).last = "ai" /\ AddAI(m, calls).calls = calls
         /\ AddAI(m, calls).lost = m.lost \cup Unanswered(m)
  BY DEF AddAI

\* Results are recorded beside the calls, or nothing is if there are none.
LEMMA ResultsMemory ==
  ASSUME NEW m \in Memory, NEW S
  PROVE  /\ AddResults(m, S).calls = m.calls /\ AddResults(m, S).lost = m.lost
         /\ S # {} => AddResults(m, S).last = "tool" /\ AddResults(m, S).answered = S
         /\ S = {} => AddResults(m, S) = m
  BY DEF AddResults, Memory

\* Rolled back, a memory has no call left open but those of a question.
LEMMA RollBackMemory ==
  ASSUME NEW m \in Memory, m.last # "ai" => Excused(m),
         m.last \in {"none", "human"} => m.calls = <<>>
  PROVE  /\ RollBack(m).lost = m.lost
         /\ Excused(RollBack(m))
         /\ RollBack(m).last \in {"none", "human"} => RollBack(m).calls = <<>>
<1>1. CASE m.last # "ai" \/ m.calls = <<>>
  BY <1>1, NoCallsExcused DEF RollBack
<1>2. CASE m.last = "ai" /\ m.calls # <<>> /\ m.calls[1] = "ask"
  <2>1. RollBack(m) = AddResults(m, {1})
    BY <1>2 DEF RollBack
  <2> QED BY <1>2, <2>1, ResultsMemory DEF Excused
<1>3. CASE m.last = "ai" /\ m.calls # <<>> /\ m.calls[1] # "ask"
  <2>1. RollBack(m) = DropLast(m)
    BY <1>3 DEF RollBack
  <2>2. DropLast(m).lost = m.lost /\ DropLast(m).calls = <<>>
    BY DEF DropLast, Memory
  <2> QED BY <2>1, <2>2, NoCallsExcused
<1> QED BY <1>1, <1>2, <1>3

\* Rolled back, a question that was asked alone has its answer.
LEMMA RollBackQuestion ==
  ASSUME NEW m \in Memory,
         m.calls = <<"ask">> => m.last = "ai" \/ (m.last = "tool" /\ m.answered = {1})
  PROVE  /\ RollBack(m).calls = <<"ask">> =>
              RollBack(m).last = "tool" /\ RollBack(m).answered = {1}
         /\ m.calls = <<"ask">> => RollBack(m).calls = <<"ask">>
<1>1. CASE m.last # "ai" \/ m.calls = <<>>
  <2>1. RollBack(m) = m
    BY <1>1 DEF RollBack
  <2>2. m.calls = <<>> => m.calls # <<"ask">>
    BY Len(<<>>) = 0, Len(<<"ask">>) = 1
  <2> QED BY <1>1, <2>1, <2>2
<1>2. CASE m.last = "ai" /\ m.calls # <<>> /\ m.calls[1] = "ask"
  <2>1. RollBack(m) = AddResults(m, {1})
    BY <1>2 DEF RollBack
  <2> QED BY <2>1, ResultsMemory
<1>3. CASE m.last = "ai" /\ m.calls # <<>> /\ m.calls[1] # "ask"
  <2>1. RollBack(m) = DropLast(m)
    BY <1>3 DEF RollBack
  <2>2. DropLast(m).calls = <<>>
    BY DEF DropLast, Memory
  <2> QED BY <1>3, <2>1, <2>2
<1> QED BY <1>1, <1>2, <1>3

-----------------------------------------------------------------------------
(* Every step keeps it *)

\* A step of the flow leaves the run where its state may be.
LEMMA PlacesStep ==
  ASSUME TypeOK, Places, [Next]_vars
  PROVE  Places'
<1> USE DEF TypeOK, Places, Agents, Await, Agent, FlowStatus, Broken, NoStep, Goto, Yield,
  Ask, NewLoop, loopVars, history, InLoop
<1>1. CASE Start BY <1>1 DEF Start
<1>2. CASE Enter BY <1>2 DEF Enter
<1>3. CASE BeginPlan BY <1>3 DEF BeginPlan
<1>4. CASE StartStep BY <1>4 DEF StartStep
<1>5. CASE RequestStep BY <1>5 DEF RequestStep
<1>6. CASE BeginUpdate BY <1>6 DEF BeginUpdate
<1>7. CASE BeginSummary BY <1>7 DEF BeginSummary
<1>8. CASE Complete BY <1>8 DEF Complete
<1>9. CASE Done BY <1>9 DEF Done
<1>10. CASE Respond BY <1>10 DEF Respond
<1>11. CASE Conclude BY <1>11 DEF Conclude
<1>12. CASE Exhaust BY <1>12 DEF Exhaust
<1>13. CASE Unknown BY <1>13 DEF Unknown
<1>14. CASE Call
  <2>1. Pending # <<>> BY <1>14 DEF Call
  <2>2. flow \in {"executing", "summarizing"} BY <2>1, <1>14 DEF Call, Pending, Agent
  <2> QED BY <2>2, <1>14 DEF Call
<1>15. CASE Invoke BY <1>15 DEF Invoke
<1>16. CASE Wait BY <1>16 DEF Wait
<1>17. CASE SendResults BY <1>17 DEF SendResults
<1>18. CASE TakePlan BY <1>18 DEF TakePlan
<1>19. CASE StorePlan BY <1>19 DEF StorePlan
<1>20. CASE FinishStep BY <1>20 DEF FinishStep
<1>21. CASE Revise BY <1>21 DEF Revise
<1>22. CASE FinishSummary BY <1>22 DEF FinishSummary
<1>23. CASE Advance BY <1>23 DEF Advance
<1>24. CASE NewTask BY <1>24 DEF NewTask
<1>25. CASE Rerun BY <1>25 DEF Rerun
<1>26. CASE Message BY <1>26 DEF Message
<1>27. CASE Abort BY <1>27 DEF Abort
<1>28. CASE Stop BY <1>28 DEF Stop
<1>29. CASE Crash BY <1>29 DEF Crash
<1>30. CASE UNCHANGED vars BY <1>30 DEF vars, sessionVars
<1> QED BY <1>1, <1>2, <1>3, <1>4, <1>5, <1>6, <1>7, <1>8, <1>9, <1>10, <1>11, <1>12,
          <1>13, <1>14, <1>15, <1>16, <1>17, <1>18, <1>19, <1>20, <1>21, <1>22, <1>23,
          <1>24, <1>25, <1>26, <1>27, <1>28, <1>29, <1>30 DEF Next, FlowStep

\* A step leaves a waiting session with the step that asked first in its stored plan.
LEMMA WaitsStep ==
  ASSUME TypeOK, Places, Plans, Waits, [Next]_vars
  PROVE  Waits'
<1> USE DEF TypeOK, Places, Plans, Waits, ResumesAsker, Working, Await, Goto, Yield, Ask,
  NewLoop, loopVars, history, InLoop
<1>1. CASE Start BY <1>1 DEF Start
<1>2. CASE Enter BY <1>2 DEF Enter
<1>3. CASE BeginPlan BY <1>3 DEF BeginPlan
<1>4. CASE StartStep BY <1>4 DEF StartStep
<1>5. CASE RequestStep BY <1>5 DEF RequestStep
<1>6. CASE BeginUpdate BY <1>6 DEF BeginUpdate
<1>7. CASE BeginSummary BY <1>7 DEF BeginSummary
<1>8. CASE Complete BY <1>8 DEF Complete
<1>9. CASE Done BY <1>9 DEF Done
<1>10. CASE Respond BY <1>10 DEF Respond
<1>11. CASE Conclude BY <1>11 DEF Conclude
<1>12. CASE Exhaust BY <1>12 DEF Exhaust
<1>13. CASE Unknown BY <1>13 DEF Unknown
<1>14. CASE Call BY <1>14 DEF Call
<1>15. CASE Invoke BY <1>15 DEF Invoke
<1>16. CASE Wait BY <1>16 DEF Wait
<1>17. CASE SendResults BY <1>17 DEF SendResults
<1>18. CASE TakePlan BY <1>18 DEF TakePlan
<1>19. CASE StorePlan BY <1>19 DEF StorePlan
<1>20. CASE FinishStep BY <1>20 DEF FinishStep
<1>21. CASE Revise BY <1>21 DEF Revise
<1>22. CASE FinishSummary BY <1>22 DEF FinishSummary
<1>23. CASE Advance BY <1>23 DEF Advance
<1>24. CASE NewTask BY <1>24 DEF NewTask
<1>25. CASE Rerun BY <1>25 DEF Rerun
<1>26. CASE Message BY <1>26 DEF Message
<1>27. CASE Abort BY <1>27 DEF Abort
<1>28. CASE Stop BY <1>28 DEF Stop
<1>29. CASE Crash BY <1>29 DEF Crash
<1>30. CASE UNCHANGED vars BY <1>30 DEF vars, sessionVars
<1> QED BY <1>1, <1>2, <1>3, <1>4, <1>5, <1>6, <1>7, <1>8, <1>9, <1>10, <1>11, <1>12,
          <1>13, <1>14, <1>15, <1>16, <1>17, <1>18, <1>19, <1>20, <1>21, <1>22, <1>23,
          <1>24, <1>25, <1>26, <1>27, <1>28, <1>29, <1>30 DEF Next, FlowStep

\* A step brings the flow to its summary only with a plan that is done.
LEMMA SummedStep ==
  ASSUME TypeOK, Places, Plans, Summed, [Next]_vars
  PROVE  Summed'
<1> USE DEF TypeOK, Places, Plans, Summed, SummaryIsLast, Await, Working, Agents, Goto,
  Yield, Ask, NewLoop, loopVars, history, InLoop
<1>1. CASE Start BY <1>1 DEF Start
<1>2. CASE Enter BY <1>2 DEF Enter
<1>3. CASE BeginPlan BY <1>3 DEF BeginPlan
<1>4. CASE StartStep BY <1>4 DEF StartStep
<1>5. CASE RequestStep BY <1>5 DEF RequestStep
<1>6. CASE BeginUpdate BY <1>6 DEF BeginUpdate
<1>7. CASE BeginSummary BY <1>7 DEF BeginSummary
<1>8. CASE Complete BY <1>8 DEF Complete
<1>9. CASE Done BY <1>9 DEF Done
<1>10. CASE Respond BY <1>10 DEF Respond
<1>11. CASE Conclude BY <1>11 DEF Conclude
<1>12. CASE Exhaust BY <1>12 DEF Exhaust
<1>13. CASE Unknown BY <1>13 DEF Unknown
<1>14. CASE Call BY <1>14 DEF Call
<1>15. CASE Invoke BY <1>15 DEF Invoke
<1>16. CASE Wait BY <1>16 DEF Wait
<1>17. CASE SendResults BY <1>17 DEF SendResults
<1>18. CASE TakePlan BY <1>18 DEF TakePlan
<1>19. CASE StorePlan BY <1>19 DEF StorePlan
<1>20. CASE FinishStep BY <1>20 DEF FinishStep
<1>21. CASE Revise BY <1>21, SMTT(30) DEF Revise
<1>22. CASE FinishSummary BY <1>22 DEF FinishSummary
<1>23. CASE Advance
  <2>1. CASE flow = "planning" /\ plan = <<>>
    <3>1. ~HasNext(plan) BY <2>1 DEF HasNext
    <3> QED BY <2>1, <3>1, <1>23 DEF Advance
  <2>2. CASE ~(flow = "planning" /\ plan = <<>>) BY <2>2, <1>23 DEF Advance
  <2> QED BY <2>1, <2>2
<1>24. CASE NewTask BY <1>24 DEF NewTask
<1>25. CASE Rerun BY <1>25 DEF Rerun
<1>26. CASE Message BY <1>26 DEF Message
<1>27. CASE Abort BY <1>27 DEF Abort
<1>28. CASE Stop BY <1>28 DEF Stop
<1>29. CASE Crash BY <1>29 DEF Crash
<1>30. CASE UNCHANGED vars BY <1>30 DEF vars, sessionVars
<1> QED BY <1>1, <1>2, <1>3, <1>4, <1>5, <1>6, <1>7, <1>8, <1>9, <1>10, <1>11, <1>12,
          <1>13, <1>14, <1>15, <1>16, <1>17, <1>18, <1>19, <1>20, <1>21, <1>22, <1>23,
          <1>24, <1>25, <1>26, <1>27, <1>28, <1>29, <1>30 DEF Next, FlowStep

\* A step keeps the types.
LEMMA TypeStep ==
  ASSUME IInv, [Next]_vars
  PROVE  TypeOK'
<1> USE FlowAssumption DEF IInv, TypeOK, Await, FlowStatus, Goto, Yield, Ask, NewLoop,
  loopVars, history, InLoop
<1>1. CASE Start BY <1>1, RollBackType DEF Start
<1>2. CASE Enter BY <1>2 DEF Enter
<1>3. CASE BeginPlan BY <1>3 DEF BeginPlan
<1>4. CASE StartStep
  <2>1. PICK i \in 1 .. Len(plan) : step' = plan[i].id
    BY <1>4 DEF StartStep
  <2>2. plan[i] \in PlanStep
    OBVIOUS
  <2>3. step' \in StepId \cup {NoStep}
    BY <2>1, <2>2 DEF PlanStep
  <2> QED BY <2>3, <1>4 DEF StartStep
<1>5. CASE RequestStep BY <1>5, MemoryOps, NoCalls DEF RequestStep
<1>6. CASE BeginUpdate BY <1>6 DEF BeginUpdate
<1>7. CASE BeginSummary BY <1>7, MemoryOps, NoCalls DEF BeginSummary
<1>8. CASE Complete BY <1>8 DEF Complete
<1>9. CASE Done BY <1>9 DEF Done
<1>10. CASE Respond
  <2>1. memory' \in Memory
    <3>1. <<>> \in Calls /\ {} \in SUBSET (1 .. MaxCalls) BY NoCalls
    <3> QED BY <3>1, <1>10, MemoryOps DEF Respond
  <2> QED BY <2>1, <1>10 DEF Respond
<1>11. CASE Conclude BY <1>11 DEF Conclude
<1>12. CASE Exhaust BY <1>12 DEF Exhaust
<1>13. CASE Unknown BY <1>13 DEF Unknown
<1>14. CASE Call BY <1>14 DEF Call
<1>15. CASE Invoke
  <2>1. idx \in 1 .. MaxCalls
    <3>1. memory.calls \in Calls BY DEF Memory
    <3>2. idx \in 1 .. Len(memory.calls) BY <1>15 DEF Invoke, Conversation, Places
    <3> QED BY <3>1, <3>2, CallsAreSeq
  <2> QED BY <2>1, <1>15 DEF Invoke
<1>16. CASE Wait BY <1>16 DEF Wait
<1>17. CASE SendResults
  <2>1. memory' \in Memory
    BY <1>17, MemoryOps, NoCalls DEF SendResults
  <2> QED BY <2>1, <1>17 DEF SendResults
<1>18. CASE TakePlan
  <2>1. PICK n \in 0 .. MaxSteps - made : plan' = NewSteps(n) /\ made' = made + n
    BY <1>18 DEF TakePlan
  <2>2. plan' \in Seq(PlanStep) /\ made' \in 0 .. MaxSteps
    BY <2>1, NewStepsType
  <2> QED BY <2>2, <1>18 DEF TakePlan
<1>19. CASE StorePlan BY <1>19 DEF StorePlan
<1>20. CASE FinishStep
  <2>1. plan' \in Seq(PlanStep)
    BY <1>20, FinishCases
  <2>2. step \in StepId
    BY <1>20 DEF FinishStep, Plans, Working
  <2> QED BY <2>1, <2>2, <1>20 DEF FinishStep
<1>21. CASE Revise
  <2>1. plan' \in Seq(PlanStep) /\ made' \in 0 .. MaxSteps
    <3>1. PICK n \in 0 .. MaxSteps - made :
            /\ made' = made + n
            /\ \/ ~HasNext(plan) /\ plan' = plan
               \/ \E i \in 1 .. Len(plan) : IsNext(plan, i) /\ plan' = RevisedPlan(i, n)
      BY <1>21, ReviseCases
    <3>2. plan' \in Seq(PlanStep)
      BY <3>1, RevisedType
    <3> QED BY <3>1, <3>2, NewStepsType
  <2> QED BY <2>1, <1>21 DEF Revise
<1>22. CASE FinishSummary BY <1>22 DEF FinishSummary
<1>23. CASE Advance BY <1>23 DEF Advance
<1>24. CASE NewTask BY <1>24 DEF NewTask
<1>25. CASE Rerun BY <1>25 DEF Rerun
<1>26. CASE Message BY <1>26 DEF Message
<1>27. CASE Abort BY <1>27 DEF Abort
<1>28. CASE Stop BY <1>28 DEF Stop
<1>29. CASE Crash BY <1>29 DEF Crash
<1>30. CASE UNCHANGED vars BY <1>30 DEF vars, sessionVars
<1> QED BY <1>1, <1>2, <1>3, <1>4, <1>5, <1>6, <1>7, <1>8, <1>9, <1>10, <1>11, <1>12,
          <1>13, <1>14, <1>15, <1>16, <1>17, <1>18, <1>19, <1>20, <1>21, <1>22, <1>23,
          <1>24, <1>25, <1>26, <1>27, <1>28, <1>29, <1>30 DEF Next, FlowStep

\* A step keeps plan and stored plan together wherever the run may be given up.
LEMMA PlansStep ==
  ASSUME TypeOK, TypeOK', Places, Plans, [Next]_vars
  PROVE  Plans'
<1> USE FlowAssumption DEF Working, Agents, RealSteps, Goto, Yield, Ask, NewLoop, loopVars,
  history, InLoop
<1>1. CASE Start BY <1>1 DEF Start, Plans
<1>2. CASE Enter BY <1>2 DEF Enter, Plans
<1>3. CASE BeginPlan BY <1>3 DEF BeginPlan, Plans
<1>4. CASE StartStep
  <2>1. PICK i \in 1 .. Len(plan) : IsNext(plan, i) /\ step' = plan[i].id
    BY <1>4 DEF StartStep
  <2>2. plan # NoPlan /\ plan' = plan /\ made' = made /\ flow = "executing" /\ pc = "loop"
    BY <1>4 DEF StartStep
  <2>3. step' \in StepId
    BY <2>1, <2>2 DEF Plans, TypeOK, StepId
  <2> QED BY <2>1, <2>2, <2>3, <1>4 DEF StartStep, Plans
<1>5. CASE RequestStep BY <1>5 DEF RequestStep, Plans
<1>6. CASE BeginUpdate BY <1>6 DEF BeginUpdate, Plans
<1>7. CASE BeginSummary BY <1>7 DEF BeginSummary, Plans
<1>8. CASE Complete BY <1>8 DEF Complete, Plans
<1>9. CASE Done BY <1>9 DEF Done, Plans
<1>10. CASE Respond BY <1>10 DEF Respond, Plans
<1>11. CASE Conclude BY <1>11 DEF Conclude, Plans
<1>12. CASE Exhaust BY <1>12 DEF Exhaust, Plans
<1>13. CASE Unknown BY <1>13 DEF Unknown, Plans
<1>14. CASE Call BY <1>14 DEF Call, Plans
<1>15. CASE Invoke BY <1>15 DEF Invoke, Plans
<1>16. CASE Wait BY <1>16 DEF Wait, Plans
<1>17. CASE SendResults BY <1>17 DEF SendResults, Plans
<1>18. CASE TakePlan
  <2>1. PICK n \in 0 .. MaxSteps - made : plan' = NewSteps(n) /\ made' = made + n
    BY <1>18 DEF TakePlan
  <2>2. \A i \in 1 .. Len(plan') : plan'[i].id \in 1 .. made'
    BY <2>1, InventedSteps
  <2>3. made \in Nat /\ made <= made'
    BY <2>1 DEF TypeOK
  <2> QED BY <2>2, <2>3, <1>18 DEF TakePlan, Plans, Places
<1>19. CASE StorePlan BY <1>19 DEF StorePlan, Plans
<1>20. CASE FinishStep
  <2>1. Len(plan') = Len(plan) /\ \A i \in 1 .. Len(plan) : plan'[i].id = plan[i].id
    BY <1>20, FinishCases
  <2>2. plan = stored /\ step \in StepId /\ \E i \in 1 .. Len(plan) : plan[i].id = step
    BY <1>20 DEF FinishStep, Plans
  <2>3. plan # NoPlan
    BY <2>2, FlowAssumption DEF StepId, NoPlan, NoStep
  <2>4. \A i \in 1 .. Len(plan) : plan[i].id \in 1 .. made
    BY <2>3 DEF Plans
  <2>5. told' \subseteq 1 .. made
    BY SMTT(40), <2>2, <2>4, <1>20 DEF FinishStep, Plans
  <2> QED BY <2>1, <2>4, <2>5, <1>20 DEF FinishStep, Plans
<1>21. CASE Revise
  <2>1. PICK n \in 0 .. MaxSteps - made :
          /\ made' = made + n
          /\ \/ ~HasNext(plan) /\ plan' = plan
             \/ \E i \in 1 .. Len(plan) : IsNext(plan, i) /\ plan' = RevisedPlan(i, n)
    BY <1>21, ReviseCases
  <2>2. /\ made \in Nat /\ made' \in Nat /\ made <= made'
        /\ flow = "updating" /\ stored' = plan'
    BY <2>1, <1>21 DEF TypeOK, Revise
  <2>3. RealSteps(plan)'
    <3>1. ASSUME NEW i \in 1 .. Len(plan), plan = NoPlan, IsNext(plan, i),
            plan' = RevisedPlan(i, n)
          PROVE  RealSteps(plan)'
      <4>1. i = 1 /\ n \in Nat
        BY <3>1, FlowAssumption DEF NoPlan, TypeOK
      <4>2. \A j \in 1 .. n : plan'[j].id = made + (j - 1 + 1)
        BY <3>1, <4>1, RevisedType
      <4>3. Len(plan') = n
        BY <3>1, <4>1, RevisedType
      <4> QED BY <2>1, <2>2, <4>1, <4>2, <4>3
    <3>2. CASE plan' = plan
      BY <2>2, <3>2 DEF Plans
    <3>3. ASSUME NEW i \in 1 .. Len(plan), plan # NoPlan, IsNext(plan, i),
            plan' = RevisedPlan(i, n)
          PROVE  RealSteps(plan)'
      BY <2>1, <3>3, InventedSteps DEF Plans
    <3> QED BY <2>1, <3>1, <3>2, <3>3
  <2>4. told' \subseteq 1 .. made'
    BY <2>2, <1>21 DEF Revise, Plans
  <2> QED BY <2>2, <2>3, <2>4, <1>21 DEF Revise, Plans
<1>22. CASE FinishSummary BY <1>22 DEF FinishSummary, Plans
<1>23. CASE Advance BY <1>23 DEF Advance, Plans
<1>24. CASE NewTask BY <1>24 DEF NewTask, Plans
<1>25. CASE Rerun BY <1>25 DEF Rerun, Plans
<1>26. CASE Message BY <1>26 DEF Message, Plans
<1>27. CASE Abort BY <1>27 DEF Abort, Plans
<1>28. CASE Stop BY <1>28 DEF Stop, Plans
<1>29. CASE Crash BY <1>29 DEF Crash, Plans
<1>30. CASE UNCHANGED vars BY <1>30 DEF vars, sessionVars, Plans
<1> QED BY <1>1, <1>2, <1>3, <1>4, <1>5, <1>6, <1>7, <1>8, <1>9, <1>10, <1>11, <1>12,
          <1>13, <1>14, <1>15, <1>16, <1>17, <1>18, <1>19, <1>20, <1>21, <1>22, <1>23,
          <1>24, <1>25, <1>26, <1>27, <1>28, <1>29, <1>30 DEF Next, FlowStep

\* A step keeps what was told as completed closed in the plans still to be worked on.
LEMMA KeptStep ==
  ASSUME IInv, Plans', [Next]_vars
  PROVE  Kept'
<1> USE DEF Working, Agents, Goto, Yield, Ask, NewLoop, loopVars, history, InLoop
<1>1. CASE Start BY <1>1 DEF Start, IInv, Kept, Consistent
<1>2. CASE Enter BY <1>2 DEF Enter, IInv, Kept, Places, Consistent
<1>3. CASE BeginPlan BY <1>3 DEF BeginPlan, IInv, Kept, Waits
<1>4. CASE StartStep
  <2>1. flow = "executing" /\ pc = "loop" /\ plan = stored
    BY <1>4 DEF StartStep, IInv, Plans
  <2> QED BY <2>1, <1>4 DEF StartStep, IInv, Kept, Consistent, Places
<1>5. CASE RequestStep BY <1>5 DEF RequestStep, IInv, Kept, Places, Consistent
<1>6. CASE BeginUpdate BY <1>6 DEF BeginUpdate, IInv, Kept, Consistent
<1>7. CASE BeginSummary BY <1>7 DEF BeginSummary, IInv, Kept, Waits
<1>8. CASE Complete BY <1>8 DEF Complete, IInv, Kept, Waits
<1>9. CASE Done BY <1>9 DEF Done, IInv, Kept, Waits
<1>10. CASE Respond BY <1>10 DEF Respond, IInv, Kept, Consistent
<1>11. CASE Conclude BY <1>11 DEF Conclude, IInv, Kept, Consistent
<1>12. CASE Exhaust BY <1>12 DEF Exhaust, IInv, Kept, Plans, Consistent
<1>13. CASE Unknown BY <1>13 DEF Unknown, IInv, Kept, Plans, Consistent
<1>14. CASE Call BY <1>14 DEF Call, IInv, Kept, Plans, Consistent
<1>15. CASE Invoke BY <1>15 DEF Invoke, IInv, Kept, Places, Consistent
<1>16. CASE Wait
  <2>1. Consistent(stored)
    BY <1>16 DEF Wait, IInv, Kept, Plans
  <2> QED BY <2>1, <1>16 DEF Wait, IInv, Kept, Consistent, Places
<1>17. CASE SendResults BY <1>17 DEF SendResults, IInv, Kept, Consistent
<1>18. CASE TakePlan
  <2>1. PICK n \in 0 .. MaxSteps - made : plan' = NewSteps(n) /\ made' = made + n
    BY <1>18 DEF TakePlan
  <2>2. \A i \in 1 .. Len(plan') : plan'[i].id \notin 1 .. made
    <3>1. made \in Nat /\ n \in Nat
      BY FlowAssumption DEF IInv, TypeOK
    <3> QED BY <2>1, <3>1, NewStepsType DEF IInv
  <2>3. Consistent(plan)'
    BY <2>2, <1>18 DEF Consistent, TakePlan, IInv, Plans
  <2> QED BY <2>3, <1>18 DEF TakePlan, IInv, Kept, Consistent, Places
<1>19. CASE StorePlan BY <1>19 DEF StorePlan, IInv, Kept, Places, Consistent
<1>20. CASE FinishStep
  <2>1. Consistent(plan)
    BY <1>20 DEF FinishStep, IInv, Kept
  <2>2. /\ Len(plan') = Len(plan)
        /\ \A i \in 1 .. Len(plan) : /\ plan'[i].id = plan[i].id
                                     /\ plan'[i].done <=> plan[i].done \/ plan[i].id = step
    BY <1>20, FinishCases DEF IInv
  <2>3. Consistent(plan)'
    BY <2>1, <2>2, <1>20 DEF Consistent, FinishStep
  <2> QED BY <2>3, <1>20 DEF FinishStep, IInv, Kept, Places
<1>21. CASE Revise
  <2>1. PICK n \in 0 .. MaxSteps - made :
          /\ made' = made + n
          /\ \/ ~HasNext(plan) /\ plan' = plan
             \/ \E i \in 1 .. Len(plan) : IsNext(plan, i) /\ plan' = RevisedPlan(i, n)
    BY <1>21, ReviseCases DEF IInv
  <2>2. Consistent(plan) /\ told' = told /\ told \subseteq 1 .. made
    BY <1>21 DEF Revise, IInv, Kept, Plans
  <2>3. ASSUME NEW i \in 1 .. Len(plan), IsNext(plan, i), plan' = RevisedPlan(i, n),
               NEW j \in 1 .. Len(plan'), plan'[j].id \in told
        PROVE  plan'[j].done
    <3>1. Len(plan) \in Nat /\ made \in Nat /\ n \in Nat
      BY FlowAssumption DEF IInv, TypeOK
    <3>2. /\ Len(RevisedPlan(i, n)) = i - 1 + n
          /\ \A k \in 1 .. i - 1 : RevisedPlan(i, n)[k] = plan[k] /\ plan[k].done
          /\ \A k \in i .. i - 1 + n : RevisedPlan(i, n)[k].id = made + (k - i + 1)
      <4>1. TypeOK /\ IsNext(plan, i)
        BY <2>3 DEF IInv
      <4> QED BY <4>1, RevisedType
    <3>3. CASE j \in 1 .. i - 1
      <4>1. RevisedPlan(i, n)[j] = plan[j] /\ plan[j].done
        BY <3>2, <3>3
      <4>2. plan'[j] = RevisedPlan(i, n)[j]
        BY <2>3
      <4> QED BY <4>1, <4>2
    <3>4. CASE j \in i .. i - 1 + n
      <4>1. plan'[j].id = made + (j - i + 1)
        BY <2>3, <3>2, <3>4
      <4> QED BY <2>2, <2>3, <3>1, <3>2, <3>4, <4>1
    <3>5. Len(plan') = i - 1 + n
      BY <2>3, <3>2
    <3> QED BY <3>1, <3>3, <3>4, <3>5
  <2>4. Consistent(plan)'
    BY <2>1, <2>2, <2>3 DEF Consistent
  <2> QED BY <2>4, <1>21 DEF Revise, IInv, Kept, Places
<1>22. CASE FinishSummary BY <1>22 DEF FinishSummary, IInv, Kept, Waits
<1>23. CASE Advance BY <1>23 DEF Advance, IInv, Kept, Consistent
<1>24. CASE NewTask BY <1>24 DEF NewTask, IInv, Kept, Consistent
<1>25. CASE Rerun BY <1>25 DEF Rerun, Kept, Consistent
<1>26. CASE Message BY <1>26 DEF Message, IInv, Kept, Consistent
<1>27. CASE Abort BY <1>27 DEF Abort, Kept
<1>28. CASE Stop BY <1>28 DEF Stop, Kept
<1>29. CASE Crash BY <1>29 DEF Crash, IInv, Kept, Consistent
<1>30. CASE UNCHANGED vars BY <1>30 DEF vars, sessionVars, IInv, Kept, Consistent
<1> QED BY <1>1, <1>2, <1>3, <1>4, <1>5, <1>6, <1>7, <1>8, <1>9, <1>10, <1>11, <1>12,
          <1>13, <1>14, <1>15, <1>16, <1>17, <1>18, <1>19, <1>20, <1>21, <1>22, <1>23,
          <1>24, <1>25, <1>26, <1>27, <1>28, <1>29, <1>30 DEF Next, FlowStep

\* A step leaves no call of a finished turn without its result.
LEMMA ConversationStep ==
  ASSUME IInv, [Next]_vars
  PROVE  Conversation'
<1> USE DEF Agents, Goto, Yield, Ask, NewLoop, loopVars, history, InLoop
<1>1. CASE Start
  <2>1. CASE session = "pending"
    BY <2>1, <1>1, NoCallsExcused DEF Start, IInv, Conversation, Excused, CallsAnswered
  <2>2. CASE session # "pending"
    <3>1. memory' = RollBack(memory) /\ memory \in Memory
      BY <2>2, <1>1 DEF Start, IInv, TypeOK
    <3>2. memory'.lost = memory.lost /\ Excused(memory')
          /\ (memory'.last \in {"none", "human"} => memory'.calls = <<>>)
      BY <3>1, RollBackMemory DEF IInv, Conversation
    <3> QED BY <2>2, <3>2, <1>1 DEF Start, IInv, Conversation, Excused, CallsAnswered
  <2> QED BY <2>1, <2>2
<1>2. CASE Enter BY <1>2 DEF Enter, IInv, Conversation, Settled, CallsAnswered
<1>3. CASE BeginPlan BY <1>3 DEF BeginPlan, IInv, Conversation, Settled, CallsAnswered
<1>4. CASE StartStep BY <1>4 DEF StartStep, IInv, Conversation, Settled, CallsAnswered
<1>5. CASE RequestStep
  <2>1. memory' = AddHuman(memory) /\ memory \in Memory
    BY <1>5 DEF RequestStep, Ask, IInv, TypeOK
  <2>2. exhausted \/ Excused(memory)
    BY <1>5 DEF RequestStep, IInv, Conversation, Settled
  <2>3. memory'.last = "human" /\ memory'.calls = <<>> /\ Excused(memory')
    BY <2>1, HumanMemory, NoCallsExcused
  <2>4. CallsAnswered'
    BY <2>1, <2>2, HumanMemory, ExcusedCalls, <1>5
       DEF RequestStep, IInv, Conversation, CallsAnswered
  <2>5. pc' = "model"
    BY <1>5 DEF RequestStep
  <2> QED BY <2>3, <2>4, <2>5, <1>5 DEF RequestStep, Conversation, Excused
<1>6. CASE BeginUpdate BY <1>6 DEF BeginUpdate, IInv, Conversation, Settled, CallsAnswered
<1>7. CASE BeginSummary
  <2>1. memory' = AddHuman(memory) /\ memory \in Memory
    BY <1>7 DEF BeginSummary, Ask, IInv, TypeOK
  <2>2. exhausted \/ Excused(memory)
    BY <1>7 DEF BeginSummary, IInv, Conversation, Settled
  <2>3. memory'.last = "human" /\ memory'.calls = <<>> /\ Excused(memory')
    BY <2>1, HumanMemory, NoCallsExcused
  <2>4. CallsAnswered'
    BY <2>1, <2>2, HumanMemory, ExcusedCalls, <1>7
       DEF BeginSummary, IInv, Conversation, CallsAnswered
  <2>5. pc' = "model"
    BY <1>7 DEF BeginSummary
  <2> QED BY <2>3, <2>4, <2>5, <1>7 DEF BeginSummary, Conversation, Excused
<1>8. CASE Complete BY <1>8 DEF Complete, IInv, Conversation, Settled, CallsAnswered
<1>9. CASE Done BY <1>9 DEF Done, IInv, Conversation, Settled, CallsAnswered
<1>10. CASE Respond
  <2>1. memory \in Memory /\ flow \in Agents /\ session = "running"
    BY <1>10 DEF Respond, IInv, TypeOK, Places
  <2>2. exhausted \/ Excused(memory)
    BY <1>10 DEF Respond, IInv, Conversation, Settled
  <2>3. CASE flow \in {"planning", "updating"}
    BY <2>1, <2>2, <2>3, <1>10 DEF Respond, Agent, IInv, Conversation, Excused,
       CallsAnswered
  <2>4. CASE flow \in {"executing", "summarizing"}
    <3>1. PICK calls \in Calls : memory' = AddAI(memory, calls)
      BY <2>4, <1>10 DEF Respond, Agent
    <3>2. memory'.last = "ai" /\ memory'.calls = calls
          /\ memory'.lost = memory.lost \cup Unanswered(memory)
      BY <2>1, <3>1, AnswerMemory
    <3>3. CallsAnswered'
      BY <2>1, <2>2, <3>2, ExcusedCalls, <1>10
         DEF Respond, IInv, Conversation, CallsAnswered
    <3>4. idx' = 1 /\ got' = {} /\ pc' = "calls" /\ flow' = flow /\ session' = session
      BY <1>10 DEF Respond
    <3>5. InHand'
      BY <3>2, <3>4, CallsAreSeq, FlowAssumption DEF InHand
    <3> QED BY <2>1, <2>4, <3>2, <3>3, <3>4, <3>5 DEF Conversation, Settled
  <2> QED BY <2>1, <2>3, <2>4 DEF Agents
<1>11. CASE Conclude
  <2>1. exhausted \/ Excused(memory)
    <3>1. CASE flow \in {"planning", "updating"}
      BY <3>1, <1>11 DEF Conclude, InLoop, IInv, Conversation, Settled
    <3>2. CASE flow \notin {"planning", "updating"}
      BY <3>2, <1>11, NoCallsExcused DEF Conclude, Pending, Agent
    <3> QED BY <3>1, <3>2
  <2> QED BY <2>1, <1>11 DEF Conclude, IInv, Conversation, Excused, CallsAnswered
<1>12. CASE Exhaust BY <1>12 DEF Exhaust, IInv, Conversation, CallsAnswered
<1>13. CASE Unknown
  <2>1. pc = "calls" /\ flow \in {"executing", "summarizing"} /\ memory \in Memory
        /\ idx <= Len(memory.calls) /\ memory.calls[idx] = "unknown" /\ idx \in Nat
    BY <1>13 DEF Unknown, InLoop, Pending, Agent, IInv, TypeOK, Places, Agents
  <2>2. InHand /\ memory.calls \in Calls
    BY <2>1 DEF IInv, Conversation, Memory
  <2>3. Len(memory.calls) \in Nat /\ (idx + 1) - 1 = idx
    BY <2>1, <2>2, CallsAreSeq, FlowAssumption
  <2>4. idx' = idx + 1 /\ got' = got /\ memory' = memory
    BY <1>13 DEF Unknown
  <2>5. got = {j \in 1 .. idx : memory.calls[j] # "unknown"}
    BY <2>1, <2>2 DEF InHand
  <2>6. InHand'
    BY <2>1, <2>2, <2>3, <2>4, <2>5 DEF InHand
  <2> QED BY <2>1, <2>6, <1>13 DEF Unknown, IInv, Conversation, Excused, CallsAnswered,
    Settled
<1>14. CASE Call
  <2>1. flow \in {"executing", "summarizing"} /\ idx <= Len(memory.calls)
        /\ memory.calls[idx] # "unknown"
    BY <1>14 DEF Call, InLoop, Pending, Agent, IInv, TypeOK, Places, Agents
  <2> QED BY <2>1, <1>14 DEF Call, InLoop, IInv, Conversation, Excused, CallsAnswered,
    Settled, InHand
<1>15. CASE Invoke
  <2>1. pc = "invoke" /\ flow \in {"executing", "summarizing"} /\ memory \in Memory
        /\ idx <= Len(memory.calls) /\ memory.calls[idx] # "unknown" /\ idx \in Nat
    BY <1>15 DEF Invoke, IInv, TypeOK, Places, Conversation
  <2>2. InHand /\ memory.calls \in Calls
    BY <2>1 DEF IInv, Conversation, Memory
  <2>3. Len(memory.calls) \in Nat /\ (idx + 1) - 1 = idx
    BY <2>1, <2>2, CallsAreSeq, FlowAssumption
  <2>4. idx' = idx + 1 /\ got' = got \cup {idx} /\ memory' = memory
    BY <1>15 DEF Invoke
  <2>5. got \cup {idx} = {j \in 1 .. idx : memory.calls[j] # "unknown"}
    BY <2>1, <2>2 DEF InHand
  <2>6. InHand'
    BY <2>1, <2>2, <2>3, <2>4, <2>5 DEF InHand
  <2> QED BY <2>1, <2>6, <1>15 DEF Invoke, IInv, Conversation, Excused, CallsAnswered,
    Settled
<1>16. CASE Wait
  <2>1. InHand
    BY <1>16 DEF Wait, IInv, Conversation
  <2> QED BY <2>1, <1>16 DEF Wait, IInv, Conversation, Excused, CallsAnswered, Settled,
    InHand
<1>17. CASE SendResults
  <2>1. pc = "calls" /\ flow \in {"executing", "summarizing"} /\ memory \in Memory
        /\ idx > Len(memory.calls) /\ memory.calls # <<>> /\ session = "running"
    BY <1>17 DEF SendResults, InLoop, Pending, Agent, IInv, TypeOK, Places, Agents
  <2>2. InHand /\ memory.calls \in Calls
    BY <2>1 DEF IInv, Conversation, Memory
  <2>3. Len(memory.calls) \in Nat /\ DOMAIN memory.calls = 1 .. Len(memory.calls)
    BY <2>2, CallsAreSeq, FlowAssumption
  <2>4. got = {j \in 1 .. Len(memory.calls) : memory.calls[j] # "unknown"}
    BY <2>1, <2>2, <2>3 DEF InHand
  <2>5. memory' = AddResults(memory, got) /\ pc' = "model" /\ session' = session
    BY <1>17 DEF SendResults
  <2>6. memory'.calls = memory.calls /\ memory'.lost = memory.lost
        /\ (got # {} => memory'.last = "tool" /\ memory'.answered = got)
        /\ (got = {} => memory' = memory)
    BY <2>1, <2>5, ResultsMemory
  <2>7. Excused(memory')
    BY <2>3, <2>4, <2>6 DEF Excused
  <2>8. memory'.last \in {"ai", "tool"}
    BY <2>2, <2>6 DEF InHand
  <2> QED BY <2>1, <2>5, <2>6, <2>7, <2>8, <1>17 DEF SendResults, IInv, Conversation,
    Excused, CallsAnswered
<1>18. CASE TakePlan BY <1>18 DEF TakePlan, IInv, Conversation, Settled, CallsAnswered
<1>19. CASE StorePlan BY <1>19 DEF StorePlan, IInv, Conversation, Settled, CallsAnswered
<1>20. CASE FinishStep BY <1>20 DEF FinishStep, IInv, Conversation, Settled, CallsAnswered
<1>21. CASE Revise BY <1>21 DEF Revise, IInv, Conversation, Settled, CallsAnswered
<1>22. CASE FinishSummary BY <1>22 DEF FinishSummary, IInv, Conversation, Settled,
         CallsAnswered
<1>23. CASE Advance BY <1>23 DEF Advance, IInv, Conversation, Settled, CallsAnswered
<1>24. CASE NewTask BY <1>24 DEF NewTask, IInv, Conversation, Settled, CallsAnswered
<1>25. CASE Rerun BY <1>25 DEF Rerun, IInv, Conversation, Settled, CallsAnswered
<1>26. CASE Message BY <1>26 DEF Message, IInv, Conversation, Settled, InHand, CallsAnswered
<1>27. CASE Abort BY <1>27 DEF Abort, IInv, Conversation, Settled, CallsAnswered
<1>28. CASE Stop BY <1>28 DEF Stop, IInv, Conversation, Settled, CallsAnswered
<1>29. CASE Crash BY <1>29 DEF Crash, IInv, Conversation, Settled, CallsAnswered
<1>30. CASE UNCHANGED vars BY <1>30 DEF vars, sessionVars, IInv, Conversation, Settled,
         InHand, CallsAnswered
<1> QED BY <1>1, <1>2, <1>3, <1>4, <1>5, <1>6, <1>7, <1>8, <1>9, <1>10, <1>11, <1>12,
          <1>13, <1>14, <1>15, <1>16, <1>17, <1>18, <1>19, <1>20, <1>21, <1>22, <1>23,
          <1>24, <1>25, <1>26, <1>27, <1>28, <1>29, <1>30 DEF Next, FlowStep

\* A step leaves a question open, or answered, for as long as the session waits.
LEMMA QuestionStep ==
  ASSUME IInv, [Next]_vars
  PROVE  Question'
<1> USE DEF Goto, Yield, Ask, NewLoop, loopVars, history, InLoop
<1>1. CASE Start
  <2>1. memory \in Memory /\ session' = session
    BY <1>1 DEF Start, IInv, TypeOK
  <2>2. CASE session = "waiting"
    <3>1. memory' = RollBack(memory)
      BY <2>2, <1>1 DEF Start
    <3> QED BY <2>1, <2>2, <3>1, RollBackQuestion DEF IInv, Question
  <2> QED BY <2>1, <2>2 DEF Question
<1>2. CASE Enter BY <1>2 DEF Enter, Question
<1>3. CASE BeginPlan BY <1>3 DEF BeginPlan, IInv, Question
<1>4. CASE StartStep BY <1>4 DEF StartStep, IInv, Question
<1>5. CASE RequestStep BY <1>5 DEF RequestStep, IInv, Places, Question
<1>6. CASE BeginUpdate BY <1>6 DEF BeginUpdate, IInv, Question
<1>7. CASE BeginSummary BY <1>7 DEF BeginSummary, IInv, Places, Question
<1>8. CASE Complete BY <1>8 DEF Complete, IInv, Question
<1>9. CASE Done BY <1>9 DEF Done, IInv, Question
<1>10. CASE Respond BY <1>10 DEF Respond, IInv, Places, Question
<1>11. CASE Conclude BY <1>11 DEF Conclude, IInv, Question
<1>12. CASE Exhaust BY <1>12 DEF Exhaust, IInv, Question
<1>13. CASE Unknown BY <1>13 DEF Unknown, IInv, Question
<1>14. CASE Call BY <1>14 DEF Call, IInv, Question
<1>15. CASE Invoke BY <1>15 DEF Invoke, IInv, Question
<1>16. CASE Wait
  <2>1. memory.last = "ai" /\ memory' = memory
    BY <1>16 DEF Wait, IInv, Conversation, InHand
  <2> QED BY <2>1 DEF Question
<1>17. CASE SendResults BY <1>17 DEF SendResults, IInv, Places, Question
<1>18. CASE TakePlan BY <1>18 DEF TakePlan, IInv, Question
<1>19. CASE StorePlan BY <1>19 DEF StorePlan, IInv, Question
<1>20. CASE FinishStep BY <1>20 DEF FinishStep, IInv, Question
<1>21. CASE Revise BY <1>21 DEF Revise, IInv, Question
<1>22. CASE FinishSummary BY <1>22 DEF FinishSummary, IInv, Question
<1>23. CASE Advance BY <1>23 DEF Advance, IInv, Question
<1>24. CASE NewTask BY <1>24 DEF NewTask, IInv, Question
<1>25. CASE Rerun BY <1>25 DEF Rerun, IInv, Question
<1>26. CASE Message BY <1>26 DEF Message, Question
<1>27. CASE Abort BY <1>27 DEF Abort, Question
<1>28. CASE Stop BY <1>28 DEF Stop, Question
<1>29. CASE Crash BY <1>29 DEF Crash, IInv, Question
<1>30. CASE UNCHANGED vars BY <1>30 DEF vars, sessionVars, IInv, Question
<1> QED BY <1>1, <1>2, <1>3, <1>4, <1>5, <1>6, <1>7, <1>8, <1>9, <1>10, <1>11, <1>12,
          <1>13, <1>14, <1>15, <1>16, <1>17, <1>18, <1>19, <1>20, <1>21, <1>22, <1>23,
          <1>24, <1>25, <1>26, <1>27, <1>28, <1>29, <1>30 DEF Next, FlowStep

-----------------------------------------------------------------------------
(* The invariant holds *)

\* The invariant holds before the first message.
LEMMA InitInv ==
  ASSUME Init
  PROVE  IInv
<1> USE DEF Init, NoPlan, NoStep
<1>1. TypeOK
  <2>1. [id |-> NoStep, done |-> FALSE] \in PlanStep
    BY DEF PlanStep
  <2>2. NoPlan \in Seq(PlanStep)
    BY <2>1
  <2>3. memory \in Memory
    BY NoCalls DEF Memory
  <2>4. stored \in Seq(PlanStep) /\ plan \in Seq(PlanStep)
    BY <2>2
  <2>5. iter \in 0 .. MaxIterations /\ made \in 0 .. MaxSteps /\ idx \in Nat
    BY FlowAssumption
  <2>6. /\ step \in StepId \cup {NoStep} /\ asked \in StepId \cup {NoStep}
        /\ got \in SUBSET (1 .. MaxCalls) /\ told \in SUBSET StepId
    OBVIOUS
  <2> QED BY <2>3, <2>4, <2>5, <2>6 DEF TypeOK, FlowStatus
<1>2. Places /\ Plans /\ Kept /\ Waits
  BY DEF Places, Plans, RealSteps, Kept, Working, Waits, ResumesAsker
<1>3. Summed /\ Question
  BY DEF Summed, SummaryIsLast, Question
<1>4. Conversation
  BY NoCallsExcused DEF Conversation, Settled, CallsAnswered
<1> QED BY <1>1, <1>2, <1>3, <1>4 DEF IInv

\* Every step keeps the invariant.
LEMMA StepInv ==
  ASSUME IInv, [Next]_vars
  PROVE  IInv'
<1>1. TypeOK' /\ Places'
  BY TypeStep, PlacesStep DEF IInv
<1>2. Plans' /\ Waits' /\ Summed'
  BY <1>1, PlansStep, WaitsStep, SummedStep DEF IInv
<1>3. Kept' /\ Conversation' /\ Question'
  BY <1>2, KeptStep, ConversationStep, QuestionStep
<1> QED BY <1>1, <1>2, <1>3 DEF IInv

\* The invariant holds of every behaviour.
LEMMA Invariance == Spec => []IInv
  BY InitInv, StepInv, PTL DEF Spec

-----------------------------------------------------------------------------
(* What follows from it *)

\* Every variable of a flow keeps its type: with it, the plans hold steps, the
\* memory holds calls and results, and the loop counts at most max_iterations
\* turns.
THEOREM FlowTypeCorrect == Spec => []TypeOK
  BY Invariance, PTL DEF IInv

\* The answer of the user goes to the step that asked (PlanActFlow.run loads the
\* plan of the last PlanEvent and takes its next step).
THEOREM AnswerGoesToAsker == Spec => []ResumesAsker
<1>1. IInv => ResumesAsker
  BY DEF IInv, Waits
<1> QED BY <1>1, Invariance, PTL

\* A step that was reported as completed is not executed again.
THEOREM ToldStepsStayDone == Spec => []NoStepTwice
<1>1. ASSUME IInv, pc = "request"
      PROVE  step \notin told
  <2>1. flow = "executing" /\ Consistent(plan)
    BY <1>1 DEF IInv, Places, Kept, Working
  <2>2. PICK i \in 1 .. Len(plan) : IsNext(plan, i) /\ plan[i].id = step
    BY <1>1, <2>1 DEF IInv, Plans, Working
  <2> QED BY <2>1, <2>2 DEF Consistent, IsNext
<1>2. IInv => NoStepTwice
  BY <1>1 DEF NoStepTwice
<1> QED BY <1>2, Invariance, PTL

\* The summary is asked for, and the plan told as completed, only when no step of
\* it is open.
THEOREM SummaryComesLast == Spec => []SummaryIsLast
<1>1. IInv => SummaryIsLast
  BY DEF IInv, Summed
<1> QED BY <1>1, Invariance, PTL

\* The model is never sent a call without its result, but for the calls that
\* BaseAgent gives no result (roll_back, unknown tools, calls beside a question).
THEOREM NoOpenCallSent == Spec => []CallsAnswered
<1>1. IInv => CallsAnswered
  BY DEF IInv, Conversation
<1> QED BY <1>1, Invariance, PTL

\* The step of a run that resumes after a question leaves that question answered.
THEOREM QuestionIsAnswered == Spec => AnswerReachesQuestion
<1> DEFINE A == session = "waiting" /\ memory.calls = <<"ask">> /\ pc' = "enter" =>
                  memory'.last = "tool" /\ memory'.calls = <<"ask">>
                    /\ memory'.answered = {1}
<1>1. ASSUME Next, session = "waiting", pc' = "enter", IInv
      PROVE  Start
  BY <1>1 DEF Next, FlowStep, Enter, BeginPlan, StartStep, RequestStep, BeginUpdate,
       BeginSummary, Complete, Done, Respond, Conclude, Exhaust, Unknown, Call, Invoke,
       Wait, SendResults, TakePlan, StorePlan, FinishStep, Revise, FinishSummary,
       Advance, NewTask, Rerun, Message, Abort, Stop, Crash, Goto, Yield, Ask
<1>2. ASSUME IInv, Start, session = "waiting", memory.calls = <<"ask">>
      PROVE  memory'.last = "tool" /\ memory'.calls = <<"ask">> /\ memory'.answered = {1}
  <2>1. memory' = RollBack(memory) /\ memory \in Memory
    BY <1>2 DEF Start, IInv, TypeOK
  <2> QED BY <1>2, <2>1, RollBackQuestion DEF IInv, Question
<1>3. IInv /\ [Next]_vars => [A]_vars
  BY <1>1, <1>2
<1> QED BY <1>3, Invariance, PTL DEF Spec, AnswerReachesQuestion
=============================================================================
