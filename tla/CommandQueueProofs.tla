-------------------------- MODULE CommandQueueProofs --------------------------
(***************************************************************************)
(* Proofs about CommandQueue, for every value of its constants: any        *)
(* textures, batch, ring and table sizes, any number of operations and of  *)
(* device failures.  Types first, then the order of operations, what       *)
(* fences say, that no operation is lost, that batches stay in bounds when *)
(* the device does not fail, and the refinement of SdlOrder.               *)
(***************************************************************************)
EXTENDS CommandQueue, FiniteSetTheorems, TLAPS

(* The thread is at a stage of the callback it serves.                     *)
StageOK == pc \in {"idle", "overrun"} \/ pc \in DOMAIN After[call.kind] \ {"start"}

TypeInv == TypeOK /\ StageOK

-----------------------------------------------------------------------------

(* Every stage of every callback is followed by a stage of it, or its end. *)
LEMMA AfterStages ==
  \A k \in CallKinds :
    /\ After[k].start \in Stages /\ After[k].start \in DOMAIN After[k] \ {"start"}
    /\ \A p \in DOMAIN After[k] \ {"start"} :
         /\ After[k][p] \in Stages
         /\ After[k][p] = "idle" \/ After[k][p] \in DOMAIN After[k] \ {"start"}
<1> USE DEF After, Stages
<1> SUFFICES ASSUME NEW k \in CallKinds
    PROVE    /\ After[k].start \in Stages /\ After[k].start \in DOMAIN After[k] \ {"start"}
             /\ \A p \in DOMAIN After[k] \ {"start"} :
                  /\ After[k][p] \in Stages
                  /\ After[k][p] = "idle" \/ After[k][p] \in DOMAIN After[k] \ {"start"}
  OBVIOUS
<1>1. CallKinds = {"fill", "scalarFill", "blend", "draw", "fallback", "endQueue",
                   "setTarget", "update", "readPixels", "present", "destroy"}
  BY DEF CallKinds
<1>2. CASE k = "fill" BY <1>2
<1>3. CASE k = "scalarFill" BY <1>3
<1>4. CASE k = "blend" BY <1>4
<1>5. CASE k = "draw" BY <1>5
<1>6. CASE k = "fallback" BY <1>6
<1>7. CASE k = "endQueue" BY <1>7
<1>8. CASE k = "setTarget" BY <1>8
<1>9. CASE k = "update" BY <1>9
<1>10. CASE k = "readPixels" BY <1>10
<1>11. CASE k = "present" BY <1>11
<1>12. CASE k = "destroy" BY <1>12
<1> QED BY <1>1, <1>2, <1>3, <1>4, <1>5, <1>6, <1>7, <1>8, <1>9, <1>10, <1>11, <1>12

(* Advancing keeps the thread at a stage of its callback.                  *)
LEMMA AdvanceStage ==
  ASSUME TypeInv, pc \notin {"idle", "overrun"}, Advance, call' = call
  PROVE  pc' \in Stages /\ StageOK'
<1>1. call.kind \in CallKinds
  BY DEF TypeInv, TypeOK, Call
<1>2. pc \in DOMAIN After[call.kind] \ {"start"}
  BY DEF TypeInv, StageOK
<1> QED BY <1>1, <1>2, AfterStages DEF Advance, StageOK

(* A failed callback ends, or is FreeSurface going on.                     *)
LEMMA FailStage ==
  ASSUME TypeInv, Fail, call' = call
  PROVE  /\ pc' \in Stages /\ StageOK' /\ inQueue' \in BOOLEAN
         /\ dropped' \subseteq Nat
<1>1. call.op.id \in Nat
  BY DEF TypeInv, TypeOK, Call, Op
<1>2. "free" \in DOMAIN After["destroy"] \ {"start"}
  BY DEF After
<1> QED BY <1>1, <1>2 DEF Fail, TypeInv, TypeOK, StageOK, Stages

(* A pushed command is a command, and nothing already pushed changes.      *)
LEMMA PushType ==
  ASSUME TypeInv, NEW kind \in CommandKinds, NEW ops \in Seq(Op), Push(kind, ops)
  PROVE  /\ log' \in Seq([kind : CommandKinds, ops : Seq(Op)])
         /\ Len(log') = Len(log) + 1
<1>1. Command(kind, ops) \in [kind : CommandKinds, ops : Seq(Op)]
  BY DEF Command
<1> QED BY <1>1 DEF Push, TypeInv, TypeOK

\* A fence is a completion count modulo FenceModulus.
LEMMA FenceType == \A i \in Nat : Fence(i) \in 0 .. FenceModulus - 1
BY FenceAssumption DEF Fence

\* Starting a callback keeps the types of the thread's variables.
LEMMA StartType ==
  ASSUME TypeInv, issued' \in Nat, NEW kind \in CallKinds, NEW t \in Surfaces,
         NEW s \in Surfaces, NEW device \in BOOLEAN, Start(kind, t, s, device)
  PROVE  call' \in Call /\ pc' \in Stages /\ StageOK' /\ seen' \subseteq Nat
<1>1. OpOf(kind, issued', t, s) \in Op
  BY DEF OpOf, Op, OpKinds
<1>2. call' \in Call /\ call'.kind = kind
  BY <1>1 DEF Start, Call
<1> QED BY <1>2, AfterStages DEF Start, StageOK

\* A new renderer has its types.
LEMMA InitType == Init => TypeInv
<1> SUFFICES ASSUME Init PROVE TypeInv
  OBVIOUS
<1>1. OpOf("endQueue", 0, Composition, Composition) \in Op
  BY DEF OpOf, Op, OpKinds, Surfaces
<1>2. "endQueue" \in CallKinds
  BY DEF CallKinds, After
<1>3. call \in Call
  BY <1>1, <1>2 DEF Init, Call, Surfaces
<1>4. pacingSeq \in 0 .. PacingPeriod - 1
  BY SizesAssumption DEF Init
<1>5. /\ log \in Seq([kind : CommandKinds, ops : Seq(Op)])
      /\ fills \in Seq(Op) /\ draws \in Seq(Op)
      /\ Len(log) = 0
  BY DEF Init
<1>6. presentFence \in 0 .. FenceModulus - 1 /\ presentDrawFence \in 0 .. FenceModulus - 1
  BY FenceType DEF Init
<1>7. pc \in Stages /\ StageOK
  BY DEF Init, StageOK, Stages
<1>8. /\ done \in 0 .. Len(log) /\ presentIndex \in 0 .. Len(log)
      /\ stalledAt \in -1 .. Len(log)
  BY <1>5 DEF Init
<1>9. /\ fillTarget \in Surfaces \cup {NoTarget} /\ drawTarget \in Surfaces \cup {NoTarget}
      /\ target \in Surfaces /\ live \subseteq Textures /\ freed \subseteq Surfaces
  BY DEF Init, Surfaces
<1>10. /\ presentPending \in BOOLEAN /\ inQueue \in BOOLEAN
       /\ issued \in Nat /\ dropped \subseteq Nat /\ failures \in Nat /\ seen \subseteq Nat
  BY DEF Init
<1> QED BY <1>3, <1>4, <1>5, <1>6, <1>7, <1>8, <1>9, <1>10 DEF TypeInv, TypeOK

(* A longer ring keeps every place in it.                                  *)
LEMMA Longer ==
  ASSUME TypeInv, log' \in Seq([kind : CommandKinds, ops : Seq(Op)]),
         Len(log') = Len(log) + 1
  PROVE  /\ 0 .. Len(log) \subseteq 0 .. Len(log')
         /\ -1 .. Len(log) \subseteq -1 .. Len(log')
         /\ Len(log') \in 0 .. Len(log')
<1>1. Len(log) \in Nat
  BY DEF TypeInv, TypeOK
<1> QED BY <1>1

\* Every step of the thread and of the core keeps the types.
LEMMA TypeStep == TypeInv /\ [Next]_vars => TypeInv'
<1> SUFFICES ASSUME TypeInv, [Next]_vars PROVE TypeInv'
  OBVIOUS
<1> USE DEF batchVars, presentVars, sdlVars
<1>1. CASE Execute
  BY <1>1 DEF Execute, TypeInv, TypeOK, StageOK
<1>2. CASE Skip
  <2>1. pc \notin {"idle", "overrun"}
    BY <1>2 DEF Skip, FlushStages
  <2> QED BY <1>2, <2>1, AdvanceStage DEF Skip, TypeInv, TypeOK
<1>3. CASE WaitPresent
  <2>1. pc \notin {"idle", "overrun"}
    BY <1>3 DEF WaitPresent, WaitDue
  <2>2. pacingSeq' \in 0 .. PacingPeriod - 1
    BY <1>3, SizesAssumption DEF WaitPresent, CountWait, TypeInv, TypeOK
  <2> QED BY <1>3, <2>1, <2>2, AdvanceStage DEF WaitPresent, TypeInv, TypeOK
<1>4. CASE WaitProgress
  BY <1>4 DEF WaitProgress, TypeInv, TypeOK, StageOK
<1>5. CASE FlushFills
  <2>1. CASE Stall("fillBatch")
    BY <2>1 DEF Stall, TypeInv, TypeOK, StageOK
  <2>2. CASE Push("fillBatch", fills) /\ Advance /\ ~Stall("fillBatch")
    <3>1. pc \notin {"idle", "overrun"} /\ call' = call
      BY <1>5, <2>2 DEF FlushFills, FillsDue
    <3>2. pc' \in Stages /\ StageOK'
      BY <2>2, <3>1, AdvanceStage
    <3>3. log' \in Seq([kind : CommandKinds, ops : Seq(Op)]) /\ Len(log') = Len(log) + 1
      BY <2>2, PushType DEF CommandKinds, TypeInv, TypeOK
    <3>4. <<>> \in Seq(Op)
      OBVIOUS
    <3>5. done \in 0 .. Len(log') /\ presentIndex \in 0 .. Len(log')
          /\ stalledAt \in -1 .. Len(log')
      BY <3>3, Longer DEF TypeInv, TypeOK
    <3> QED BY <1>5, <2>2, <3>2, <3>3, <3>4, <3>5 DEF FlushFills, TypeInv, TypeOK
  <2> QED BY <1>5, <2>1, <2>2 DEF FlushFills
<1>6. CASE FlushDraws
  <2>1. CASE Stall("drawBatch")
    BY <2>1 DEF Stall, TypeInv, TypeOK, StageOK
  <2>2. CASE Push("drawBatch", draws) /\ Advance /\ ~Stall("drawBatch")
    <3>1. pc \notin {"idle", "overrun"} /\ call' = call
      BY <1>6, <2>2 DEF FlushDraws, DrawsDue
    <3>2. pc' \in Stages /\ StageOK'
      BY <2>2, <3>1, AdvanceStage
    <3>3. log' \in Seq([kind : CommandKinds, ops : Seq(Op)]) /\ Len(log') = Len(log) + 1
      BY <2>2, PushType DEF CommandKinds, TypeInv, TypeOK
    <3>4. <<>> \in Seq(Op)
      OBVIOUS
    <3>5. done \in 0 .. Len(log') /\ presentIndex \in 0 .. Len(log')
          /\ stalledAt \in -1 .. Len(log')
      BY <3>3, Longer DEF TypeInv, TypeOK
    <3> QED BY <1>6, <2>2, <3>2, <3>3, <3>4, <3>5 DEF FlushDraws, TypeInv, TypeOK
  <2> QED BY <1>6, <2>1, <2>2 DEF FlushDraws
<1>7. CASE AppendFill
  <2>1. pc' \in Stages /\ StageOK'
    BY <1>7, AdvanceStage DEF AppendFill
  <2>2. fills' \in Seq(Op)
    BY <1>7 DEF AppendFill, TypeInv, TypeOK, Call
  <2> QED BY <1>7, <2>1, <2>2 DEF AppendFill, TypeInv, TypeOK
<1>8. CASE AppendDraw
  <2>1. pc' \in Stages /\ StageOK'
    BY <1>8, AdvanceStage DEF AppendDraw
  <2>2. draws' \in Seq(Op)
    BY <1>8 DEF AppendDraw, TypeInv, TypeOK, Call
  <2> QED BY <1>8, <2>1, <2>2 DEF AppendDraw, TypeInv, TypeOK
<1>9. CASE Overrun
  BY <1>9 DEF Overrun, TypeInv, TypeOK, StageOK, Stages
<1>10. CASE PushSingle
  <2>1. CASE Stall("single")
    BY <2>1 DEF Stall, TypeInv, TypeOK, StageOK
  <2>2. CASE Push("single", <<call.op>>) /\ Advance /\ ~Stall("single")
    <3>1. pc' \in Stages /\ StageOK'
      BY <1>10, <2>2, AdvanceStage DEF PushSingle
    <3>2. <<call.op>> \in Seq(Op)
      BY DEF TypeInv, TypeOK, Call
    <3>3. log' \in Seq([kind : CommandKinds, ops : Seq(Op)]) /\ Len(log') = Len(log) + 1
      BY <2>2, <3>2, PushType DEF CommandKinds
    <3>4. done \in 0 .. Len(log') /\ presentIndex \in 0 .. Len(log')
          /\ stalledAt \in -1 .. Len(log')
      BY <3>3, Longer DEF TypeInv, TypeOK
    <3> QED BY <1>10, <2>2, <3>1, <3>3, <3>4 DEF PushSingle, TypeInv, TypeOK
  <2> QED BY <1>10, <2>1, <2>2 DEF PushSingle
<1>11. CASE PushPresent
  <2>1. pc' \in Stages /\ StageOK'
    BY <1>11, AdvanceStage DEF PushPresent
  <2>2. <<call.op>> \in Seq(Op)
    BY DEF TypeInv, TypeOK, Call
  <2>3. log' \in Seq([kind : CommandKinds, ops : Seq(Op)]) /\ Len(log') = Len(log) + 1
    BY <1>11, <2>2, PushType DEF PushPresent, CommandKinds
  <2>4. /\ presentFence' \in 0 .. FenceModulus - 1
        /\ presentDrawFence' \in 0 .. FenceModulus - 1
    BY <1>11, <2>3, FenceType DEF PushPresent, TypeInv, TypeOK
  <2>5. done \in 0 .. Len(log') /\ presentIndex' \in 0 .. Len(log')
        /\ stalledAt \in -1 .. Len(log')
    BY <1>11, <2>3, Longer DEF PushPresent, TypeInv, TypeOK
  <2> QED BY <1>11, <2>1, <2>3, <2>4, <2>5 DEF PushPresent, TypeInv, TypeOK
<1>12. CASE RefusePresent
  <2>1. presentDrawFence' \in 0 .. FenceModulus - 1
    BY <1>12, FenceType DEF RefusePresent, TypeInv, TypeOK
  <2>2. pc' \in Stages /\ StageOK' /\ inQueue' \in BOOLEAN /\ dropped' \subseteq Nat
    BY <1>12, FailStage DEF RefusePresent
  <2> QED BY <1>12, <2>1, <2>2 DEF RefusePresent, TypeInv, TypeOK
<1>13. CASE Access
  <2>1. pc \notin {"idle", "overrun"}
    BY <1>13 DEF Access, AccessDue
  <2>2. seen' \subseteq Nat
    BY <1>13 DEF Access, TypeInv, TypeOK
  <2> QED BY <1>13, <2>1, <2>2, AdvanceStage DEF Access, TypeInv, TypeOK
<1>14. CASE Leave
  BY <1>14, AdvanceStage DEF Leave, TypeInv, TypeOK
<1>15. CASE Retarget
  BY <1>15, AdvanceStage DEF Retarget, TypeInv, TypeOK, Call
<1>16. CASE FreeTexture
  BY <1>16, AdvanceStage DEF FreeTexture, TypeInv, TypeOK, Call, Surfaces
<1>17. CASE DeviceFails
  <2>1. pacingSeq' \in 0 .. PacingPeriod - 1
    BY <1>17, SizesAssumption DEF DeviceFails, CountWait, TypeInv, TypeOK
  <2>2. pc' \in Stages /\ StageOK' /\ inQueue' \in BOOLEAN /\ dropped' \subseteq Nat
    BY <1>17, FailStage DEF DeviceFails
  <2> QED BY <1>17, <2>1, <2>2 DEF DeviceFails, TypeInv, TypeOK
<1>18. CASE BeginQueue
  BY <1>18 DEF BeginQueue, TypeInv, TypeOK, StageOK
<1>19. ASSUME NEW kind \in CallKinds, NEW s \in Surfaces, Issue(kind, s) PROVE TypeInv'
  <2>1. issued' \in Nat
    BY <1>19 DEF Issue, TypeInv, TypeOK
  <2>2. call' \in Call /\ pc' \in Stages /\ StageOK' /\ seen' \subseteq Nat
    BY <1>19, <2>1, StartType DEF Issue, TypeInv, TypeOK
  <2> QED BY <1>19, <2>1, <2>2 DEF Issue, TypeInv, TypeOK
<1>20. ASSUME NEW kind \in CallKinds, NEW s \in Surfaces, NEW device \in BOOLEAN,
              Ask(kind, s, device), live' \subseteq Textures
       PROVE  TypeInv'
  <2>1. issued' \in Nat
    BY <1>20 DEF Ask, TypeInv, TypeOK
  <2>2. call' \in Call /\ pc' \in Stages /\ StageOK' /\ seen' \subseteq Nat
    BY <1>20, <2>1, StartType DEF Ask, Surfaces
  <2> QED BY <1>20, <2>1, <2>2 DEF Ask, TypeInv, TypeOK
<1>21. CASE RenderPresent
  <2>1. issued' \in Nat
    BY <1>21 DEF RenderPresent, TypeInv, TypeOK
  <2>2. call' \in Call /\ pc' \in Stages /\ StageOK' /\ seen' \subseteq Nat
    BY <1>21, <2>1, StartType DEF RenderPresent, Surfaces, CallKinds, After
  <2> QED BY <1>21, <2>1, <2>2 DEF RenderPresent, TypeInv, TypeOK
<1>22. {"fill", "scalarFill", "blend", "draw", "fallback", "endQueue", "setTarget",
        "update", "readPixels", "destroy"} \subseteq CallKinds
  BY DEF CallKinds, After
<1>23. live \subseteq Textures /\ live \subseteq Surfaces /\ target \in Surfaces /\ Composition \in Surfaces
  BY DEF TypeInv, TypeOK, Surfaces
<1>24. CASE SubmitFill \/ SubmitBlendFill \/ SubmitDraw
  BY <1>19, <1>22, <1>23, <1>24 DEF SubmitFill, SubmitBlendFill, SubmitDraw
<1>25. CASE \/ Fallback \/ EndQueue \/ SetRenderTarget \/ UpdateTexture
            \/ RenderReadPixels \/ DestroyTexture
  BY <1>20, <1>22, <1>23, <1>25 DEF Fallback, EndQueue, SetRenderTarget, UpdateTexture,
     RenderReadPixels, DestroyTexture
<1>26. CASE UNCHANGED vars
  BY <1>26 DEF vars, TypeInv, TypeOK, StageOK
<1> QED BY <1>1, <1>2, <1>3, <1>4, <1>5, <1>6, <1>7, <1>8, <1>9, <1>10, <1>11, <1>12,
     <1>13, <1>14, <1>15, <1>16, <1>17, <1>18, <1>21, <1>24, <1>25, <1>26
     DEF Next, Sdl, Thread

(* The state keeps its type, and the thread keeps to the stages of the     *)
(* callback it serves.                                                     *)
THEOREM TypeCorrect == Spec => []TypeOK
<1>1. TypeInv => TypeOK
  BY DEF TypeInv
<1> QED BY <1>1, InitType, TypeStep, PTL DEF Spec

-----------------------------------------------------------------------------
(***************************************************************************)
(* The inductive invariant.  Each part says what a stage of a callback may *)
(* rely on because of the stages before it.                                *)
(***************************************************************************)

(* RenderPresent goes on only without a pending PRESENT, and only a        *)
(* pending PRESENT may still be in the ring.                               *)
PresentInv ==
  /\ OnePresent
  /\ call.kind = "present" /\ pc \in {"flushFills", "flushDraws", "access", "push"}
       => ~presentPending

(* The batches a stage has already flushed are empty.                      *)
FlushInv ==
  /\ call.kind = "fill" /\ pc # "idle" => FillBatchEnabled
  /\ call.kind = "scalarFill" /\ pc # "idle" => ~FillBatchEnabled
  /\ ~FillBatchEnabled => fills = <<>>
  /\ pc = "flushDraws" /\ call.kind # "fill" => fills = <<>>
  /\ call.kind = "fill" /\ pc \in {"switchFills", "append", "fullFills"} => draws = <<>>
  /\ call.kind = "draw" /\ pc \in {"switchDraws", "append", "fullDraws"} => fills = <<>>
  /\ pc \in {"push", "access", "backBuffer", "leave", "retarget"} =>
       fills = <<>> /\ draws = <<>>

(* A batch is homogeneous, and the operation about to join it fits.        *)
TargetInv ==
  /\ OneBatch
  /\ call.kind \in {"fill", "draw"} /\ pc # "idle" => call.op.target = target
  /\ call.kind = "fill" /\ pc = "append" => fills = <<>> \/ fillTarget = target
  /\ call.kind = "draw" /\ pc = "append" => draws = <<>> \/ drawTarget = target

\* The operation being served is not queued yet.
Unqueued ==
  call.kind \in IssuingKinds /\ pc \notin {"idle", "fullFills", "fullDraws"}

Below(ops, n) == \A i \in DOMAIN ops : ops[i].id < n

(* What is queued was issued before the operation being served.            *)
OrderInv ==
  /\ InOrder
  /\ \A i \in DOMAIN log : Below(log[i].ops, issued + 1)
  /\ Below(fills, issued + 1) /\ Below(draws, issued + 1)
  /\ Unqueued =>
       /\ call.op.id = issued
       /\ \A i \in DOMAIN log : Below(log[i].ops, issued)
       /\ Below(fills, issued) /\ Below(draws, issued)

QueueInv == PresentInv /\ FlushInv /\ TargetInv /\ OrderInv

-----------------------------------------------------------------------------

(* From which stages, of which callbacks, a stage is reached.              *)
LEMMA Routes ==
  ASSUME TypeInv, Advance, pc \notin {"idle", "overrun"}
  PROVE
    /\ pc' \notin {"waitPresent", "overrun"}
    /\ pc' = "flushFills" => pc = "waitPresent"
    /\ pc' = "flushDraws" =>
         pc = "flushFills" /\ call.kind \notin {"fill", "scalarFill", "draw"}
    /\ pc' = "switchFills" => pc = "flushDraws" /\ call.kind = "fill"
    /\ pc' = "switchDraws" => pc = "flushFills" /\ call.kind = "draw"
    /\ pc' = "append" => \/ pc = "switchFills" /\ call.kind = "fill"
                         \/ pc = "switchDraws" /\ call.kind = "draw"
    /\ pc' = "fullFills" => pc = "append" /\ call.kind = "fill"
    /\ pc' = "fullDraws" => pc = "append" /\ call.kind = "draw"
    /\ pc' = "push" => \/ pc = "flushDraws" /\ call.kind \in {"scalarFill", "blend"}
                       \/ pc = "access" /\ call.kind = "present"
    /\ pc' = "access" => \/ pc = "flushDraws" /\ call.kind \notin {"fill", "draw"}
                         \/ pc = "backBuffer" /\ call.kind = "fallback"
    /\ pc' \in {"backBuffer", "leave", "retarget"} =>
         pc = "flushDraws" /\ call.kind \notin {"fill", "draw", "present"}
    /\ pc' = "free" => pc = "flushDraws" /\ call.kind = "destroy"
<1>1. call.kind \in CallKinds /\ pc \in DOMAIN After[call.kind] \ {"start"}
  BY DEF TypeInv, TypeOK, StageOK, Call
<1>2. CallKinds = {"fill", "scalarFill", "blend", "draw", "fallback", "endQueue",
                   "setTarget", "update", "readPixels", "present", "destroy"}
  BY DEF CallKinds, After
<1>3. CASE call.kind = "fill" BY <1>1, <1>3 DEF Advance, After
<1>4. CASE call.kind = "scalarFill" BY <1>1, <1>4 DEF Advance, After
<1>5. CASE call.kind = "blend" BY <1>1, <1>5 DEF Advance, After
<1>6. CASE call.kind = "draw" BY <1>1, <1>6 DEF Advance, After
<1>7. CASE call.kind = "fallback" BY <1>1, <1>7 DEF Advance, After
<1>8. CASE call.kind = "endQueue" BY <1>1, <1>8 DEF Advance, After
<1>9. CASE call.kind = "setTarget" BY <1>1, <1>9 DEF Advance, After
<1>10. CASE call.kind = "update" BY <1>1, <1>10 DEF Advance, After
<1>11. CASE call.kind = "readPixels" BY <1>1, <1>11 DEF Advance, After
<1>12. CASE call.kind = "present" BY <1>1, <1>12 DEF Advance, After
<1>13. CASE call.kind = "destroy" BY <1>1, <1>13 DEF Advance, After
<1> QED BY <1>1, <1>2, <1>3, <1>4, <1>5, <1>6, <1>7, <1>8, <1>9, <1>10, <1>11, <1>12, <1>13

(* Where each callback starts.                                             *)
LEMMA Starts ==
  \A k \in CallKinds :
    /\ After[k].start \in {"waitPresent", "flushFills", "flushDraws"}
    /\ After[k].start = "flushDraws" => k \in {"fill", "scalarFill"}
    /\ k = "present" => After[k].start = "waitPresent"
<1>1. CallKinds = {"fill", "scalarFill", "blend", "draw", "fallback", "endQueue",
                   "setTarget", "update", "readPixels", "present", "destroy"}
  BY DEF CallKinds, After
<1> QED BY <1>1 DEF After

(* A stage names the callbacks that have it.                               *)
LEMMA StageKinds ==
  ASSUME TypeInv
  PROVE  /\ pc = "append" => call.kind \in {"fill", "draw"}
         /\ pc = "push" => call.kind \in {"scalarFill", "blend", "present"}
         /\ pc = "switchFills" => call.kind = "fill"
         /\ pc = "switchDraws" => call.kind = "draw"
         /\ pc = "fullFills" => call.kind = "fill"
         /\ pc = "fullDraws" => call.kind = "draw"
         /\ pc = "free" => call.kind = "destroy"
         /\ pc = "leave" => call.kind = "endQueue"
         /\ pc = "retarget" => call.kind = "setTarget"
<1>1. call.kind \in CallKinds
  BY DEF TypeInv, TypeOK, Call
<1>2. CallKinds = {"fill", "scalarFill", "blend", "draw", "fallback", "endQueue",
                   "setTarget", "update", "readPixels", "present", "destroy"}
  BY DEF CallKinds, After
<1> QED BY <1>1, <1>2 DEF TypeInv, StageOK, After

(* What an SDL request changes: it opens a command list, or starts a       *)
(* callback and touches neither the batches nor the ring.                  *)
Started(kind, t) ==
  /\ pc = "idle" /\ pc' = After[kind].start
  /\ call'.kind = kind /\ call'.op.target = t /\ call'.op.id = issued'
  /\ issued' = IF kind \in IssuingKinds THEN issued + 1 ELSE issued
  /\ kind = "fill" => FillBatchEnabled
  /\ kind = "scalarFill" => ~FillBatchEnabled
  /\ kind \in {"fill", "draw"} => t = target
  /\ UNCHANGED <<log, done, batchVars, presentVars, target>>

\* SDL either starts a callback or does nothing the queue sees.
LEMMA SdlStep ==
  ASSUME TypeInv, Sdl
  PROVE  \/ UNCHANGED <<log, done, batchVars, presentVars, target, issued, call, pc>>
         \/ \E kind \in CallKinds, t \in Surfaces : Started(kind, t)
<1>1. {"fill", "scalarFill", "blend", "draw", "fallback", "endQueue", "setTarget",
       "update", "readPixels", "destroy", "present"} \subseteq CallKinds
  BY DEF CallKinds, After
<1>2. target \in Surfaces /\ Composition \in Surfaces
  BY DEF TypeInv, TypeOK, Surfaces
<1>3. CASE BeginQueue
  BY <1>3 DEF BeginQueue
<1>4. ASSUME NEW kind \in CallKinds, NEW s, Issue(kind, s), kind \in IssuingKinds,
             kind = "fill" => FillBatchEnabled, kind = "scalarFill" => ~FillBatchEnabled
      PROVE  Started(kind, target)
  BY <1>4 DEF Issue, Start, OpOf, Started
<1>5. ASSUME NEW kind \in CallKinds, NEW s, NEW device, Ask(kind, s, device),
             kind \notin IssuingKinds
      PROVE  Started(kind, Composition)
  BY <1>5 DEF Ask, Start, OpOf, Started, IssuingKinds
<1>6. CASE SubmitFill
  BY <1>1, <1>2, <1>4, <1>6 DEF SubmitFill, IssuingKinds
<1>7. CASE SubmitBlendFill \/ SubmitDraw
  BY <1>1, <1>2, <1>4, <1>7 DEF SubmitBlendFill, SubmitDraw, IssuingKinds
<1>8. CASE \/ Fallback \/ EndQueue \/ SetRenderTarget \/ UpdateTexture
           \/ RenderReadPixels \/ DestroyTexture
  BY <1>1, <1>2, <1>5, <1>8 DEF Fallback, EndQueue, SetRenderTarget, UpdateTexture,
     RenderReadPixels, DestroyTexture, IssuingKinds
<1>9. CASE RenderPresent
  <2>1. Started("present", Composition)
    BY <1>9 DEF RenderPresent, Start, OpOf, Started, IssuingKinds
  <2> QED BY <1>1, <1>2, <2>1
<1> QED BY <1>3, <1>6, <1>7, <1>8, <1>9 DEF Sdl

(* A failing callback ends or, in FreeSurface, goes on to release.         *)
LEMMA FailEnds == Fail => pc' = "idle" \/ (pc' = "free" /\ call.kind = "destroy")
BY DEF Fail

-----------------------------------------------------------------------------

\* Every step keeps which batches are empty at which place.
LEMMA FlushStep == TypeInv /\ FlushInv /\ [Next]_vars => FlushInv'
<1> SUFFICES ASSUME TypeInv, FlushInv, [Next]_vars PROVE FlushInv'
  OBVIOUS
<1> USE DEF FlushInv, batchVars, presentVars, sdlVars
<1>1. CASE Sdl
  BY <1>1, SdlStep, Starts DEF Started
<1>2. CASE Skip
  <2>1. pc \notin {"idle", "overrun"} /\ Advance
    BY <1>2 DEF Skip, FlushStages
  <2> QED BY <1>2, <2>1, Routes DEF Skip, FillsDue, DrawsDue
<1>3. CASE WaitPresent
  <2>1. pc \notin {"idle", "overrun"} /\ Advance /\ pc \in {"waitPresent", "backBuffer"}
    BY <1>3 DEF WaitPresent, WaitDue
  <2> QED BY <1>3, <2>1, Routes DEF WaitPresent
<1>4. CASE WaitProgress \/ Execute
  BY <1>4 DEF WaitProgress, Execute
<1>5. CASE FlushFills
  <2>1. CASE Stall("fillBatch")
    BY <2>1 DEF Stall
  <2>2. CASE Push("fillBatch", fills) /\ Advance /\ ~Stall("fillBatch")
    BY <1>5, <2>2, Routes DEF FlushFills, FillsDue
  <2> QED BY <1>5, <2>1, <2>2 DEF FlushFills
<1>6. CASE FlushDraws
  <2>1. CASE Stall("drawBatch")
    BY <2>1 DEF Stall
  <2>2. CASE Push("drawBatch", draws) /\ Advance /\ ~Stall("drawBatch")
    BY <1>6, <2>2, Routes DEF FlushDraws, DrawsDue
  <2> QED BY <1>6, <2>1, <2>2 DEF FlushDraws
<1>7. CASE AppendFill
  BY <1>7, Routes DEF AppendFill
<1>8. CASE AppendDraw
  BY <1>8, Routes DEF AppendDraw
<1>9. CASE Overrun
  BY <1>9 DEF Overrun
<1>10. CASE PushSingle
  <2>1. CASE Stall("single")
    BY <2>1 DEF Stall
  <2>2. CASE Push("single", <<call.op>>) /\ Advance /\ ~Stall("single")
    BY <1>10, <2>2, Routes DEF PushSingle
  <2> QED BY <1>10, <2>1, <2>2 DEF PushSingle
<1>11. CASE PushPresent
  BY <1>11, Routes DEF PushPresent
<1>12. CASE RefusePresent \/ DeviceFails
  BY <1>12, FailEnds DEF RefusePresent, DeviceFails
<1>13. CASE Access
  BY <1>13, Routes DEF Access, AccessDue
<1>14. CASE Leave \/ Retarget \/ FreeTexture
  BY <1>14, Routes DEF Leave, Retarget, FreeTexture
<1>15. CASE UNCHANGED vars
  BY <1>15 DEF vars
<1> QED BY <1>1, <1>2, <1>3, <1>4, <1>5, <1>6, <1>7, <1>8, <1>9, <1>10, <1>11, <1>12,
     <1>13, <1>14, <1>15 DEF Next, Thread

-----------------------------------------------------------------------------

(* Commands that are no PRESENT leave the pending one alone.               *)
LEMMA PresentKept ==
  ASSUME TypeInv, OnePresent, UNCHANGED <<done, presentVars>>,
         NEW kind, NEW ops, kind # "present",
         UNCHANGED log \/ Push(kind, ops)
  PROVE  OnePresent'
<1>1. CASE UNCHANGED log
  BY <1>1 DEF OnePresent, InFlightPresents, InFlight, presentVars
<1>2. CASE Push(kind, ops)
  <2>1. log' = Append(log, [kind |-> kind, ops |-> ops])
    BY <1>2 DEF Push, Command
  <2>2. log \in Seq([kind : CommandKinds, ops : Seq(Op)]) /\ done \in Nat
    BY DEF TypeInv, TypeOK
  <2>3. InFlightPresents' \subseteq InFlightPresents
    BY <2>1, <2>2 DEF InFlightPresents, InFlight
  <2> QED BY <2>3 DEF OnePresent, presentVars
<1> QED BY <1>1, <1>2

\* Every step keeps that PRESENT is pushed after the one before.
LEMMA PresentStep == TypeInv /\ PresentInv /\ [Next]_vars => PresentInv'
<1> SUFFICES ASSUME TypeInv, PresentInv, [Next]_vars PROVE PresentInv'
  OBVIOUS
<1> USE DEF batchVars, presentVars, sdlVars
<1> DEFINE Quiet == UNCHANGED <<log, done, presentPending, presentIndex>>
           Going == /\ pc \in {"flushFills", "flushDraws", "access", "push"}
                    /\ call.kind = "present"
<1>1. Quiet => OnePresent'
  BY DEF PresentInv, OnePresent, InFlightPresents, InFlight
<1>2. ASSUME UNCHANGED <<presentPending, call>>, Advance, pc # "waitPresent",
             pc \notin {"idle", "overrun"}
      PROVE  Going' => ~presentPending'
  BY <1>2, Routes DEF PresentInv
<1>3. CASE Sdl
  BY <1>1, <1>3, SdlStep, Starts DEF Started, PresentInv
<1>4. CASE Skip
  <2>1. pc \notin {"idle", "overrun"} /\ Advance /\ UNCHANGED <<presentPending, call>>
    BY <1>4 DEF Skip, FlushStages
  <2>2. CASE pc = "waitPresent"
    BY <1>1, <1>4, <2>2 DEF Skip, WaitDue, PresentInv
  <2> QED BY <1>1, <1>2, <1>4, <2>1, <2>2 DEF Skip, PresentInv
<1>5. CASE WaitPresent
  <2>1. /\ UNCHANGED <<log, done, presentIndex, call>> /\ ~presentPending'
        /\ done >= presentIndex
    BY <1>5 DEF WaitPresent
  <2>2. InFlightPresents' = {}
    BY <2>1 DEF PresentInv, OnePresent, InFlightPresents, InFlight, TypeInv, TypeOK
  <2> QED BY <2>1, <2>2 DEF PresentInv, OnePresent
<1>6. CASE Execute
  BY <1>6 DEF Execute, PresentInv, OnePresent, InFlightPresents, InFlight,
     TypeInv, TypeOK
<1>7. ASSUME NEW kind, NEW ops, kind # "present", Push(kind, ops), Advance,
             UNCHANGED <<done, presentVars, call>>, pc # "waitPresent",
             pc \notin {"idle", "overrun"}
      PROVE  PresentInv'
  BY <1>2, <1>7, PresentKept DEF PresentInv
<1>8. ASSUME NEW kind, Stall(kind) PROVE PresentInv'
  BY <1>1, <1>8 DEF Stall, PresentInv
<1>9. CASE FlushFills
  BY <1>7, <1>8, <1>9 DEF FlushFills, FillsDue
<1>10. CASE FlushDraws
  BY <1>7, <1>8, <1>10 DEF FlushDraws, DrawsDue
<1>11. CASE PushSingle
  BY <1>7, <1>8, <1>11 DEF PushSingle
<1>12. CASE PushPresent
  <2>1. InFlightPresents = {} /\ pc' = "idle"
    BY <1>12 DEF PushPresent, PresentInv, OnePresent, Advance, After
  <2>2. log' = Append(log, [kind |-> "present", ops |-> <<call.op>>])
    BY <1>12 DEF PushPresent, Push, Command
  <2>3. log \in Seq([kind : CommandKinds, ops : Seq(Op)]) /\ done \in Nat
    BY DEF TypeInv, TypeOK
  <2>4. InFlightPresents' \subseteq {Len(log')}
    BY <1>12, <2>1, <2>2, <2>3 DEF PushPresent, InFlightPresents, InFlight
  <2> QED BY <1>12, <2>1, <2>4 DEF PushPresent, PresentInv, OnePresent
<1>13. CASE RefusePresent \/ DeviceFails
  BY <1>1, <1>13, FailEnds DEF RefusePresent, DeviceFails, PresentInv
<1>14. CASE AppendFill \/ AppendDraw \/ Access \/ Leave \/ Retarget \/ FreeTexture
  <2>1. pc \notin {"idle", "overrun", "waitPresent"} /\ Advance
    BY <1>14 DEF AppendFill, AppendDraw, Access, AccessDue, Leave, Retarget, FreeTexture
  <2>2. Quiet /\ UNCHANGED call
    BY <1>14 DEF AppendFill, AppendDraw, Access, Leave, Retarget, FreeTexture
  <2> QED BY <1>1, <1>2, <2>1, <2>2 DEF PresentInv
<1>15. CASE WaitProgress \/ Overrun
  BY <1>1, <1>15 DEF WaitProgress, Overrun, PresentInv
<1>16. CASE UNCHANGED vars
  BY <1>1, <1>16 DEF vars, PresentInv
<1> QED BY <1>3, <1>4, <1>5, <1>6, <1>9, <1>10, <1>11, <1>12, <1>13, <1>14, <1>15,
     <1>16 DEF Next, Thread

-----------------------------------------------------------------------------

\* Every step keeps that the next operation fits the batch.
LEMMA TargetStep ==
  TypeInv /\ FlushInv /\ TargetInv /\ [Next]_vars => TargetInv'
<1> SUFFICES ASSUME TypeInv, FlushInv, TargetInv, [Next]_vars PROVE TargetInv'
  OBVIOUS
<1> USE DEF TargetInv, OneBatch, batchVars, presentVars, sdlVars
<1>0. fills \in Seq(Op) /\ draws \in Seq(Op) /\ call.op \in Op
  BY DEF TypeInv, TypeOK, Call
<1>1. CASE Sdl
  BY <1>1, SdlStep, Starts DEF Started
<1>2. CASE Skip
  <2>1. pc \notin {"idle", "overrun"} /\ Advance
    BY <1>2 DEF Skip, FlushStages
  <2> QED BY <1>2, <2>1, Routes DEF Skip, FillsDue, DrawsDue
<1>3. CASE WaitPresent
  <2>1. pc \notin {"idle", "overrun"} /\ Advance /\ pc \in {"waitPresent", "backBuffer"}
    BY <1>3 DEF WaitPresent, WaitDue
  <2> QED BY <1>3, <2>1, Routes DEF WaitPresent
<1>4. CASE WaitProgress \/ Execute
  BY <1>4 DEF WaitProgress, Execute
<1>5. CASE FlushFills
  <2>1. CASE Stall("fillBatch")
    BY <2>1 DEF Stall
  <2>2. CASE Push("fillBatch", fills) /\ Advance /\ ~Stall("fillBatch")
    BY <1>5, <2>2, Routes DEF FlushFills, FillsDue
  <2> QED BY <1>5, <2>1, <2>2 DEF FlushFills
<1>6. CASE FlushDraws
  <2>1. CASE Stall("drawBatch")
    BY <2>1 DEF Stall
  <2>2. CASE Push("drawBatch", draws) /\ Advance /\ ~Stall("drawBatch")
    BY <1>6, <2>2, Routes DEF FlushDraws, DrawsDue
  <2> QED BY <1>6, <2>1, <2>2 DEF FlushDraws
<1>7. CASE AppendFill
  <2>1. draws' = <<>> /\ drawTarget' = drawTarget
    BY <1>7 DEF AppendFill, FlushInv
  <2>2. \A i \in DOMAIN fills' : fills'[i].target = fillTarget'
    BY <1>0, <1>7 DEF AppendFill
  <2> QED BY <1>7, <2>1, <2>2, Routes DEF AppendFill
<1>8. CASE AppendDraw
  <2>1. fills' = <<>> /\ fillTarget' = fillTarget
    BY <1>8 DEF AppendDraw, FlushInv
  <2>2. \A i \in DOMAIN draws' : draws'[i].target = drawTarget'
    BY <1>0, <1>8 DEF AppendDraw
  <2> QED BY <1>8, <2>1, <2>2, Routes DEF AppendDraw
<1>9. CASE Overrun
  BY <1>9 DEF Overrun
<1>10. CASE PushSingle
  <2>1. CASE Stall("single")
    BY <2>1 DEF Stall
  <2>2. CASE Push("single", <<call.op>>) /\ Advance /\ ~Stall("single")
    BY <1>10, <2>2, Routes DEF PushSingle
  <2> QED BY <1>10, <2>1, <2>2 DEF PushSingle
<1>11. CASE PushPresent
  BY <1>11, Routes DEF PushPresent
<1>12. CASE RefusePresent \/ DeviceFails
  BY <1>12, FailEnds DEF RefusePresent, DeviceFails
<1>13. CASE Access
  BY <1>13, Routes DEF Access, AccessDue
<1>14. CASE Leave \/ Retarget \/ FreeTexture
  BY <1>14, StageKinds DEF Leave, Retarget, FreeTexture
<1>15. CASE UNCHANGED vars
  BY <1>15 DEF vars
<1> QED BY <1>1, <1>2, <1>3, <1>4, <1>5, <1>6, <1>7, <1>8, <1>9, <1>10, <1>11, <1>12,
     <1>13, <1>14, <1>15 DEF Next, Thread

-----------------------------------------------------------------------------

(* Everything queued stays below what is issued next.                      *)
AllBelow(n) ==
  (\A i \in DOMAIN log : Below(log[i].ops, n)) /\ Below(fills, n) /\ Below(draws, n)

(* A command pushed behind everything in the ring, and not overtaking what *)
(* stays in the pending batches, keeps the order.                          *)
LEMMA PushKeepsOrder ==
  ASSUME TypeInv, InOrder, AllBelow(issued + 1),
         NEW kind, NEW ops \in Seq(Op), Push(kind, ops), issued' = issued,
         Increasing(ops), Below(ops, issued + 1),
         \A i \in DOMAIN log : Precedes(log[i].ops, ops),
         fills' \in {fills, <<>>}, draws' \in {draws, <<>>},
         Precedes(ops, fills'), Precedes(ops, draws')
  PROVE  InOrder' /\ AllBelow(issued + 1)'
<1>1. log' = Append(log, [kind |-> kind, ops |-> ops])
  BY DEF Push, Command
<1>2. log \in Seq([kind : CommandKinds, ops : Seq(Op)])
  BY DEF TypeInv, TypeOK
<1>3. /\ DOMAIN log' = 1 .. Len(log) + 1 /\ DOMAIN log = 1 .. Len(log) /\ Len(log) \in Nat
      /\ \A i \in DOMAIN log : log'[i] = log[i]
      /\ log'[Len(log) + 1].ops = ops
  BY <1>1, <1>2
<1>4. Precedes(<<>>, <<>>) /\ Increasing(<<>>) /\ \A n : Below(<<>>, n)
  BY DEF Precedes, Increasing, Below
<1>5. \A a : Precedes(a, <<>>)
  BY DEF Precedes
<1>6. Increasing(fills') /\ Increasing(draws')
  BY <1>4 DEF InOrder
<1>7. \A i \in DOMAIN log : /\ Increasing(log[i].ops)
                            /\ Precedes(log[i].ops, fills')
                            /\ Precedes(log[i].ops, draws')
  BY <1>5 DEF InOrder
<1>8. \A i, j \in DOMAIN log' : i < j => Precedes(log'[i].ops, log'[j].ops)
  <2> SUFFICES ASSUME NEW i \in DOMAIN log', NEW j \in DOMAIN log', i < j
               PROVE  Precedes(log'[i].ops, log'[j].ops)
    OBVIOUS
  <2>1. i \in DOMAIN log
    BY <1>3
  <2>2. CASE j \in DOMAIN log
    BY <1>3, <2>1, <2>2 DEF InOrder
  <2>3. CASE j = Len(log) + 1
    BY <1>3, <2>1, <2>3
  <2> QED BY <1>3, <2>2, <2>3
<1>9. \A i \in DOMAIN log' : /\ Increasing(log'[i].ops)
                             /\ Precedes(log'[i].ops, fills')
                             /\ Precedes(log'[i].ops, draws')
                             /\ Below(log'[i].ops, issued + 1)
  <2> SUFFICES ASSUME NEW i \in DOMAIN log'
               PROVE  /\ Increasing(log'[i].ops)
                      /\ Precedes(log'[i].ops, fills')
                      /\ Precedes(log'[i].ops, draws')
                      /\ Below(log'[i].ops, issued + 1)
    OBVIOUS
  <2>1. CASE i \in DOMAIN log
    BY <1>3, <1>7, <2>1 DEF AllBelow
  <2>2. CASE i = Len(log) + 1
    BY <1>3, <2>2
  <2> QED BY <1>3, <2>1, <2>2
<1>10. InOrder'
  BY <1>6, <1>8, <1>9 DEF InOrder, Increasing, Precedes
<1>11. Below(fills', issued + 1) /\ Below(draws', issued + 1)
  BY <1>4 DEF AllBelow
<1> QED BY <1>9, <1>10, <1>11 DEF AllBelow, Below

(* An operation newer than everything queued joins the end of a batch.     *)
LEMMA AppendKeepsOrder ==
  ASSUME NEW ops \in Seq(Op), NEW op \in Op, Increasing(ops), Below(ops, op.id)
  PROVE  /\ Increasing(Append(ops, op)) /\ Below(Append(ops, op), op.id + 1)
         /\ \A a : Precedes(a, ops) /\ Below(a, op.id) => Precedes(a, Append(ops, op))
<1> DEFINE new == Append(ops, op)
<1>1. /\ DOMAIN new = 1 .. Len(ops) + 1 /\ DOMAIN ops = 1 .. Len(ops) /\ Len(ops) \in Nat
      /\ \A i \in DOMAIN ops : new[i] = ops[i] /\ ops[i].id \in Nat
      /\ new[Len(ops) + 1] = op /\ op.id \in Nat
  <2>1. \A o \in Op : o.id \in Nat
    BY DEF Op
  <2>2. \A i \in DOMAIN ops : ops[i] \in Op
    OBVIOUS
  <2> QED BY <2>1, <2>2
<1> HIDE DEF new
<1>2. Increasing(new)
  BY <1>1 DEF Increasing, Below
<1>3. Below(new, op.id + 1)
  BY <1>1 DEF Below
<1>4. ASSUME NEW a, Precedes(a, ops), Below(a, op.id) PROVE Precedes(a, new)
  BY <1>1, <1>4 DEF Precedes, Below
<1> QED BY <1>2, <1>3, <1>4 DEF new

-----------------------------------------------------------------------------

\* The elements of a sequence have its type.
LEMMA Elements == \A T : \A s \in Seq(T) : \A i \in DOMAIN s : s[i] \in T
OBVIOUS

\* The commands in the ring hold sequences of operations.
LEMMA LogOps == ASSUME TypeInv PROVE \A i \in DOMAIN log : log[i].ops \in Seq(Op)
<1>1. log \in Seq([kind : CommandKinds, ops : Seq(Op)])
  BY DEF TypeInv, TypeOK
<1>2. \A i \in DOMAIN log : log[i] \in [kind : CommandKinds, ops : Seq(Op)]
  BY ONLY <1>1, Elements
<1> QED BY <1>2

\* Operations are numbered by naturals.
LEMMA OpIds == \A ops \in Seq(Op) : \A j \in DOMAIN ops : ops[j].id \in Nat
<1>1. \A o \in Op : o.id \in Nat
  BY DEF Op
<1> QED BY <1>1, Elements

\* Every step keeps ring and batch in issue order.
LEMMA OrderStep ==
  TypeInv /\ FlushInv /\ TargetInv /\ OrderInv /\ [Next]_vars => OrderInv'
<1> SUFFICES ASSUME TypeInv, FlushInv, TargetInv, OrderInv, [Next]_vars
             PROVE  OrderInv'
  OBVIOUS
<1> USE DEF batchVars, presentVars, sdlVars
<1>0. /\ fills \in Seq(Op) /\ draws \in Seq(Op) /\ call.op \in Op
      /\ call.op.id \in Nat /\ issued \in Nat
  BY DEF TypeInv, TypeOK, Call, Op
<1>1. InOrder /\ AllBelow(issued + 1)
      /\ (Unqueued => call.op.id = issued /\ AllBelow(issued))
  BY DEF OrderInv, AllBelow
<1>2. ASSUME InOrder', AllBelow(issued + 1)',
             Unqueued' => call'.op.id = issued' /\ AllBelow(issued)'
      PROVE  OrderInv'
  BY <1>2 DEF OrderInv, AllBelow, Below
<1> DEFINE Kept == UNCHANGED <<log, fills, draws, issued, call>>
\* A step that queues nothing and reaches no new stage of an unqueued operation.
<1>3. ASSUME Kept, Unqueued' => Unqueued PROVE OrderInv'
  <2>1. InOrder' /\ AllBelow(issued + 1)'
    BY <1>1, <1>3 DEF InOrder, Increasing, Precedes, AllBelow, Below
  <2>2. Unqueued' => call'.op.id = issued' /\ AllBelow(issued)'
    BY <1>1, <1>3 DEF AllBelow, Below
  <2> QED BY <1>2, <2>1, <2>2
<1>4. Advance /\ pc \in {"fullFills", "fullDraws"} => pc' = "idle"
  <2>1. call.kind \in CallKinds
    BY DEF TypeInv, TypeOK, Call
  <2> QED BY StageKinds DEF Advance, After
<1>5. ASSUME Advance, UNCHANGED call, pc # "idle" PROVE Unqueued' => Unqueued
  BY <1>4, <1>5 DEF Unqueued
<1>6. CASE Sdl
  <2>1. CASE UNCHANGED <<log, done, batchVars, presentVars, target, issued, call, pc>>
    BY <1>3, <2>1 DEF Unqueued
  <2>2. ASSUME NEW kind \in CallKinds, NEW t \in Surfaces, Started(kind, t)
        PROVE  OrderInv'
    <3>1. UNCHANGED <<log, fills, draws>> /\ issued' \in {issued, issued + 1}
      BY <2>2 DEF Started
    <3>2. InOrder'
      BY <1>1, <3>1 DEF InOrder, Increasing, Precedes
    <3>3. /\ \A ops \in Seq(Op) : \A j \in DOMAIN ops : ops[j].id \in Nat
          /\ \A i \in DOMAIN log : log[i].ops \in Seq(Op)
      BY LogOps, OpIds
    <3>4. AllBelow(issued + 1)'
      <4>1. ASSUME NEW ops \in Seq(Op), Below(ops, issued + 1)
            PROVE  Below(ops, issued' + 1)
        BY <1>0, <3>1, <3>3, <4>1 DEF Below
      <4> QED BY <1>0, <1>1, <3>1, <3>3, <4>1 DEF AllBelow, Below
    <3>5. Unqueued' => call'.op.id = issued' /\ AllBelow(issued)'
      <4>1. Unqueued' => issued' = issued + 1
        BY <2>2 DEF Started, Unqueued
      <4> QED BY <1>1, <2>2, <3>1, <4>1 DEF Started, AllBelow, Below
    <3> QED BY <1>2, <3>2, <3>4, <3>5
  <2> QED BY <1>6, <2>1, <2>2, SdlStep
<1>7. CASE Skip \/ WaitPresent \/ Access \/ Leave \/ Retarget \/ FreeTexture
  <2>1. Advance /\ Kept /\ pc # "idle"
    BY <1>7 DEF Skip, FlushStages, WaitPresent, WaitDue, Access, AccessDue, Leave,
       Retarget, FreeTexture
  <2> QED BY <1>3, <1>5, <2>1
<1>8. CASE WaitProgress \/ Execute
  BY <1>3, <1>8 DEF WaitProgress, Execute, Unqueued
<1>9. CASE Overrun
  BY <1>3, <1>9 DEF Overrun, Unqueued
<1>10. ASSUME NEW kind, Stall(kind) PROVE OrderInv'
  BY <1>3, <1>10 DEF Stall, Unqueued
<1>11. CASE RefusePresent \/ DeviceFails
  <2>1. Kept /\ (pc' = "idle" \/ call.kind = "destroy")
    BY <1>11, FailEnds DEF RefusePresent, DeviceFails
  <2>2. ~Unqueued'
    BY <2>1 DEF Unqueued, IssuingKinds
  <2> QED BY <1>3, <2>1, <2>2
<1>12. Precedes(fills, <<>>) /\ Precedes(draws, <<>>)
       /\ (\A i \in DOMAIN log : Precedes(log[i].ops, fills)
                                /\ Precedes(log[i].ops, draws))
       /\ Increasing(fills) /\ Increasing(draws)
       /\ Below(fills, issued + 1) /\ Below(draws, issued + 1)
  BY <1>1 DEF InOrder, Precedes, AllBelow
<1>13. Precedes(fills, draws) /\ Precedes(draws, fills)
  BY DEF TargetInv, OneBatch, Precedes
<1>14. CASE FlushFills
  <2>1. CASE Push("fillBatch", fills) /\ fills' = <<>> /\ draws' = draws /\ Advance
             /\ UNCHANGED <<issued, call>>
    <3>1. InOrder' /\ AllBelow(issued + 1)'
      BY <1>0, <1>1, <1>12, <1>13, <2>1, PushKeepsOrder
    <3>2. Unqueued' => Unqueued
      BY <1>5, <1>14, <2>1 DEF FlushFills, FillsDue
    <3>3. ASSUME Unqueued PROVE AllBelow(issued)'
      <4>1. \A i \in DOMAIN log' : Below(log'[i].ops, issued)
        <5>1. log' = Append(log, [kind |-> "fillBatch", ops |-> fills])
          BY <2>1 DEF Push, Command
        <5>2. log \in Seq([kind : CommandKinds, ops : Seq(Op)])
          BY DEF TypeInv, TypeOK
        <5> QED BY <1>1, <3>3, <5>1, <5>2 DEF AllBelow
      <4> QED BY <1>1, <2>1, <3>3, <4>1 DEF AllBelow, Below
    <3> QED BY <1>1, <1>2, <2>1, <3>1, <3>2, <3>3
  <2> QED BY <1>10, <1>14, <2>1 DEF FlushFills
<1>15. CASE FlushDraws
  <2>1. CASE Push("drawBatch", draws) /\ draws' = <<>> /\ fills' = fills /\ Advance
             /\ UNCHANGED <<issued, call>>
    <3>1. InOrder' /\ AllBelow(issued + 1)'
      BY <1>0, <1>1, <1>12, <1>13, <2>1, PushKeepsOrder
    <3>2. Unqueued' => Unqueued
      BY <1>5, <1>15, <2>1 DEF FlushDraws, DrawsDue
    <3>3. ASSUME Unqueued PROVE AllBelow(issued)'
      <4>1. \A i \in DOMAIN log' : Below(log'[i].ops, issued)
        <5>1. log' = Append(log, [kind |-> "drawBatch", ops |-> draws])
          BY <2>1 DEF Push, Command
        <5>2. log \in Seq([kind : CommandKinds, ops : Seq(Op)])
          BY DEF TypeInv, TypeOK
        <5> QED BY <1>1, <3>3, <5>1, <5>2 DEF AllBelow
      <4> QED BY <1>1, <2>1, <3>3, <4>1 DEF AllBelow, Below
    <3> QED BY <1>1, <1>2, <2>1, <3>1, <3>2, <3>3
  <2> QED BY <1>10, <1>15, <2>1 DEF FlushDraws
<1>16. ASSUME pc = "append" \/ pc = "push", call.kind \in IssuingKinds
       PROVE  call.op.id = issued /\ AllBelow(issued)
  BY <1>1, <1>16 DEF Unqueued
<1>17. CASE AppendFill
  <2>1. /\ pc = "append" /\ call.kind = "fill" /\ fills' = Append(fills, call.op)
        /\ UNCHANGED <<log, draws, issued, call>> /\ pc' = "fullFills"
    BY <1>17 DEF AppendFill, Advance, After
  <2>2. call.op.id = issued /\ AllBelow(issued)
    BY <1>16, <2>1 DEF IssuingKinds
  <2>3. /\ Increasing(fills') /\ Below(fills', issued + 1)
        /\ \A a : Precedes(a, fills) /\ Below(a, issued) => Precedes(a, fills')
    BY <1>0, <1>12, <2>1, <2>2, AppendKeepsOrder DEF AllBelow
  <2>4. InOrder'
    BY <1>1, <2>1, <2>2, <2>3 DEF InOrder, AllBelow, Increasing, Precedes
  <2>5. AllBelow(issued + 1)' /\ ~Unqueued'
    BY <1>1, <2>1, <2>3 DEF AllBelow, Below, Unqueued
  <2> QED BY <1>2, <2>4, <2>5
<1>18. CASE AppendDraw
  <2>1. /\ pc = "append" /\ call.kind = "draw" /\ draws' = Append(draws, call.op)
        /\ UNCHANGED <<log, fills, issued, call>> /\ pc' = "fullDraws"
    BY <1>18 DEF AppendDraw, Advance, After
  <2>2. call.op.id = issued /\ AllBelow(issued)
    BY <1>16, <2>1 DEF IssuingKinds
  <2>3. /\ Increasing(draws') /\ Below(draws', issued + 1)
        /\ \A a : Precedes(a, draws) /\ Below(a, issued) => Precedes(a, draws')
    BY <1>0, <1>12, <2>1, <2>2, AppendKeepsOrder DEF AllBelow
  <2>4. InOrder'
    BY <1>1, <2>1, <2>2, <2>3 DEF InOrder, AllBelow, Increasing, Precedes
  <2>5. AllBelow(issued + 1)' /\ ~Unqueued'
    BY <1>1, <2>1, <2>3 DEF AllBelow, Below, Unqueued
  <2> QED BY <1>2, <2>4, <2>5
<1>19. ASSUME NEW kind, Push(kind, <<call.op>>), pc = "push", Advance,
              UNCHANGED <<fills, draws, issued, call>>
       PROVE  OrderInv'
  <2>1. call.kind \in IssuingKinds /\ fills = <<>> /\ draws = <<>> /\ pc' = "idle"
    BY <1>19, StageKinds DEF FlushInv, IssuingKinds, Advance, After
  <2>2. call.op.id = issued /\ AllBelow(issued)
    BY <1>16, <1>19, <2>1
  <2>3. <<call.op>> \in Seq(Op) /\ Increasing(<<call.op>>)
        /\ Below(<<call.op>>, issued + 1)
    BY <1>0, <2>2 DEF Increasing, Below
  <2>4. \A i \in DOMAIN log : Precedes(log[i].ops, <<call.op>>)
    BY <2>2 DEF AllBelow, Below, Precedes
  <2>5. Precedes(<<call.op>>, fills') /\ Precedes(<<call.op>>, draws')
    BY <1>19, <2>1 DEF Precedes
  <2>6. InOrder' /\ AllBelow(issued + 1)'
    BY <1>1, <1>19, <2>1, <2>3, <2>4, <2>5, PushKeepsOrder
  <2>7. ~Unqueued'
    BY <2>1 DEF Unqueued
  <2> QED BY <1>2, <2>6, <2>7
<1>20. CASE PushSingle
  BY <1>10, <1>19, <1>20 DEF PushSingle
<1>21. CASE PushPresent
  BY <1>19, <1>21 DEF PushPresent
<1>22. CASE UNCHANGED vars
  BY <1>3, <1>22 DEF vars, Unqueued
<1> QED BY <1>6, <1>7, <1>8, <1>9, <1>11, <1>14, <1>15, <1>17, <1>18, <1>20, <1>21,
     <1>22 DEF Next, Thread

-----------------------------------------------------------------------------

\* A new renderer's queue is empty.
LEMMA InitQueue == Init => QueueInv
<1> SUFFICES ASSUME Init PROVE QueueInv
  OBVIOUS
<1> USE DEF Init
<1>1. PresentInv
  BY DEF PresentInv, OnePresent, InFlightPresents, InFlight
<1>2. FlushInv /\ TargetInv
  BY DEF FlushInv, TargetInv, OneBatch
<1>3. OrderInv
  BY DEF OrderInv, InOrder, Increasing, Precedes, Below, Unqueued
<1> QED BY <1>1, <1>2, <1>3 DEF QueueInv

\* The inductive invariant, from which the theorems below follow.
LEMMA QueueInvariant == Spec => []QueueInv
<1>1. Init => TypeInv /\ QueueInv
  BY InitType, InitQueue
<1>2. TypeInv /\ QueueInv /\ [Next]_vars => TypeInv' /\ QueueInv'
  BY TypeStep, PresentStep, FlushStep, TargetStep, OrderStep DEF QueueInv
<1> QED BY <1>1, <1>2, PTL DEF Spec

(* Whatever the sizes of batches, ring and tables, and however many device *)
(* calls fail, the ring followed by the pending batch holds the operations *)
(* in the order SDL issued them and none of them twice (SubmitFill,        *)
(* SubmitBlendFill, SubmitDraw, FlushFills, FlushDraws).                   *)
THEOREM OrderKept == Spec => []InOrder
<1>1. QueueInv => InOrder
  BY DEF QueueInv, OrderInv
<1> QED BY <1>1, QueueInvariant, PTL

(* A pending batch never mixes targets, and fills never wait together with *)
(* copies, also after a flush has failed (SubmitFill, SubmitDraw).         *)
THEOREM BatchesHomogeneous == Spec => []OneBatch
<1>1. QueueInv => OneBatch
  BY DEF QueueInv, TargetInv
<1> QED BY <1>1, QueueInvariant, PTL

(* present_pending covers the only PRESENT that may be in the ring, also   *)
(* when waits for it fail (RenderPresent, NOODLES_WaitPresent).            *)
THEOREM PresentsNeverOverlap == Spec => []OnePresent
<1>1. QueueInv => OnePresent
  BY DEF QueueInv, PresentInv
<1> QED BY <1>1, QueueInvariant, PTL

-----------------------------------------------------------------------------
(***************************************************************************)
(* No operation is lost.                                                   *)
(***************************************************************************)

(* An operation that has joined a batch about to be flushed for being full *)
(* is queued.                                                              *)
LostInv ==
  /\ NothingLost
  /\ call.kind \in IssuingKinds /\ pc \in {"fullFills", "fullDraws"} => call.op.id \in Queued

(* Pushing a batch or an operation loses none of those queued.             *)
LEMMA PushKeepsQueued ==
  ASSUME TypeInv, NEW kind, NEW ops \in Seq(Op), Push(kind, ops),
         \/ fills' = fills /\ draws' = draws
         \/ fills' = <<>> /\ draws' = draws /\ ops = fills
         \/ fills' = fills /\ draws' = <<>> /\ ops = draws
  PROVE  Queued \cup IdsOf(ops) \subseteq Queued'
<1>1. log' = Append(log, [kind |-> kind, ops |-> ops])
  BY DEF Push, Command
<1>2. log \in Seq([kind : CommandKinds, ops : Seq(Op)])
  BY DEF TypeInv, TypeOK
<1>3. /\ DOMAIN log \subseteq DOMAIN log' /\ \A i \in DOMAIN log : log'[i] = log[i]
      /\ Len(log) + 1 \in DOMAIN log' /\ log'[Len(log) + 1].ops = ops
  BY <1>1, <1>2
<1>4. (UNION {IdsOf(log[i].ops) : i \in DOMAIN log}) \cup IdsOf(ops)
        \subseteq UNION {IdsOf(log'[i].ops) : i \in DOMAIN log'}
  BY <1>3
<1>5. Queued' = (UNION {IdsOf(log'[i].ops) : i \in DOMAIN log'}) \cup IdsOf(fills') \cup IdsOf(draws')
  BY DEF Queued, IdsOf
<1> QED BY <1>4, <1>5 DEF Queued

(* Joining a batch queues the operation.                                   *)
LEMMA AppendIds ==
  ASSUME NEW ops \in Seq(Op), NEW op
  PROVE  IdsOf(Append(ops, op)) = IdsOf(ops) \cup {op.id}
<1>1. /\ DOMAIN Append(ops, op) = DOMAIN ops \cup {Len(ops) + 1}
      /\ \A i \in DOMAIN ops : Append(ops, op)[i] = ops[i]
      /\ Append(ops, op)[Len(ops) + 1] = op
  OBVIOUS
<1> QED BY <1>1 DEF IdsOf

(* Which callbacks end where.                                              *)
LEMMA Ends ==
  ASSUME TypeInv, Advance, pc \notin {"idle", "overrun"}, pc' = "idle",
         call.kind \in IssuingKinds
  PROVE  pc \in {"fullFills", "fullDraws", "push"}
<1>1. call.kind \in CallKinds /\ pc \in DOMAIN After[call.kind] \ {"start"}
  BY DEF TypeInv, TypeOK, StageOK, Call
<1> QED BY <1>1 DEF Advance, After, IssuingKinds

\* Every step keeps sight of what was issued.
LEMMA LostStep == TypeInv /\ OrderInv /\ LostInv /\ [Next]_vars => LostInv'
<1> SUFFICES ASSUME TypeInv, OrderInv, LostInv, [Next]_vars PROVE LostInv'
  OBVIOUS
<1> USE DEF batchVars, presentVars, sdlVars
<1>0. issued \in Nat /\ fills \in Seq(Op) /\ draws \in Seq(Op) /\ call.op \in Op
  BY DEF TypeInv, TypeOK, Call
\* A step inside a callback, or one that ends it.
<1>1. ASSUME issued' = issued, call' = call, dropped \subseteq dropped', Queued \subseteq Queued',
             pc # "idle",
             /\ call.kind \in IssuingKinds /\ pc' = "idle"
                  => call.op.id \in Queued' \cup dropped'
             /\ call.kind \in IssuingKinds /\ pc' \in {"fullFills", "fullDraws"}
                  => call.op.id \in Queued'
      PROVE  LostInv'
  BY <1>1 DEF LostInv, NothingLost, Serving
<1>2. ASSUME UNCHANGED <<issued, call, dropped, pc, log, fills, draws>>
      PROVE  LostInv'
  BY <1>2 DEF LostInv, NothingLost, Serving, Queued, IdsOf
<1>3. UNCHANGED <<log, fills, draws>> => Queued' = Queued
  BY DEF Queued, IdsOf
<1>4. CASE Sdl
  <2>1. CASE UNCHANGED <<log, done, batchVars, presentVars, target, issued, call, pc>>
    <3>1. dropped' = dropped
      BY <1>4, <2>1 DEF Sdl, BeginQueue, SubmitFill, SubmitBlendFill, SubmitDraw, Fallback,
         EndQueue, SetRenderTarget, UpdateTexture, RenderReadPixels, DestroyTexture,
         RenderPresent, Issue, Ask
    <3> QED BY <1>2, <2>1, <3>1
  <2>2. ASSUME NEW kind \in CallKinds, NEW t \in Surfaces, Started(kind, t)
        PROVE  LostInv'
    <3>1. dropped' = dropped
      BY <1>4 DEF Sdl, BeginQueue, SubmitFill, SubmitBlendFill, SubmitDraw, Fallback,
         EndQueue, SetRenderTarget, UpdateTexture, RenderReadPixels, DestroyTexture,
         RenderPresent, Issue, Ask
    <3>2. Queued' = Queued
      BY <1>3, <2>2 DEF Started
    <3>3. \A n \in 1 .. issued : n \in Queued \/ n \in dropped
      BY <2>2 DEF Started, LostInv, NothingLost, Serving
    <3>4. pc' \notin {"idle", "fullFills", "fullDraws"}
      BY <2>2, Starts DEF Started
    <3>5. CASE kind \in IssuingKinds
      <4>1. issued' = issued + 1 /\ call'.op.id = issued + 1 /\ Serving'
        BY <2>2, <3>4, <3>5 DEF Started, Serving
      <4>2. \A n \in 1 .. issued + 1 : n \in 1 .. issued \/ n = issued + 1
        BY <1>0
      <4> QED BY <3>1, <3>2, <3>3, <3>4, <4>1, <4>2 DEF LostInv, NothingLost
    <3>6. CASE kind \notin IssuingKinds
      BY <2>2, <3>1, <3>2, <3>3, <3>4, <3>6 DEF Started, LostInv, NothingLost
    <3> QED BY <3>5, <3>6
  <2> QED BY <1>4, <2>1, <2>2, SdlStep
<1>5. CASE WaitProgress \/ Execute
  BY <1>2, <1>5 DEF WaitProgress, Execute
<1>6. ASSUME NEW kind, Stall(kind) PROVE LostInv'
  BY <1>2, <1>6 DEF Stall
<1>7. ASSUME Advance, pc \notin {"idle", "overrun", "append", "push", "fullFills", "fullDraws"},
             UNCHANGED <<issued, call, dropped>>, Queued \subseteq Queued'
      PROVE  LostInv'
  BY <1>1, <1>7, Routes, Ends
<1>8. ASSUME Advance, pc \in {"fullFills", "fullDraws"},
             UNCHANGED <<issued, call, dropped>>, Queued \subseteq Queued'
      PROVE  LostInv'
  BY <1>1, <1>8 DEF LostInv
<1>9. CASE Skip \/ WaitPresent \/ Access \/ Leave \/ Retarget \/ FreeTexture
  <2>1. /\ Advance /\ pc \notin {"idle", "overrun", "append", "push"}
        /\ UNCHANGED <<issued, call, dropped, log, fills, draws>>
    BY <1>9 DEF Skip, FlushStages, WaitPresent, WaitDue, Access, AccessDue, Leave,
       Retarget, FreeTexture
  <2> QED BY <1>3, <1>7, <1>8, <2>1
<1>10. CASE FlushFills
  <2>1. CASE Push("fillBatch", fills) /\ fills' = <<>> /\ draws' = draws /\ Advance
             /\ UNCHANGED <<issued, call, dropped>>
    <3>1. Queued \subseteq Queued'
      BY <1>0, <2>1, PushKeepsQueued
    <3>2. pc \notin {"idle", "overrun", "append", "push"}
      BY <1>10 DEF FlushFills, FillsDue
    <3> QED BY <1>7, <1>8, <2>1, <3>1, <3>2
  <2> QED BY <1>6, <1>10, <2>1 DEF FlushFills
<1>11. CASE FlushDraws
  <2>1. CASE Push("drawBatch", draws) /\ draws' = <<>> /\ fills' = fills /\ Advance
             /\ UNCHANGED <<issued, call, dropped>>
    <3>1. Queued \subseteq Queued'
      BY <1>0, <2>1, PushKeepsQueued
    <3>2. pc \notin {"idle", "overrun", "append", "push"}
      BY <1>11 DEF FlushDraws, DrawsDue
    <3> QED BY <1>7, <1>8, <2>1, <3>1, <3>2
  <2> QED BY <1>6, <1>11, <2>1 DEF FlushDraws
<1>12. CASE AppendFill \/ AppendDraw
  <2>1. Queued \cup {call.op.id} \subseteq Queued'
    <3>1. CASE AppendFill
      <4>1. IdsOf(fills') = IdsOf(fills) \cup {call.op.id}
        BY <1>0, <3>1, AppendIds DEF AppendFill
      <4>2. Queued' = (UNION {IdsOf(log[i].ops) : i \in DOMAIN log}) \cup IdsOf(fills') \cup IdsOf(draws)
        BY <3>1 DEF AppendFill, Queued, IdsOf
      <4> QED BY <4>1, <4>2 DEF Queued
    <3>2. CASE AppendDraw
      <4>1. IdsOf(draws') = IdsOf(draws) \cup {call.op.id}
        BY <1>0, <3>2, AppendIds DEF AppendDraw
      <4>2. Queued' = (UNION {IdsOf(log[i].ops) : i \in DOMAIN log}) \cup IdsOf(fills) \cup IdsOf(draws')
        BY <3>2 DEF AppendDraw, Queued, IdsOf
      <4> QED BY <4>1, <4>2 DEF Queued
    <3> QED BY <1>12, <3>1, <3>2
  <2>2. UNCHANGED <<issued, call, dropped>> /\ pc = "append"
    BY <1>12 DEF AppendFill, AppendDraw
  <2> QED BY <1>1, <2>1, <2>2
<1>13. CASE Overrun
  BY <1>1, <1>3, <1>13 DEF Overrun
<1>14. ASSUME NEW kind, Push(kind, <<call.op>>), pc = "push",
              UNCHANGED <<fills, draws, issued, call, dropped>>
       PROVE  LostInv'
  <2>1. <<call.op>> \in Seq(Op) /\ call.op.id \in IdsOf(<<call.op>>)
    BY <1>0 DEF IdsOf
  <2>2. Queued \cup {call.op.id} \subseteq Queued'
    BY <1>14, <2>1, PushKeepsQueued
  <2> QED BY <1>1, <1>14, <2>2
<1>15. CASE PushSingle
  BY <1>6, <1>14, <1>15 DEF PushSingle
<1>16. CASE PushPresent
  BY <1>14, <1>16 DEF PushPresent
<1>17. CASE RefusePresent \/ DeviceFails
  <2>1. UNCHANGED <<issued, call, log, fills, draws>> /\ Fail
        /\ pc \notin {"idle", "overrun"}
    BY <1>17 DEF RefusePresent, DeviceFails, WaitDue, FillsDue, DrawsDue, AccessDue
  <2>2. dropped \subseteq dropped'
        /\ (call.kind \in IssuingKinds => pc' = "idle")
        /\ (call.kind \in IssuingKinds /\ pc \notin {"fullFills", "fullDraws"}
              => call.op.id \in dropped')
    BY <2>1 DEF Fail, IssuingKinds
  <2>3. Queued' = Queued
    BY <1>3, <2>1
  <2>4. call.kind \in IssuingKinds => call.op.id \in Queued' \cup dropped'
    BY <2>2, <2>3 DEF LostInv
  <2> QED BY <1>1, <2>1, <2>2, <2>3, <2>4
<1>18. CASE UNCHANGED vars
  BY <1>2, <1>18 DEF vars
<1> QED BY <1>4, <1>5, <1>9, <1>10, <1>11, <1>12, <1>13, <1>15, <1>16, <1>17, <1>18
     DEF Next, Thread

(* No operation disappears between SDL and the ring, also when flushes and *)
(* pushes fail: it is queued, being served, or reported as failed          *)
(* (FlushFills, FlushDraws, SubmitFill, SubmitDraw, RenderPresent).        *)
THEOREM NothingIsLost == Spec => []NothingLost
<1>1. Init => LostInv
  BY DEF Init, LostInv, NothingLost
<1>2. LostInv => NothingLost
  BY DEF LostInv
<1>3. Spec => []TypeInv
  BY InitType, TypeStep, PTL DEF Spec
<1>4. QueueInv => OrderInv
  BY DEF QueueInv
<1> QED BY <1>1, <1>2, <1>3, <1>4, LostStep, QueueInvariant, PTL DEF Spec

-----------------------------------------------------------------------------
(***************************************************************************)
(* Fences.                                                                 *)
(***************************************************************************)

(* The ring is never over-full, a frame is as short as assumed, and the    *)
(* fences kept are those of the last PRESENT and of the command before it. *)
FenceInv ==
  /\ Len(log) - done <= RingSize
  /\ FrameLength <= FrameMax
  /\ Unqueued /\ call.kind # "present" => FrameLength < FrameMax
  /\ presentPending => /\ presentIndex >= 1
                       /\ presentFence = Fence(presentIndex)
                       /\ presentDrawFence = Fence(presentIndex - 1)

(* A remainder is unique.                                                  *)
LEMMA Remainder ==
  ASSUME NEW m \in Nat \ {0}, NEW q \in Int, NEW r \in 0 .. m - 1
  PROVE  (q * m + r) % m = r
OBVIOUS

(* Of two counts less than half the range apart, the difference of their   *)
(* remainders tells which is ahead.                                        *)
LEMMA WrappedOrder ==
  ASSUME NEW m \in Nat \ {0}, m % 2 = 0, NEW base \in Nat, NEW a \in Nat, NEW b \in Nat,
         a - b < m \div 2, b - a <= m \div 2
  PROVE  (((base + a) % m) - ((base + b) % m)) % m < m \div 2 <=> a >= b
<1> DEFINE x == base + a  y == base + b  r == (x % m) - (y % m)  k == (y \div m) - (x \div m)
           h == m \div 2
<1>1. ASSUME NEW z \in Nat PROVE z = (z \div m) * m + (z % m) /\ z \div m \in Int /\ z % m \in Int
  OBVIOUS
<1>2. x \in Nat /\ y \in Nat
  OBVIOUS
<1>3. x = (x \div m) * m + (x % m) /\ y = (y \div m) * m + (y % m) /\ k \in Int /\ r \in Int
  BY <1>1, <1>2
<1>4. k * m = (y \div m) * m - (x \div m) * m
  BY <1>1, <1>2
<1>5. r = k * m + (a - b)
  BY <1>3, <1>4
<1>6. h \in Nat /\ m = h + h
  OBVIOUS
<1>7. (k - 1) * m = k * m - m
  BY <1>3
<1> HIDE DEF x, y, r, k, h
<1>8. CASE a >= b
  <2>1. a - b \in 0 .. m - 1 /\ a - b < h
    BY <1>6, <1>8 DEF h
  <2>2. r % m = a - b
    BY <1>3, <1>5, <2>1, Remainder
  <2> QED BY <1>8, <2>1, <2>2 DEF r, x, y, h
<1>9. CASE a < b
  <2>1. m + (a - b) \in 0 .. m - 1 /\ m + (a - b) >= h
    BY <1>6, <1>9 DEF h
  <2>2. r = (k - 1) * m + (m + (a - b))
    <3>1. m + (a - b) - m = a - b
      OBVIOUS
    <3> QED BY <1>3, <1>5, <1>7, <3>1
  <2>3. k - 1 \in Int
    BY <1>3
  <2>4. r % m = m + (a - b)
    BY <2>1, <2>2, <2>3, Remainder
  <2> QED BY <1>9, <2>1, <2>4, <1>6 DEF r, x, y, h
<1> QED BY <1>8, <1>9

(* What a push makes of the ring.                                          *)
LEMMA Pushed ==
  ASSUME TypeInv, NEW kind, NEW ops, Push(kind, ops)
  PROVE  Len(log') = Len(log) + 1 /\ Len(log) - done < RingSize
<1>1. log \in Seq([kind : CommandKinds, ops : Seq(Op)])
  BY DEF TypeInv, TypeOK
<1> QED BY <1>1 DEF Push, Room

\* Every step keeps the fences, the ring and the frame.
LEMMA FenceStep ==
  TypeInv /\ PresentInv /\ FlushInv /\ FenceInv /\ [Next]_vars => FenceInv'
<1> SUFFICES ASSUME TypeInv, PresentInv, FlushInv, FenceInv, [Next]_vars PROVE FenceInv'
  OBVIOUS
<1> USE DEF batchVars, presentVars, sdlVars
<1>0. /\ Len(log) \in Nat /\ done \in 0 .. Len(log) /\ presentIndex \in 0 .. Len(log)
      /\ fills \in Seq(Op) /\ draws \in Seq(Op) /\ Len(fills) \in Nat /\ Len(draws) \in Nat
      /\ RingSize \in Nat /\ FrameMax \in Nat
  BY SizesAssumption, FenceAssumption DEF TypeInv, TypeOK
<1>1. ASSUME UNCHANGED <<log, presentPending, presentFence, presentIndex, call, issued>>,
             UNCHANGED presentDrawFence \/ ~presentPending,
             UNCHANGED done \/ done' = done + 1,
             UNCHANGED <<fills, draws>>, Unqueued' => Unqueued
      PROVE  FenceInv'
  BY <1>0, <1>1 DEF FenceInv, FrameLength, Fence
<1>2. ASSUME Advance, UNCHANGED call, pc # "idle" PROVE Unqueued' => Unqueued
  <2>1. pc \in {"fullFills", "fullDraws"} => pc' = "idle"
    <3>1. call.kind \in CallKinds
      BY DEF TypeInv, TypeOK, Call
    <3> QED BY <1>2, <3>1, StageKinds DEF Advance, After
  <2> QED BY <1>2, <2>1 DEF Unqueued
<1>3. CASE Sdl
  <2>1. CASE UNCHANGED <<log, done, batchVars, presentVars, target, issued, call, pc>>
    BY <1>1, <2>1 DEF Unqueued
  <2>2. ASSUME NEW kind \in CallKinds, NEW t \in Surfaces, Started(kind, t)
        PROVE  FenceInv'
    <3>1. kind \in IssuingKinds /\ kind # "present" => FrameLength < FrameMax
      <4>1. pc' # "idle" /\ call'.kind = kind
        BY <2>2, Starts DEF Started
      <4>2. CASE BeginQueue
        BY <2>2, <4>1, <4>2 DEF BeginQueue, Started
      <4>3. CASE SubmitFill \/ SubmitBlendFill \/ SubmitDraw
        BY <4>3 DEF SubmitFill, SubmitBlendFill, SubmitDraw, Issue, MayIssue
      <4>4. CASE \/ Fallback \/ EndQueue \/ SetRenderTarget \/ UpdateTexture
                 \/ RenderReadPixels \/ DestroyTexture
        BY <4>1, <4>4 DEF Fallback, EndQueue, SetRenderTarget, UpdateTexture,
           RenderReadPixels, DestroyTexture, Ask, Start, IssuingKinds
      <4>5. CASE RenderPresent
        BY <4>1, <4>5 DEF RenderPresent, Start
      <4> QED BY <1>3, <4>2, <4>3, <4>4, <4>5 DEF Sdl
    <3> QED BY <2>2, <3>1 DEF Started, FenceInv, FrameLength, Unqueued
  <2> QED BY <1>3, <2>1, <2>2, SdlStep
<1>4. CASE Skip \/ Access \/ Leave \/ Retarget \/ FreeTexture
  <2>1. Advance /\ pc # "idle" /\ UNCHANGED <<log, done, fills, draws, presentVars, call, issued>>
    BY <1>4 DEF Skip, FlushStages, Access, AccessDue, Leave, Retarget, FreeTexture
  <2> QED BY <1>1, <1>2, <2>1
<1>5. CASE WaitPresent
  <2>1. Advance /\ pc # "idle" /\ ~presentPending'
        /\ UNCHANGED <<log, done, fills, draws, presentIndex, call>>
    BY <1>5 DEF WaitPresent, WaitDue
  <2> QED BY <1>2, <2>1 DEF FenceInv, FrameLength
<1>6. CASE WaitProgress \/ Execute
  BY <1>1, <1>6 DEF WaitProgress, Execute, Unqueued
<1>7. CASE Overrun
  BY <1>1, <1>7 DEF Overrun, Unqueued
<1>8. ASSUME NEW kind, Stall(kind) PROVE FenceInv'
  BY <1>1, <1>8 DEF Stall, Unqueued
<1>9. ASSUME NEW kind, NEW ops, Push(kind, ops), Advance, pc # "idle",
             UNCHANGED <<done, presentVars, call>>,
             Len(fills') \in Nat, Len(draws') \in Nat,
             Len(fills') + Len(draws') + 1 <= Len(fills) + Len(draws)
      PROVE  FenceInv'
  <2>1. Len(log') = Len(log) + 1 /\ Len(log) - done < RingSize
    BY <1>9, Pushed
  <2>2. Len(log') - done' <= RingSize
    BY <1>0, <1>9, <2>1
  <2>3. FrameLength' <= FrameLength
    BY <1>0, <1>9, <2>1 DEF FrameLength
  <2>4. FrameLength \in Int /\ FrameLength' \in Int
    BY <1>0, <1>9, <2>1 DEF FrameLength
  <2> QED BY <1>0, <1>2, <1>9, <2>2, <2>3, <2>4 DEF FenceInv, Fence
<1>10. CASE FlushFills
  <2>1. CASE Push("fillBatch", fills) /\ ~Stall("fillBatch")
    <3>1. fills' = <<>> /\ draws' = draws /\ Len(fills) >= 1 /\ pc # "idle"
      BY <1>0, <1>10, <2>1 DEF FlushFills, FillsDue
    <3> QED BY <1>0, <1>9, <1>10, <2>1, <3>1 DEF FlushFills
  <2> QED BY <1>8, <1>10, <2>1 DEF FlushFills
<1>11. CASE FlushDraws
  <2>1. CASE Push("drawBatch", draws) /\ ~Stall("drawBatch")
    <3>1. draws' = <<>> /\ fills' = fills /\ Len(draws) >= 1 /\ pc # "idle"
      BY <1>0, <1>11, <2>1 DEF FlushDraws, DrawsDue
    <3> QED BY <1>0, <1>9, <1>11, <2>1, <3>1 DEF FlushDraws
  <2> QED BY <1>8, <1>11, <2>1 DEF FlushDraws
<1>12. CASE AppendFill \/ AppendDraw
  <2>1. Unqueued /\ call.kind # "present" /\ ~Unqueued'
    BY <1>12, StageKinds DEF AppendFill, AppendDraw, Unqueued, IssuingKinds, Advance, After
  <2>2. Len(fills') + Len(draws') = Len(fills) + Len(draws) + 1
    <3>1. Len(Append(fills, call.op)) = Len(fills) + 1 /\ Len(Append(draws, call.op)) = Len(draws) + 1
      BY <1>0 DEF TypeInv, TypeOK, Call
    <3>2. CASE AppendFill
      BY <1>0, <3>1, <3>2 DEF AppendFill
    <3>3. CASE AppendDraw
      BY <1>0, <3>1, <3>3 DEF AppendDraw
    <3> QED BY <1>12, <3>2, <3>3
  <2>3. FrameLength' = FrameLength + 1 /\ FrameLength \in Int
    <3>1. UNCHANGED <<log, presentIndex>>
      BY <1>12 DEF AppendFill, AppendDraw
    <3>2. FrameLength' = Len(log) - presentIndex + (Len(fills') + Len(draws'))
      <4>1. Len(fills') \in Int /\ Len(draws') \in Int
        BY TypeStep DEF TypeInv, TypeOK
      <4> QED BY <1>0, <3>1, <4>1 DEF FrameLength
    <3> QED BY <1>0, <2>2, <3>2 DEF FrameLength
  <2>4. FrameLength' <= FrameMax
    BY <1>0, <2>1, <2>3 DEF FenceInv
  <2> QED BY <1>0, <1>12, <2>1, <2>4 DEF AppendFill, AppendDraw, FenceInv, Fence
<1>13. CASE PushSingle
  <2>1. CASE Push("single", <<call.op>>) /\ ~Stall("single")
    <3>1. /\ pc = "push" /\ call.kind # "present" /\ Advance
          /\ UNCHANGED <<done, fills, draws, presentVars, call>>
      BY <1>13, <2>1 DEF PushSingle
    <3>2. Unqueued /\ pc' = "idle"
      BY <3>1, StageKinds DEF Unqueued, IssuingKinds, Advance, After
    <3>3. Len(log') = Len(log) + 1 /\ Len(log) - done < RingSize
      BY <2>1, Pushed
    <3>4. FrameLength' = FrameLength + 1 /\ FrameLength \in Int
      BY <1>0, <3>1, <3>3 DEF FrameLength
    <3>5. FrameLength' <= FrameMax /\ Len(log') - done' <= RingSize
      BY <1>0, <3>1, <3>2, <3>3, <3>4 DEF FenceInv
    <3> QED BY <3>1, <3>2, <3>5 DEF FenceInv, Unqueued, Fence
  <2> QED BY <1>8, <1>13, <2>1 DEF PushSingle
<1>14. CASE PushPresent
  <2>1. Len(log') = Len(log) + 1 /\ Len(log) - done < RingSize
    BY <1>14, Pushed DEF PushPresent
  <2>2. fills' = <<>> /\ draws' = <<>> /\ pc' = "idle"
    BY <1>14 DEF PushPresent, FlushInv, Advance, After
  <2>3. FrameLength' = 0
    <3>1. presentIndex' = Len(log')
      BY <1>14 DEF PushPresent
    <3> QED BY <1>0, <2>1, <2>2, <3>1 DEF FrameLength
  <2>4. Len(log') - done' <= RingSize /\ presentIndex' = Len(log) + 1
    BY <1>0, <1>14, <2>1 DEF PushPresent
  <2> QED BY <1>0, <1>14, <2>1, <2>2, <2>3, <2>4 DEF PushPresent, FenceInv, Unqueued, Fence
<1>15. CASE RefusePresent \/ DeviceFails
  <2>1. ~Unqueued'
    BY <1>15, FailEnds DEF RefusePresent, DeviceFails, Unqueued, IssuingKinds
  <2>2. UNCHANGED presentDrawFence \/ ~presentPending
    BY <1>15 DEF RefusePresent, DeviceFails, PresentInv
  <2> QED BY <1>1, <1>15, <2>1, <2>2 DEF RefusePresent, DeviceFails
<1>16. CASE UNCHANGED vars
  BY <1>1, <1>16 DEF vars, Unqueued
<1> QED BY <1>3, <1>4, <1>5, <1>6, <1>7, <1>10, <1>11, <1>12, <1>13, <1>14, <1>15, <1>16
     DEF Next, Thread

(* The comparison of counts that wrap is exact, however the range, the     *)
(* ring and the frames are sized within FenceAssumption                    *)
(* (NOODLES_WaitRawFence).                                                 *)
THEOREM FencesStayExact == Spec => []RawFencesExact
<1>1. Init => FenceInv
  BY SizesAssumption, FenceAssumption DEF Init, FenceInv, FrameLength, Unqueued
<1>2. TypeInv /\ FenceInv => RawFencesExact
  <2> SUFFICES ASSUME TypeInv, FenceInv, presentPending
               PROVE  /\ FenceReached(presentFence) <=> done >= presentIndex
                      /\ FenceReached(presentDrawFence) <=> done >= presentIndex - 1
    BY DEF RawFencesExact
  <2> DEFINE p == presentIndex
  <2>1. /\ Len(log) \in Nat /\ done \in 0 .. Len(log) /\ p \in 1 .. Len(log)
        /\ Len(fills) \in Nat /\ Len(draws) \in Nat /\ FenceBase \in Nat
        /\ RingSize \in Nat /\ FrameMax \in Nat /\ FenceModulus \in Nat \ {0}
        /\ FenceModulus % 2 = 0 /\ FenceModulus \div 2 \in Nat
    BY SizesAssumption, FenceAssumption DEF TypeInv, TypeOK, FenceInv
  <2>2. done - (p - 1) < FenceModulus \div 2 /\ p - done <= FenceModulus \div 2
    BY <2>1, FenceAssumption DEF FenceInv, FrameLength
  <2>3. FenceReached(Fence(p)) <=> done >= p
    <3>1. p \in Nat /\ done \in Nat /\ done - p < FenceModulus \div 2
      BY <2>1, <2>2
    <3>2. (((FenceBase + done) % FenceModulus) - ((FenceBase + p) % FenceModulus)) % FenceModulus
            < FenceModulus \div 2 <=> done >= p
      BY ONLY <2>1, <2>2, <3>1, WrappedOrder
    <3> QED BY <3>2 DEF FenceReached, Fence
  <2>4. FenceReached(Fence(p - 1)) <=> done >= p - 1
    <3>1. p - 1 \in Nat /\ done \in Nat /\ (p - 1) - done <= FenceModulus \div 2
      BY <2>1, <2>2
    <3>2. (((FenceBase + done) % FenceModulus) - ((FenceBase + (p - 1)) % FenceModulus)) % FenceModulus
            < FenceModulus \div 2 <=> done >= p - 1
      BY ONLY <2>1, <2>2, <3>1, WrappedOrder
    <3> QED BY <3>2 DEF FenceReached, Fence
  <2> QED BY <2>3, <2>4 DEF FenceInv
<1>3. Spec => []TypeInv
  BY InitType, TypeStep, PTL DEF Spec
<1>4. QueueInv => PresentInv /\ FlushInv
  BY DEF QueueInv
<1> QED BY <1>1, <1>2, <1>3, <1>4, FenceStep, QueueInvariant, PTL DEF Spec

-----------------------------------------------------------------------------
(***************************************************************************)
(* Waits.                                                                  *)
(***************************************************************************)

(* Whoever met EAGAIN saw a command of the ring not completed.             *)
StallInv == stalledAt # -1 => stalledAt < Len(log)

\* A ring or a descriptor table that is used up holds a command.
LEMMA FullRing ==
  ASSUME TypeInv, NEW kind, ~Room(kind)
  PROVE  done < Len(log)
<1>1. Len(log) \in Nat /\ done \in 0 .. Len(log) /\ RingSize \in Nat \ {0} /\ Tables \in Nat \ {0}
  BY SizesAssumption DEF TypeInv, TypeOK
<1>2. ASSUME done = Len(log) PROVE Room(kind)
  <2>1. InFlight = {}
    BY <1>1, <1>2 DEF InFlight
  <2>2. {i \in InFlight : log[i].kind \in BatchKinds} = {}
    BY <2>1
  <2>3. Cardinality({i \in InFlight : log[i].kind \in BatchKinds}) = 0
    BY <2>2, FS_EmptySet
  <2> QED BY <1>1, <1>2, <2>3 DEF Room
<1> QED BY <1>1, <1>2

\* The ring's history only grows while a push is repeated.
LEMMA StallStep == TypeInv /\ StallInv /\ [Next]_vars => StallInv'
<1> SUFFICES ASSUME TypeInv, StallInv, [Next]_vars PROVE StallInv'
  OBVIOUS
<1> USE DEF StallInv
<1>0. Len(log) \in Nat /\ done \in 0 .. Len(log)
  BY DEF TypeInv, TypeOK
<1>1. ASSUME UNCHANGED log, UNCHANGED stalledAt \/ stalledAt' = -1 PROVE StallInv'
  BY <1>1
<1>2. ASSUME NEW kind, Stall(kind) PROVE StallInv'
  BY <1>0, <1>2, FullRing DEF Stall
<1>3. ASSUME NEW kind, NEW ops, Push(kind, ops), UNCHANGED stalledAt PROVE StallInv'
  BY <1>3 DEF Push
<1>4. CASE Sdl
  <2>1. ASSUME NEW kind, NEW s, Issue(kind, s) PROVE StallInv'
    BY <1>1, <2>1 DEF Issue
  <2>2. ASSUME NEW kind, NEW s, NEW device, Ask(kind, s, device) PROVE StallInv'
    BY <1>1, <2>2 DEF Ask
  <2>3. CASE SubmitFill \/ SubmitBlendFill \/ SubmitDraw
    BY <2>1, <2>3 DEF SubmitFill, SubmitBlendFill, SubmitDraw
  <2>4. CASE \/ Fallback \/ EndQueue \/ SetRenderTarget \/ UpdateTexture
             \/ RenderReadPixels \/ DestroyTexture
    BY <2>2, <2>4 DEF Fallback, EndQueue, SetRenderTarget, UpdateTexture,
       RenderReadPixels, DestroyTexture
  <2>5. CASE BeginQueue \/ RenderPresent
    BY <1>1, <2>5 DEF BeginQueue, RenderPresent
  <2> QED BY <1>4, <2>3, <2>4, <2>5 DEF Sdl
<1>5. CASE FlushFills
  BY <1>2, <1>3, <1>5 DEF FlushFills
<1>6. CASE FlushDraws
  BY <1>2, <1>3, <1>6 DEF FlushDraws
<1>7. CASE PushSingle
  BY <1>2, <1>3, <1>7 DEF PushSingle
<1>8. CASE PushPresent
  BY <1>3, <1>8 DEF PushPresent
<1>9. CASE Skip \/ WaitPresent \/ WaitProgress
  BY <1>1, <1>9 DEF Skip, WaitPresent, WaitProgress
<1>10. CASE AppendFill \/ AppendDraw \/ Overrun \/ RefusePresent
  BY <1>1, <1>10 DEF AppendFill, AppendDraw, Overrun, RefusePresent
<1>11. CASE Access \/ Leave \/ Retarget \/ FreeTexture
  BY <1>1, <1>11 DEF Access, Leave, Retarget, FreeTexture
<1>12. CASE Execute \/ DeviceFails
  BY <1>1, <1>12 DEF Execute, DeviceFails
<1>13. CASE UNCHANGED vars
  BY <1>1, <1>13 DEF vars
<1> QED BY <1>4, <1>5, <1>6, <1>7, <1>8, <1>9, <1>10, <1>11, <1>12, <1>13 DEF Next, Thread

(* However the ring, the tables, the pacing and the fences are sized, and  *)
(* whatever failed before: a thread that waits waits for a command the     *)
(* ring still holds (NOODLES_WaitProgress, NOODLES_WaitPresent).           *)
THEOREM WaitsAreAnswered == Spec => []WaitsAnswered
<1>1. Init => StallInv
  BY DEF Init, StallInv
<1>2. Spec => []TypeInv
  BY InitType, TypeStep, PTL DEF Spec
<1>3. TypeInv /\ StallInv /\ RawFencesExact => WaitsAnswered
  <2> SUFFICES ASSUME TypeInv, StallInv, RawFencesExact, AwaitsCompletion PROVE done < Len(log)
    BY DEF WaitsAnswered
  <2>1. Len(log) \in Nat /\ done \in 0 .. Len(log) /\ presentIndex \in 0 .. Len(log)
        /\ stalledAt \in -1 .. Len(log)
    BY DEF TypeInv, TypeOK
  <2>2. CASE stalledAt # -1 /\ done <= stalledAt
    BY <2>1, <2>2 DEF StallInv
  <2>3. CASE WaitDue /\ done < presentIndex
    BY <2>1, <2>3
  <2>4. CASE WaitDue /\ ~(FenceReached(presentDrawFence) /\ FenceReached(presentFence))
    <3>1. done < presentIndex
      BY <2>1, <2>4 DEF WaitDue, RawFencesExact
    <3> QED BY <2>1, <3>1
  <2>5. CASE UsesOf(call.surface) \cap InFlight # {}
    BY <2>1, <2>5 DEF InFlight
  <2> QED BY <2>2, <2>3, <2>4, <2>5 DEF AwaitsCompletion
<1> QED BY <1>1, <1>2, <1>3, StallStep, FencesStayExact, PTL DEF Spec

-----------------------------------------------------------------------------
(***************************************************************************)
(* What waits between command lists.                                       *)
(***************************************************************************)

(* The operations of a command list are served within it, and it leaves    *)
(* nothing pending.                                                        *)
PendingInv ==
  /\ pc # "idle" /\ call.kind \in QueuedKinds => inQueue
  /\ ~inQueue /\ failures = 0 => fills = <<>> /\ draws = <<>>

LEMMA PendingStep == TypeInv /\ FlushInv /\ PendingInv /\ [Next]_vars => PendingInv'
<1> SUFFICES ASSUME TypeInv, FlushInv, PendingInv, [Next]_vars PROVE PendingInv'
  OBVIOUS
<1> USE DEF PendingInv, QueuedKinds, batchVars, presentVars, sdlVars
<1>1. CASE Sdl
  BY <1>1 DEF Sdl, BeginQueue, SubmitFill, SubmitBlendFill, SubmitDraw, Issue, Fallback,
     EndQueue, SetRenderTarget, UpdateTexture, RenderReadPixels, DestroyTexture, RenderPresent,
     Ask, Start
<1>2. ASSUME pc # "idle", UNCHANGED <<call, inQueue, failures>>,
             fills' \in {fills, <<>>}, draws' \in {draws, <<>>}
      PROVE  PendingInv'
  BY <1>2
<1>3. ASSUME NEW kind, Stall(kind) PROVE PendingInv'
  BY <1>3 DEF Stall
<1>4. CASE FlushFills \/ FlushDraws
  BY <1>2, <1>3, <1>4 DEF FlushFills, FlushDraws, FillsDue, DrawsDue
<1>5. CASE PushSingle \/ PushPresent
  BY <1>2, <1>3, <1>5 DEF PushSingle, PushPresent
<1>6. CASE Skip \/ WaitPresent
  BY <1>2, <1>6 DEF Skip, WaitPresent, WaitDue, FlushStages
<1>7. CASE AppendFill \/ AppendDraw \/ Overrun
  BY <1>7 DEF AppendFill, AppendDraw, Overrun
<1>8. CASE Access \/ Retarget \/ FreeTexture
  BY <1>2, <1>8 DEF Access, AccessDue, Retarget, FreeTexture
<1>9. CASE Leave
  <2>1. pc' = "idle"
    BY <1>9, StageKinds DEF Leave, Advance, After
  <2> QED BY <1>9, <2>1 DEF Leave, FlushInv
<1>10. CASE RefusePresent
  BY <1>10, FailEnds DEF RefusePresent, Fail
<1>11. CASE DeviceFails
  <2>1. failures' # 0 /\ call' = call
    BY <1>11 DEF DeviceFails, TypeInv, TypeOK
  <2>2. pc' # "idle" => call.kind = "destroy"
    BY <1>11, FailEnds DEF DeviceFails
  <2> QED BY <2>1, <2>2
<1>12. CASE WaitProgress \/ Execute
  BY <1>12 DEF WaitProgress, Execute
<1>13. CASE UNCHANGED vars
  BY <1>13 DEF vars
<1> QED BY <1>1, <1>4, <1>5, <1>6, <1>7, <1>8, <1>9, <1>10, <1>11, <1>12, <1>13
     DEF Next, Thread

(* Until the device fails, nothing is kept back in a batch when a command  *)
(* list ends, so that calls which do not flush, and an application that    *)
(* rests, leave no operation waiting (RunCommandQueue).                    *)
THEOREM NothingStaysPending ==
  Spec => [](~inQueue /\ failures = 0 => fills = <<>> /\ draws = <<>>)
<1>1. Init => PendingInv
  BY DEF Init, PendingInv
<1>2. Spec => []TypeInv
  BY InitType, TypeStep, PTL DEF Spec
<1>3. QueueInv => FlushInv
  BY DEF QueueInv
<1>4. PendingInv => (~inQueue /\ failures = 0 => fills = <<>> /\ draws = <<>>)
  BY DEF PendingInv
<1> QED BY <1>1, <1>2, <1>3, <1>4, PendingStep, QueueInvariant, PTL DEF Spec

-----------------------------------------------------------------------------
(***************************************************************************)
(* The length of a callback.                                               *)
(***************************************************************************)

\* Every function of a callback is called at a later stage than the one before.
LEMMA StagesPass ==
  ASSUME TypeInv, pc \notin {"idle", "overrun"}
  PROVE  /\ StagesLeft \in 0 .. 6 /\ StagesLeft' \in 0 .. 6
         /\ Advance => StagesLeft' < StagesLeft
         /\ Fail => StagesLeft' < StagesLeft
         /\ pc' = "overrun" => StagesLeft' < StagesLeft
<1>1. StagesLeft \in 1 .. 6
  BY DEF TypeInv, TypeOK, Stages, StagesLeft
<1>2. StagesLeft' \in 0 .. 6
  BY DEF StagesLeft
<1>3. ASSUME Advance PROVE StagesLeft' < StagesLeft
  <2>1. call.kind \in CallKinds /\ pc \in DOMAIN After[call.kind] \ {"start"}
    BY DEF TypeInv, TypeOK, StageOK, Call
  <2>2. CallKinds = {"fill", "scalarFill", "blend", "draw", "fallback", "endQueue",
                     "setTarget", "update", "readPixels", "present", "destroy"}
    BY DEF CallKinds, After
  <2> USE DEF Advance, After, StagesLeft
  <2>3. CASE call.kind = "fill" BY <1>3, <2>1, <2>3
  <2>4. CASE call.kind = "scalarFill" BY <1>3, <2>1, <2>4
  <2>5. CASE call.kind = "blend" BY <1>3, <2>1, <2>5
  <2>6. CASE call.kind = "draw" BY <1>3, <2>1, <2>6
  <2>7. CASE call.kind = "fallback" BY <1>3, <2>1, <2>7
  <2>8. CASE call.kind = "endQueue" BY <1>3, <2>1, <2>8
  <2>9. CASE call.kind = "setTarget" BY <1>3, <2>1, <2>9
  <2>10. CASE call.kind = "update" BY <1>3, <2>1, <2>10
  <2>11. CASE call.kind = "readPixels" BY <1>3, <2>1, <2>11
  <2>12. CASE call.kind = "present" BY <1>3, <2>1, <2>12
  <2>13. CASE call.kind = "destroy" BY <1>3, <2>1, <2>13
  <2> QED BY <2>1, <2>2, <2>3, <2>4, <2>5, <2>6, <2>7, <2>8, <2>9, <2>10, <2>11, <2>12, <2>13
<1>4. ASSUME Fail PROVE StagesLeft' < StagesLeft
  <2>1. CASE pc \in {"flushFills", "flushDraws"} /\ pc' = "free"
    BY <2>1 DEF StagesLeft
  <2>2. CASE pc' = "idle"
    <3>1. StagesLeft' = 0
      BY <2>2 DEF StagesLeft
    <3> QED BY <1>1, <3>1
  <2> QED BY <1>4, <2>1, <2>2 DEF Fail
<1>5. ASSUME pc' = "overrun" PROVE StagesLeft' < StagesLeft
  <2>1. StagesLeft' = 0
    BY <1>5 DEF StagesLeft
  <2> QED BY <1>1, <2>1
<1> QED BY <1>1, <1>2, <1>3, <1>4, <1>5

\* What is left of the retry after EAGAIN.
Retrying == IF stalledAt = -1 THEN 1 ELSE IF done > stalledAt THEN 2 ELSE 0

\* A stage weighs more than the command it may add to the ring.
LEMMA StageWeight ==
  ASSUME NEW a \in Nat, NEW b \in Nat, NEW m \in Int, NEW n \in Int, NEW q \in Int, NEW r \in Int,
         b < a, 3 * n + r <= 3 * m + q + 3
  PROVE  4 * b + 3 * n + r < 4 * a + 3 * m + q
OBVIOUS

\* A command completed weighs more than the retry it may answer.
LEMMA CommandWeight ==
  ASSUME NEW a \in Int, NEW n \in Int, NEW q \in Int, NEW r \in Int, r < q + 3
  PROVE  4 * a + 3 * (n - 1) + r < 4 * a + 3 * n + q
OBVIOUS

(* However the batches, the ring and the tables are sized, and whatever    *)
(* fails: a callback can take no more steps, of its own and of the core,   *)
(* than StepsLeft counts when it starts.  What it waits for comes          *)
(* (WaitsAreAnswered), so that it returns while the core and the thread go *)
(* on, or has written past a batch (NOODLES_WaitProgress, FlushFills,      *)
(* FlushDraws, SubmitFill).                                                *)
THEOREM CallsAreBounded == Spec => CallsBounded
<1>1. ASSUME TypeInv, [Next]_vars, ~UNCHANGED vars, pc # "idle"
      PROVE  StepsLeft' < StepsLeft
  <2> DEFINE ahead == Len(log) - done
             Passes == pc \notin {"idle", "overrun"} /\ StagesLeft' < StagesLeft
  <2>1. TypeInv'
    BY <1>1, TypeStep
  <2>2. /\ Len(log) \in Nat /\ done \in Nat /\ stalledAt \in Int /\ done <= Len(log)
        /\ Len(log') \in Nat /\ done' \in Nat /\ done' <= Len(log')
        /\ Retrying \in 0 .. 2 /\ Retrying' \in 0 .. 2
    <3>1. Len(log) \in Nat /\ done \in Nat /\ stalledAt \in Int /\ done <= Len(log)
      BY <1>1 DEF TypeInv, TypeOK
    <3>2. Len(log') \in Nat /\ done' \in Nat /\ done' <= Len(log')
      BY <2>1 DEF TypeInv, TypeOK
    <3>3. Retrying \in 0 .. 2 /\ Retrying' \in 0 .. 2
      BY DEF Retrying
    <3> QED BY <3>1, <3>2, <3>3
  <2>3. ahead \in Nat /\ ahead' \in Nat
    BY <2>2
  <2>4. /\ StepsLeft = 4 * StagesLeft + 3 * ahead + Retrying
        /\ StepsLeft' = 4 * StagesLeft' + 3 * ahead' + Retrying'
    BY DEF StepsLeft, Retrying
  <2>5. ASSUME Passes, 3 * ahead' + Retrying' <= 3 * ahead + Retrying + 3
        PROVE  StepsLeft' < StepsLeft
    <3>1. StagesLeft \in Nat /\ StagesLeft' \in Nat
      BY <1>1, <2>5, StagesPass
    <3>2. ahead \in Int /\ ahead' \in Int /\ Retrying \in Int /\ Retrying' \in Int
      BY <2>2, <2>3
    <3> HIDE DEF ahead
    <3>3. 4 * StagesLeft' + 3 * ahead' + Retrying' < 4 * StagesLeft + 3 * ahead + Retrying
      BY <2>5, <3>1, <3>2, StageWeight
    <3> QED BY <2>4, <3>3
  <2>6. ASSUME Passes, UNCHANGED <<log, done, stalledAt>> PROVE StepsLeft' < StepsLeft
    <3>1. Retrying' = Retrying /\ ahead' = ahead
      BY <2>6 DEF Retrying
    <3> QED BY <2>2, <2>3, <2>5, <2>6, <3>1
  <2>7. ASSUME Passes, NEW kind, NEW ops, Push(kind, ops), UNCHANGED <<done, stalledAt>>
        PROVE  StepsLeft' < StepsLeft
    <3>1. Len(log') = Len(log) + 1
      BY <1>1, <2>7 DEF Push, TypeInv, TypeOK
    <3>2. Retrying' = Retrying
      BY <2>7 DEF Retrying
    <3>3. ahead' = ahead + 1
      BY <2>2, <2>7, <3>1
    <3> QED BY <2>2, <2>3, <2>5, <2>7, <3>2, <3>3
  <2>8. ASSUME NEW kind, Stall(kind) PROVE StepsLeft' < StepsLeft
    <3>1. Retrying = 1 /\ Retrying' = 0
      BY <2>2, <2>8 DEF Stall, Retrying
    <3>2. StagesLeft' = StagesLeft /\ ahead' = ahead
      BY <2>8 DEF Stall, StagesLeft
    <3>3. StagesLeft \in Nat
      BY <1>1 DEF StagesLeft
    <3> QED BY <2>3, <2>4, <3>1, <3>2, <3>3
  <2>9. ASSUME Advance \/ Fail \/ pc' = "overrun", pc \notin {"idle", "overrun"} PROVE Passes
    BY <1>1, <2>9, StagesPass
  <2> HIDE DEF Passes, ahead
  <2> USE DEF batchVars, presentVars, sdlVars
  <2>10. CASE Sdl
    BY <1>1, <2>10 DEF Sdl, BeginQueue, SubmitFill, SubmitBlendFill, SubmitDraw, Issue, Fallback,
       EndQueue, SetRenderTarget, UpdateTexture, RenderReadPixels, DestroyTexture, RenderPresent,
       Ask, Start
  <2>11. CASE FlushFills
    BY <2>7, <2>8, <2>9, <2>11 DEF FlushFills, FillsDue
  <2>12. CASE FlushDraws
    BY <2>7, <2>8, <2>9, <2>12 DEF FlushDraws, DrawsDue
  <2>13. CASE PushSingle
    BY <2>7, <2>8, <2>9, <2>13 DEF PushSingle
  <2>14. CASE PushPresent
    BY <2>7, <2>9, <2>14 DEF PushPresent
  <2>15. CASE RefusePresent
    BY <2>6, <2>9, <2>15 DEF RefusePresent
  <2>16. CASE Skip
    BY <2>6, <2>9, <2>16 DEF Skip, FlushStages
  <2>17. CASE WaitPresent
    BY <2>6, <2>9, <2>17 DEF WaitPresent, WaitDue
  <2>18. CASE AppendFill \/ AppendDraw \/ Overrun
    BY <2>6, <2>9, <2>18 DEF AppendFill, AppendDraw, Overrun
  <2>19. CASE Access
    BY <2>6, <2>9, <2>19 DEF Access, AccessDue
  <2>20. CASE Leave \/ Retarget \/ FreeTexture
    BY <2>6, <2>9, <2>20 DEF Leave, Retarget, FreeTexture
  <2>21. CASE WaitProgress
    <3>1. Retrying = 2 /\ Retrying' = 1
      BY <2>2, <2>21 DEF WaitProgress, Retrying
    <3>2. StagesLeft' = StagesLeft /\ ahead' = ahead
      BY <2>21 DEF WaitProgress, StagesLeft, ahead
    <3>3. StagesLeft \in Nat
      BY <1>1 DEF StagesLeft
    <3> QED BY <2>3, <2>4, <3>1, <3>2, <3>3
  <2>22. CASE Execute
    <3>1. StagesLeft' = StagesLeft /\ ahead' = ahead - 1
      BY <2>2, <2>22 DEF Execute, StagesLeft, ahead
    <3>2. StagesLeft \in Nat
      BY <1>1 DEF StagesLeft
    <3>3. StepsLeft' = 4 * StagesLeft + 3 * (ahead - 1) + Retrying'
      BY <2>4, <3>1
    <3>4. /\ ahead \in Int /\ Retrying \in Int /\ Retrying' \in Int /\ StagesLeft \in Int
          /\ Retrying' < Retrying + 3
      BY <2>2, <2>3, <3>2
    <3>5. 4 * StagesLeft + 3 * (ahead - 1) + Retrying' < 4 * StagesLeft + 3 * ahead + Retrying
      BY <3>4, CommandWeight
    <3> QED BY <2>4, <3>3, <3>5
  <2>23. CASE DeviceFails
    <3>1. Passes
      BY <2>9, <2>23 DEF DeviceFails, WaitDue, FillsDue, DrawsDue, AccessDue
    <3>2. ahead' = ahead /\ Retrying' = 1
      BY <2>23 DEF DeviceFails, ahead, Retrying
    <3> QED BY <2>2, <2>3, <2>5, <3>1, <3>2
  <2> QED BY <1>1, <2>10, <2>11, <2>12, <2>13, <2>14, <2>15, <2>16, <2>17, <2>18, <2>19, <2>20,
         <2>21, <2>22, <2>23 DEF Next, Thread
<1>2. TypeInv /\ [Next]_vars => [pc # "idle" => StepsLeft' < StepsLeft]_vars
  BY <1>1
<1>3. Spec => []TypeInv
  BY InitType, TypeStep, PTL DEF Spec
<1> QED BY <1>2, <1>3, PTL DEF Spec, CallsBounded

-----------------------------------------------------------------------------
(***************************************************************************)
(* The back buffer.                                                        *)
(***************************************************************************)

(* Once a callback that will touch the back buffer has passed its wait, no *)
(* PRESENT is pending; an update never touches it.                         *)
BackInv ==
  /\ call.kind = "update" /\ pc # "idle" => call.surface # Composition
  /\ call.kind \in {"readPixels", "present"}
       /\ pc \in {"flushFills", "flushDraws", "access", "push"} => ~presentPending
  /\ call.kind = "fallback" /\ pc = "access" /\ call.surface = Composition /\ ~ThreeBuffers
       => ~presentPending

\* Every step keeps that the back buffer is waited for.
LEMMA BackStep == TypeInv /\ BackInv /\ [Next]_vars => BackInv'
<1> SUFFICES ASSUME TypeInv, BackInv, [Next]_vars PROVE BackInv'
  OBVIOUS
<1> USE DEF batchVars, presentVars, sdlVars
<1>1. ASSUME UNCHANGED <<call, presentPending, pc>> PROVE BackInv'
  BY <1>1 DEF BackInv
<1>2. ASSUME pc' = "idle" PROVE BackInv'
  BY <1>2 DEF BackInv
<1>3. ASSUME UNCHANGED <<call, presentPending>>, Advance, ~WaitDue,
             pc \notin {"idle", "overrun"}
      PROVE  BackInv'
  <2>1. call.kind = "fallback" /\ pc' = "access" => pc = "backBuffer"
    BY <1>3 DEF Advance, After, TypeInv, StageOK
  <2> QED BY <1>3, <2>1, Routes DEF BackInv, WaitDue, TypeInv, TypeOK
<1>4. CASE Sdl
  <2>1. CASE BeginQueue
    BY <1>1, <2>1 DEF BeginQueue
  <2>2. ASSUME NEW kind \in CallKinds, NEW s, NEW t, NEW device, Start(kind, t, s, device),
               UNCHANGED presentPending, kind = "update" => s # Composition
        PROVE  BackInv'
    <3>1. call'.kind = kind /\ call'.surface = s /\ pc' = After[kind].start
      BY <2>2 DEF Start
    <3> QED BY <2>2, <3>1, Starts DEF BackInv, After
  <2>3. {"fill", "scalarFill", "blend", "draw", "fallback", "endQueue", "setTarget",
         "update", "readPixels", "destroy", "present"} \subseteq CallKinds
    BY DEF CallKinds, After
  <2>4. live \subseteq Textures
    BY DEF TypeInv, TypeOK
  <2>5. CASE SubmitFill \/ SubmitBlendFill \/ SubmitDraw
    BY <2>2, <2>3, <2>5 DEF SubmitFill, SubmitBlendFill, SubmitDraw, Issue
  <2>6. CASE \/ Fallback \/ EndQueue \/ SetRenderTarget \/ UpdateTexture
             \/ RenderReadPixels \/ DestroyTexture
    BY <2>2, <2>3, <2>4, <2>6, SurfacesAssumption DEF Fallback, EndQueue, SetRenderTarget,
       UpdateTexture, RenderReadPixels, DestroyTexture, Ask
  <2>7. CASE RenderPresent
    BY <2>2, <2>3, <2>7 DEF RenderPresent
  <2> QED BY <1>4, <2>1, <2>5, <2>6, <2>7 DEF Sdl
<1>5. CASE WaitPresent
  BY <1>5 DEF WaitPresent, WaitDue, BackInv
<1>6. CASE Skip
  <2>1. pc \notin {"idle", "overrun"}
    BY <1>6 DEF Skip, FlushStages
  <2> QED BY <1>3, <1>6, <2>1 DEF Skip
<1>7. CASE Execute \/ WaitProgress
  BY <1>1, <1>7 DEF Execute, WaitProgress
<1>8. ASSUME NEW kind, Stall(kind) PROVE BackInv'
  BY <1>1, <1>8 DEF Stall
<1>9. CASE FlushFills
  BY <1>3, <1>8, <1>9 DEF FlushFills, FillsDue, WaitDue
<1>10. CASE FlushDraws
  BY <1>3, <1>8, <1>10 DEF FlushDraws, DrawsDue, WaitDue
<1>11. CASE AppendFill \/ AppendDraw \/ Access \/ Leave \/ Retarget \/ FreeTexture
  <2>1. Advance /\ ~WaitDue /\ UNCHANGED <<call, presentPending>>
        /\ pc \notin {"idle", "overrun"}
    BY <1>11 DEF AppendFill, AppendDraw, Access, AccessDue, Leave, Retarget, FreeTexture, WaitDue
  <2> QED BY <1>3, <2>1
<1>12. CASE Overrun
  BY <1>12 DEF Overrun, BackInv
<1>13. CASE PushSingle
  BY <1>3, <1>8, <1>13 DEF PushSingle, WaitDue
<1>14. CASE PushPresent
  <2>1. pc' = "idle"
    BY <1>14 DEF PushPresent, Advance, After
  <2> QED BY <1>2, <2>1
<1>15. CASE RefusePresent \/ DeviceFails
  BY <1>15, FailEnds DEF RefusePresent, DeviceFails, BackInv
<1>16. CASE UNCHANGED vars
  BY <1>1, <1>16 DEF vars
<1> QED BY <1>4, <1>5, <1>6, <1>7, <1>9, <1>10, <1>11, <1>12, <1>13, <1>14, <1>15, <1>16
     DEF Next, Thread

(* With two display buffers the CPU stays off the back buffer while a      *)
(* PRESENT is in flight, whichever callback touches it and whatever fails  *)
(* (SurfaceRead, SurfaceUpdate, NOODLES_WaitPresent).                      *)
THEOREM BackBufferStaysOff == Spec => []BackBufferOffDisplay
<1>1. Init => BackInv
  BY DEF Init, BackInv
<1>2. TypeInv /\ PresentInv /\ BackInv => BackBufferOffDisplay
  <2> SUFFICES ASSUME TypeInv, PresentInv, BackInv, AccessDue,
                      call.surface = Composition, ~ThreeBuffers
               PROVE  InFlightPresents = {}
    BY DEF BackBufferOffDisplay
  <2>1. pc = "access" /\ call.kind \in {"fallback", "update", "readPixels", "present"}
    <3>1. call.kind \in CallKinds /\ pc = "access" /\ pc \in DOMAIN After[call.kind]
      BY DEF TypeInv, TypeOK, StageOK, Call, AccessDue
    <3> QED BY <3>1 DEF CallKinds, After
  <2>2. ~presentPending
    BY <2>1 DEF BackInv
  <2> QED BY <2>2 DEF PresentInv, OnePresent
<1>3. Spec => []TypeInv
  BY InitType, TypeStep, PTL DEF Spec
<1>4. QueueInv => PresentInv
  BY DEF QueueInv
<1> QED BY <1>1, <1>2, <1>3, <1>4, BackStep, QueueInvariant, PTL DEF Spec

-----------------------------------------------------------------------------
(***************************************************************************)
(* A device that does not fail.                                            *)
(***************************************************************************)

(* Only behind the operation that filled a batch is it full.               *)
SizeInv ==
  /\ failures = 0 /\ pc # "overrun"
  /\ Len(fills) <= BatchMax /\ (pc # "fullFills" => Len(fills) < BatchMax)
  /\ Len(draws) <= BatchMax /\ (pc # "fullDraws" => Len(draws) < BatchMax)

\* Every step but a failing one keeps the batches in bounds.
LEMMA SizeStep ==
  ASSUME MaxFailures = 0
  PROVE  TypeInv /\ FlushInv /\ SizeInv /\ [Next]_vars => SizeInv'
<1> SUFFICES ASSUME TypeInv, FlushInv, SizeInv, [Next]_vars PROVE SizeInv'
  OBVIOUS
<1> USE DEF batchVars, presentVars, sdlVars
<1>0. /\ fills \in Seq(Op) /\ draws \in Seq(Op) /\ Len(fills) \in Nat /\ Len(draws) \in Nat
      /\ BatchMax \in Nat \ {0} /\ Len(<<>>) = 0 /\ call.op \in Op
  BY SizesAssumption DEF TypeInv, TypeOK, Call
<1>1. ASSUME UNCHANGED <<fills, draws, failures, pc>> PROVE SizeInv'
  BY <1>1 DEF SizeInv
<1>2. ASSUME UNCHANGED failures, Advance, pc \notin {"idle", "overrun"},
             fills' \in {fills, <<>>}, draws' \in {draws, <<>>},
             pc = "fullFills" /\ fills' # <<>> => Len(fills) < BatchMax,
             pc = "fullDraws" /\ draws' # <<>> => Len(draws) < BatchMax
      PROVE  SizeInv'
  BY <1>0, <1>2, Routes DEF SizeInv
<1>3. CASE Sdl
  <2>1. UNCHANGED failures
    BY <1>3 DEF Sdl, BeginQueue, SubmitFill, SubmitBlendFill, SubmitDraw, Fallback,
       EndQueue, SetRenderTarget, UpdateTexture, RenderReadPixels, DestroyTexture,
       RenderPresent, Issue, Ask
  <2> QED BY <1>3, <2>1, SdlStep, Starts DEF Started, SizeInv
<1>4. CASE Skip
  <2>1. pc \notin {"idle", "overrun"}
    BY <1>4 DEF Skip, FlushStages
  <2>2. /\ pc = "fullFills" /\ fills # <<>> => Len(fills) < BatchMax
        /\ pc = "fullDraws" /\ draws # <<>> => Len(draws) < BatchMax
    BY <1>0, <1>4 DEF Skip, FillsDue, DrawsDue, SizeInv
  <2> QED BY <1>2, <1>4, <2>1, <2>2 DEF Skip
<1>5. CASE WaitPresent \/ Access \/ Leave \/ Retarget \/ FreeTexture
  BY <1>2, <1>5 DEF WaitPresent, WaitDue, Access, AccessDue, Leave, Retarget, FreeTexture
<1>6. CASE WaitProgress \/ Execute
  BY <1>1, <1>6 DEF WaitProgress, Execute
<1>7. ASSUME NEW kind, Stall(kind) PROVE SizeInv'
  BY <1>1, <1>7 DEF Stall
<1>8. CASE FlushFills
  BY <1>2, <1>7, <1>8 DEF FlushFills, FillsDue
<1>9. CASE FlushDraws
  BY <1>2, <1>7, <1>9 DEF FlushDraws, DrawsDue
<1>10. CASE AppendFill
  <2>1. pc' = "fullFills" /\ Len(fills') = Len(fills) + 1 /\ Len(fills) < BatchMax
        /\ UNCHANGED <<draws, failures>>
    BY <1>0, <1>10 DEF AppendFill, Advance, After
  <2> QED BY <1>0, <1>10, <2>1 DEF SizeInv, AppendFill
<1>11. CASE AppendDraw
  <2>1. pc' = "fullDraws" /\ Len(draws') = Len(draws) + 1 /\ Len(draws) < BatchMax
        /\ UNCHANGED <<fills, failures>>
    BY <1>0, <1>11 DEF AppendDraw, Advance, After
  <2> QED BY <1>0, <1>11, <2>1 DEF SizeInv, AppendDraw
<1>12. CASE Overrun
  BY <1>0, <1>12, StageKinds DEF Overrun, SizeInv
<1>13. CASE PushSingle
  BY <1>2, <1>7, <1>13 DEF PushSingle
<1>14. CASE PushPresent
  BY <1>2, <1>14 DEF PushPresent
<1>15. CASE RefusePresent
  BY <1>0, <1>15, FailEnds DEF RefusePresent, SizeInv, Fail
<1>16. CASE DeviceFails
  BY <1>16 DEF DeviceFails, SizeInv
<1>17. CASE UNCHANGED vars
  BY <1>1, <1>17 DEF vars
<1> QED BY <1>3, <1>4, <1>5, <1>6, <1>8, <1>9, <1>10, <1>11, <1>12, <1>13, <1>14, <1>15,
     <1>16, <1>17 DEF Next, Thread

(* While the device does not fail no entry is written past the batches,    *)
(* for every size of them (SubmitFill, SubmitDraw).                        *)
THEOREM BatchesStayBounded ==
  ASSUME MaxFailures = 0
  PROVE  Spec => []BatchBounded
<1>1. Init => SizeInv
  BY SizesAssumption DEF Init, SizeInv
<1>2. SizeInv => BatchBounded
  BY DEF SizeInv, BatchBounded
<1>3. Spec => []TypeInv
  BY InitType, TypeStep, PTL DEF Spec
<1>4. QueueInv => FlushInv
  BY DEF QueueInv
<1>5. TypeInv /\ FlushInv /\ SizeInv /\ [Next]_vars => SizeInv'
  BY SizeStep
<1> QED BY <1>1, <1>2, <1>3, <1>4, <1>5, QueueInvariant, PTL DEF Spec

(* What is freed is neither live nor the target, nothing pending or about  *)
(* to be pending names it, and a texture is freed with nothing pending.    *)
FreedInv ==
  /\ freed \subseteq Textures /\ freed \cap live = {} /\ target \notin freed
  /\ NoDanglingBatch
  /\ pc = "free" => fills = <<>> /\ draws = <<>>
  /\ pc # "idle" =>
       /\ call.kind = "setTarget" => call.surface \notin freed
       /\ call.kind = "destroy" => call.surface \in Textures \ live
       /\ call.kind \in {"fill", "draw"} => Refs(call.op) \cap freed = {}

(* An operation that names nothing freed joins a batch that names nothing  *)
(* freed.                                                                  *)
LEMMA AppendRefers ==
  ASSUME NEW ops \in Seq(Op), NEW op, NEW s, ~References(ops, s), s \notin Refs(op)
  PROVE  ~References(Append(ops, op), s)
<1>1. /\ DOMAIN Append(ops, op) = DOMAIN ops \cup {Len(ops) + 1}
      /\ \A i \in DOMAIN ops : Append(ops, op)[i] = ops[i]
      /\ Append(ops, op)[Len(ops) + 1] = op
  OBVIOUS
<1> QED BY <1>1 DEF References

\* Every step but a failing one keeps freed textures unnamed.
LEMMA FreedStep ==
  ASSUME MaxFailures = 0
  PROVE  TypeInv /\ FlushInv /\ SizeInv /\ FreedInv /\ [Next]_vars => FreedInv'
<1> SUFFICES ASSUME TypeInv, FlushInv, SizeInv, FreedInv, [Next]_vars PROVE FreedInv'
  OBVIOUS
<1> USE DEF batchVars, presentVars, sdlVars
<1>0. /\ fills \in Seq(Op) /\ draws \in Seq(Op) /\ call.op \in Op /\ live \subseteq Textures
      /\ Composition \notin Textures /\ call.kind \in CallKinds
  BY SurfacesAssumption DEF TypeInv, TypeOK, Call
<1>1. \A s : ~References(<<>>, s)
  BY DEF References
<1>2. ASSUME UNCHANGED <<fills, draws, call, freed, live, target>>,
             pc' \in {pc, "idle", "overrun"}, pc = "idle" => pc' = "idle"
      PROVE  FreedInv'
  BY <1>2 DEF FreedInv, NoDanglingBatch, References
\* How the stage of release is reached.
<1>3. ASSUME Advance, pc \notin {"idle", "overrun"}, pc' = "free"
      PROVE  pc = "flushDraws" /\ call.kind = "destroy"
  BY <1>3, Routes
<1>4. ASSUME UNCHANGED <<call, freed, live, target>>, Advance, pc \notin {"idle", "overrun"},
             fills' \in {fills, <<>>}, draws' \in {draws, <<>>},
             pc = "flushDraws" => draws' = <<>>
      PROVE  FreedInv'
  <2>1. pc' = "free" => fills' = <<>> /\ draws' = <<>>
    BY <1>3, <1>4 DEF FlushInv
  <2>2. NoDanglingBatch'
    BY <1>1, <1>4 DEF FreedInv, NoDanglingBatch, References
  <2> QED BY <1>4, <2>1, <2>2 DEF FreedInv
<1>5. CASE Sdl
  <2>1. CASE BeginQueue
    BY <1>2, <2>1 DEF BeginQueue
  <2>2. ASSUME NEW kind \in CallKinds, NEW s, NEW t, NEW device, Start(kind, t, s, device),
               UNCHANGED <<fills, draws, freed, target>>, live' \subseteq live,
               kind = "setTarget" => s \notin freed,
               kind = "destroy" => s \in Textures \ live',
               kind \in {"fill", "draw"} => {t, s} \cap freed = {}
        PROVE  FreedInv'
    <3>1. call'.kind = kind /\ call'.surface = s /\ pc' # "free" /\ Refs(call'.op) = {t, s}
      BY <2>2, Starts DEF Start, OpOf, Refs
    <3> QED BY <2>2, <3>1 DEF FreedInv, NoDanglingBatch, References
  <2>3. {"fill", "scalarFill", "blend", "draw", "fallback", "endQueue", "setTarget",
         "update", "readPixels", "destroy", "present"} \subseteq CallKinds
    BY DEF CallKinds, After
  <2>4. target \notin freed /\ freed \cap live = {} /\ Composition \notin freed
    BY <1>0 DEF FreedInv
  <2>5. CASE SubmitFill \/ SubmitBlendFill \/ SubmitDraw
    BY <2>2, <2>3, <2>4, <2>5 DEF SubmitFill, SubmitBlendFill, SubmitDraw, Issue
  <2>6. CASE Fallback \/ EndQueue \/ UpdateTexture \/ RenderReadPixels
    BY <2>2, <2>3, <2>6 DEF Fallback, EndQueue, UpdateTexture, RenderReadPixels, Ask
  <2>7. CASE SetRenderTarget
    BY <2>2, <2>3, <2>4, <2>7 DEF SetRenderTarget, Ask
  <2>8. CASE DestroyTexture
    BY <1>0, <2>2, <2>3, <2>8 DEF DestroyTexture, Ask
  <2>9. CASE RenderPresent
    BY <2>2, <2>3, <2>9 DEF RenderPresent
  <2> QED BY <1>5, <2>1, <2>5, <2>6, <2>7, <2>8, <2>9 DEF Sdl
<1>6. CASE Skip
  <2>1. pc \notin {"idle", "overrun"} /\ (pc = "flushDraws" => draws = <<>>)
    BY <1>6 DEF Skip, FlushStages, DrawsDue
  <2> QED BY <1>4, <1>6, <2>1 DEF Skip
<1>7. CASE WaitPresent \/ Access \/ Leave
  BY <1>4, <1>7 DEF WaitPresent, WaitDue, Access, AccessDue, Leave
<1>8. CASE WaitProgress \/ Execute
  BY <1>2, <1>8 DEF WaitProgress, Execute
<1>9. ASSUME NEW kind, Stall(kind) PROVE FreedInv'
  BY <1>2, <1>9 DEF Stall
<1>10. CASE FlushFills
  BY <1>4, <1>9, <1>10 DEF FlushFills, FillsDue
<1>11. CASE FlushDraws
  BY <1>4, <1>9, <1>11 DEF FlushDraws, DrawsDue
<1>12. CASE AppendFill
  <2>1. pc' = "fullFills" /\ call.kind = "fill" /\ fills' = Append(fills, call.op)
        /\ pc = "append" /\ UNCHANGED <<draws, call, freed, live, target>>
    BY <1>12 DEF AppendFill, Advance, After
  <2>2. \A s \in freed : ~References(fills', s)
    BY <1>0, <2>1, AppendRefers DEF FreedInv, NoDanglingBatch
  <2> QED BY <2>1, <2>2 DEF FreedInv, NoDanglingBatch, References
<1>13. CASE AppendDraw
  <2>1. pc' = "fullDraws" /\ call.kind = "draw" /\ draws' = Append(draws, call.op)
        /\ pc = "append" /\ UNCHANGED <<fills, call, freed, live, target>>
    BY <1>13 DEF AppendDraw, Advance, After
  <2>2. \A s \in freed : ~References(draws', s)
    BY <1>0, <2>1, AppendRefers DEF FreedInv, NoDanglingBatch
  <2> QED BY <2>1, <2>2 DEF FreedInv, NoDanglingBatch, References
<1>14. CASE Overrun
  BY <1>2, <1>14 DEF Overrun
<1>15. CASE PushSingle
  BY <1>4, <1>9, <1>15 DEF PushSingle
<1>16. CASE PushPresent
  BY <1>4, <1>16 DEF PushPresent
<1>17. CASE Retarget
  <2>1. call.kind = "setTarget" /\ pc' = "idle" /\ target' = call.surface
        /\ UNCHANGED <<fills, draws, freed, live, call>>
    BY <1>17, StageKinds DEF Retarget, Advance, After
  <2> QED BY <1>17, <2>1 DEF Retarget, FreedInv, NoDanglingBatch, References
<1>18. CASE FreeTexture
  <2>1. call.kind = "destroy" /\ pc' = "idle" /\ fills' = <<>> /\ draws' = <<>>
    BY <1>18, StageKinds DEF FreeTexture, FreedInv, Advance, After
  <2>2. call.surface \in Textures \ live
    BY <1>18, <2>1 DEF FreeTexture, FreedInv
  <2>3. NoDanglingBatch'
    BY <1>1, <2>1 DEF NoDanglingBatch, References
  <2> QED BY <1>0, <1>18, <2>1, <2>2, <2>3 DEF FreeTexture, FreedInv
<1>19. CASE RefusePresent
  <2>1. pc' = "idle"
    BY <1>19 DEF RefusePresent, Fail
  <2> QED BY <1>2, <1>19, <2>1 DEF RefusePresent
<1>20. CASE DeviceFails
  BY <1>20 DEF DeviceFails, SizeInv
<1>21. CASE UNCHANGED vars
  BY <1>2, <1>21 DEF vars
<1> QED BY <1>5, <1>6, <1>7, <1>8, <1>10, <1>11, <1>12, <1>13, <1>14, <1>15, <1>16, <1>17,
     <1>18, <1>19, <1>20, <1>21 DEF Next, Thread

(* While the device does not fail the pending batch names no freed texture *)
(* (NOODLES_DestroyTexture, FreeSurface).                                  *)
THEOREM BatchesNeverDangle ==
  ASSUME MaxFailures = 0
  PROVE  Spec => []NoDanglingBatch
<1>1. Init => SizeInv /\ FreedInv
  BY SizesAssumption, SurfacesAssumption
     DEF Init, SizeInv, FreedInv, NoDanglingBatch
<1>2. FreedInv => NoDanglingBatch
  BY DEF FreedInv
<1>3. Spec => []TypeInv
  BY InitType, TypeStep, PTL DEF Spec
<1>4. QueueInv => FlushInv
  BY DEF QueueInv
<1>5. /\ TypeInv /\ FlushInv /\ SizeInv /\ [Next]_vars => SizeInv'
      /\ TypeInv /\ FlushInv /\ SizeInv /\ FreedInv /\ [Next]_vars => FreedInv'
  BY SizeStep, FreedStep
<1> QED BY <1>1, <1>2, <1>3, <1>4, <1>5, QueueInvariant, PTL DEF Spec

-----------------------------------------------------------------------------
(***************************************************************************)
(* The refinement of SdlOrder.                                             *)
(***************************************************************************)

(* What is queued or about to be was issued, and the operations of PRESENT *)
(* commands show which frame an entry belongs to: the last one is alone in *)
(* its command and nothing behind it is a PRESENT.                         *)
FrameInv ==
  /\ issued <= MaxOps
  /\ Unqueued => issued >= 1
  /\ call.op.kind = "present" <=> call.kind \notin IssuingKinds \ {"present"}
  /\ \A op \in Accepted : op.id >= 1
  /\ \A op \in OpsOf(fills) \cup OpsOf(draws) : op.kind # "present"
  /\ \A i \in DOMAIN log : \A op \in OpsOf(log[i].ops) : op.kind = "present" => i <= presentIndex
  /\ presentIndex > 0 => \E op \in OpsOf(log[presentIndex].ops) :
                            op.kind = "present" /\ OpsOf(log[presentIndex].ops) = {op}

(* What a push adds to the operations accepted.                            *)
LEMMA PushAccepts ==
  ASSUME TypeInv, NEW kind, NEW ops \in Seq(Op), Push(kind, ops), done' = done
  PROVE  /\ UNION {OpsOf(log'[i].ops) : i \in DOMAIN log'}
              = (UNION {OpsOf(log[i].ops) : i \in DOMAIN log}) \cup OpsOf(ops)
         /\ ExecutedIds' = ExecutedIds
         /\ DOMAIN log' = DOMAIN log \cup {Len(log) + 1}
         /\ \A i \in DOMAIN log : log'[i] = log[i]
         /\ log'[Len(log) + 1].ops = ops /\ Len(log') = Len(log) + 1
<1>1. log' = Append(log, [kind |-> kind, ops |-> ops])
  BY DEF Push, Command
<1>2. log \in Seq([kind : CommandKinds, ops : Seq(Op)]) /\ done \in 0 .. Len(log)
  BY DEF TypeInv, TypeOK
<1>3. /\ DOMAIN log' = DOMAIN log \cup {Len(log) + 1} /\ DOMAIN log = 1 .. Len(log)
      /\ Len(log) \in Nat /\ Len(log') = Len(log) + 1
      /\ \A i \in DOMAIN log : log'[i] = log[i]
      /\ log'[Len(log) + 1].ops = ops
  BY <1>1, <1>2
<1>4. UNION {OpsOf(log'[i].ops) : i \in DOMAIN log'}
        = (UNION {OpsOf(log[i].ops) : i \in DOMAIN log}) \cup OpsOf(ops)
  BY <1>3
<1>5. ExecutedIds' = ExecutedIds
  <2>1. 1 .. done \subseteq DOMAIN log
    BY <1>2, <1>3
  <2> QED BY <1>3, <2>1 DEF ExecutedIds, IdsOf
<1> QED BY <1>3, <1>4, <1>5

(* Joining a batch accepts the operation.                                  *)
LEMMA AppendOps ==
  ASSUME NEW ops \in Seq(Op), NEW op
  PROVE  OpsOf(Append(ops, op)) = OpsOf(ops) \cup {op}
<1>1. /\ DOMAIN Append(ops, op) = DOMAIN ops \cup {Len(ops) + 1}
      /\ \A i \in DOMAIN ops : Append(ops, op)[i] = ops[i]
      /\ Append(ops, op)[Len(ops) + 1] = op
  OBVIOUS
<1> QED BY <1>1 DEF OpsOf

(* What is accepted is well typed.                                         *)
LEMMA AcceptedType ==
  ASSUME TypeInv
  PROVE  Accepted \subseteq Op
<1>1. log \in Seq([kind : CommandKinds, ops : Seq(Op)]) /\ fills \in Seq(Op) /\ draws \in Seq(Op)
  BY DEF TypeInv, TypeOK
<1>2. \A ops \in Seq(Op) : OpsOf(ops) \subseteq Op
  BY DEF OpsOf
<1>3. \A i \in DOMAIN log : log[i].ops \in Seq(Op)
  BY LogOps
<1> QED BY <1>1, <1>2, <1>3 DEF Accepted

\* Every step keeps the frames apart.
LEMMA FrameStep ==
  TypeInv /\ FlushInv /\ OrderInv /\ FrameInv /\ [Next]_vars => FrameInv'
<1> SUFFICES ASSUME TypeInv, FlushInv, OrderInv, FrameInv, [Next]_vars PROVE FrameInv'
  OBVIOUS
<1> USE DEF batchVars, presentVars, sdlVars
<1>0. /\ fills \in Seq(Op) /\ draws \in Seq(Op) /\ call.op \in Op /\ call.op.id \in Nat
      /\ issued \in Nat /\ MaxOps \in Nat /\ Len(log) \in Nat /\ presentIndex \in 0 .. Len(log)
      /\ DOMAIN log = 1 .. Len(log) /\ call.kind \in CallKinds
  BY SizesAssumption DEF TypeInv, TypeOK, Call, Op
<1> DEFINE Kept == UNCHANGED <<log, fills, draws, presentIndex>>
<1>1. ASSUME Kept, UNCHANGED <<issued, call>>, Unqueued' => Unqueued PROVE FrameInv'
  BY <1>1 DEF FrameInv, Accepted, OpsOf
<1>2. ASSUME Advance, UNCHANGED call, pc # "idle" PROVE Unqueued' => Unqueued
  <2>1. Advance /\ pc \in {"fullFills", "fullDraws"} => pc' = "idle"
    BY <1>0, StageKinds DEF Advance, After
  <2> QED BY <1>2, <2>1 DEF Unqueued
<1>3. CASE Sdl
  <2>1. CASE UNCHANGED <<log, done, batchVars, presentVars, target, issued, call, pc>>
    BY <1>1, <2>1 DEF Unqueued
  <2>2. ASSUME NEW kind \in CallKinds, NEW t \in Surfaces, Started(kind, t)
        PROVE  FrameInv'
    <3>1. Kept /\ call'.kind = kind /\ pc' # "idle"
          /\ issued' = IF kind \in IssuingKinds THEN issued + 1 ELSE issued
      BY <2>2, Starts DEF Started
    <3>2. issued' <= MaxOps /\ (call'.op.kind = "present" <=> kind \notin IssuingKinds \ {"present"})
      <4>1. CASE BeginQueue
        BY <3>1, <2>2, <4>1 DEF BeginQueue, Started
      <4>2. CASE SubmitFill \/ SubmitBlendFill \/ SubmitDraw
        BY <1>0, <3>1, <4>2 DEF SubmitFill, SubmitBlendFill, SubmitDraw, Issue, MayIssue, Start,
           OpOf, IssuingKinds, OpKinds
      <4>3. CASE \/ Fallback \/ EndQueue \/ SetRenderTarget \/ UpdateTexture
                 \/ RenderReadPixels \/ DestroyTexture
        BY <1>0, <3>1, <4>3 DEF Fallback, EndQueue, SetRenderTarget, UpdateTexture,
           RenderReadPixels, DestroyTexture, Ask, Start, OpOf, IssuingKinds, OpKinds, FrameInv
      <4>4. CASE RenderPresent
        BY <1>0, <3>1, <4>4 DEF RenderPresent, Start, OpOf, IssuingKinds, OpKinds
      <4> QED BY <1>3, <4>1, <4>2, <4>3, <4>4 DEF Sdl
    <3>3. Unqueued' => issued' >= 1
      BY <1>0, <3>1 DEF Unqueued
    <3> QED BY <3>1, <3>2, <3>3 DEF FrameInv, Accepted, OpsOf
  <2> QED BY <1>3, <2>1, <2>2, SdlStep
<1>4. CASE Skip \/ WaitPresent \/ Access \/ Leave \/ Retarget \/ FreeTexture
  <2>1. Advance /\ Kept /\ UNCHANGED <<issued, call>> /\ pc # "idle"
    BY <1>4 DEF Skip, FlushStages, WaitPresent, WaitDue, Access, AccessDue, Leave,
       Retarget, FreeTexture
  <2> QED BY <1>1, <1>2, <2>1
<1>5. CASE WaitProgress \/ Execute \/ Overrun
  BY <1>1, <1>5 DEF WaitProgress, Execute, Overrun, Unqueued
<1>6. ASSUME NEW kind, Stall(kind) PROVE FrameInv'
  BY <1>1, <1>6 DEF Stall, Unqueued
<1>7. CASE RefusePresent \/ DeviceFails
  <2>1. Kept /\ UNCHANGED <<issued, call>> /\ (pc' = "idle" \/ call.kind = "destroy")
    BY <1>7, FailEnds DEF RefusePresent, DeviceFails
  <2>2. ~Unqueued'
    BY <2>1 DEF Unqueued, IssuingKinds
  <2> QED BY <1>1, <2>1, <2>2
\* A push of operations that are no PRESENTs.
<1>8. ASSUME NEW kind, NEW ops \in Seq(Op), Push(kind, ops), Advance, pc # "idle",
             UNCHANGED <<done, presentIndex, issued, call>>,
             fills' \in {fills, <<>>}, draws' \in {draws, <<>>},
             \A op \in OpsOf(ops) : op.kind # "present" /\ op.id >= 1
      PROVE  FrameInv'
  <2>1. /\ DOMAIN log' = DOMAIN log \cup {Len(log) + 1}
        /\ \A i \in DOMAIN log : log'[i] = log[i]
        /\ log'[Len(log) + 1].ops = ops
        /\ UNION {OpsOf(log'[i].ops) : i \in DOMAIN log'}
             = (UNION {OpsOf(log[i].ops) : i \in DOMAIN log}) \cup OpsOf(ops)
    BY <1>8, PushAccepts
  <2>2. OpsOf(fills') \subseteq OpsOf(fills) /\ OpsOf(draws') \subseteq OpsOf(draws)
    BY <1>8 DEF OpsOf
  <2>3. Accepted' = (UNION {OpsOf(log'[i].ops) : i \in DOMAIN log'}) \cup OpsOf(fills') \cup OpsOf(draws')
    BY DEF Accepted, OpsOf
  <2>4. Accepted' \subseteq Accepted \cup OpsOf(ops)
    BY <2>1, <2>2, <2>3 DEF Accepted
  <2>5. \A i \in DOMAIN log' : \A op \in OpsOf(log'[i].ops) :
           op.kind = "present" => i <= presentIndex'
    BY <1>8, <2>1 DEF FrameInv
  <2>6. presentIndex' > 0 => \E op \in OpsOf(log'[presentIndex'].ops) :
           op.kind = "present" /\ OpsOf(log'[presentIndex'].ops) = {op}
    <3>1. presentIndex > 0 => presentIndex \in DOMAIN log
      BY <1>0
    <3> QED BY <1>8, <2>1, <3>1 DEF FrameInv
  <2>7. Unqueued' => Unqueued
    BY <1>2, <1>8
  <2>8. /\ issued' <= MaxOps /\ (Unqueued' => issued' >= 1)
        /\ call'.op.kind = "present" <=> call'.kind \notin IssuingKinds \ {"present"}
        /\ \A op \in Accepted' : op.id >= 1
        /\ \A op \in OpsOf(fills') \cup OpsOf(draws') : op.kind # "present"
    BY <1>8, <2>2, <2>4, <2>7 DEF FrameInv
  <2>9. \A n : OpsOf(n)' = OpsOf(n')
    BY DEF OpsOf
  <2> QED BY <2>5, <2>6, <2>8 DEF FrameInv, OpsOf
<1>9. \A op \in OpsOf(fills) \cup OpsOf(draws) : op.kind # "present" /\ op.id >= 1
  BY DEF FrameInv, Accepted
<1>10. CASE FlushFills
  <2>1. FlushFills => pc # "idle"
    BY DEF FlushFills, FillsDue
  <2> QED BY <1>0, <1>6, <1>8, <1>9, <1>10, <2>1 DEF FlushFills
<1>11. CASE FlushDraws
  <2>1. FlushDraws => pc # "idle"
    BY DEF FlushDraws, DrawsDue
  <2> QED BY <1>0, <1>6, <1>8, <1>9, <1>11, <2>1 DEF FlushDraws
<1>12. pc \in {"append", "push"} /\ call.kind \in IssuingKinds => call.op.id >= 1
  BY DEF OrderInv, FrameInv, Unqueued
<1>13. CASE PushSingle
  <2>1. /\ <<call.op>> \in Seq(Op) /\ OpsOf(<<call.op>>) = {call.op}
        /\ call.op.kind # "present" /\ call.op.id >= 1
    BY <1>0, <1>12, <1>13, StageKinds DEF PushSingle, FrameInv, IssuingKinds, OpsOf
  <2> QED BY <1>6, <1>8, <1>13, <2>1 DEF PushSingle
<1>14. CASE AppendFill \/ AppendDraw
  <2>1. /\ UNCHANGED <<log, presentIndex, issued, call>>
        /\ call.op.kind # "present" /\ call.op.id >= 1 /\ ~Unqueued'
    BY <1>12, <1>14 DEF AppendFill, AppendDraw, FrameInv, IssuingKinds, Unqueued, Advance, After
  <2>2. OpsOf(fills') \cup OpsOf(draws') = OpsOf(fills) \cup OpsOf(draws) \cup {call.op}
    <3>1. \A ops \in Seq(Op) : OpsOf(Append(ops, call.op)) = OpsOf(ops) \cup {call.op}
      BY AppendOps
    <3>2. CASE AppendFill
      <4>1. fills' = Append(fills, call.op) /\ draws' = draws
        BY <3>2 DEF AppendFill
      <4>2. OpsOf(fills') = OpsOf(fills) \cup {call.op}
        BY <1>0, <3>1, <4>1
      <4> QED BY <4>1, <4>2
    <3>3. CASE AppendDraw
      <4>1. draws' = Append(draws, call.op) /\ fills' = fills
        BY <3>3 DEF AppendDraw
      <4>2. OpsOf(draws') = OpsOf(draws) \cup {call.op}
        BY <1>0, <3>1, <4>1
      <4> QED BY <4>1, <4>2
    <3> QED BY <1>14, <3>2, <3>3
  <2>3. Accepted' = Accepted \cup {call.op}
    <3>1. Accepted' = (UNION {OpsOf(log[i].ops) : i \in DOMAIN log}) \cup OpsOf(fills') \cup OpsOf(draws')
      BY <2>1 DEF Accepted, OpsOf
    <3> QED BY <2>2, <3>1 DEF Accepted
  <2>4. \A op \in OpsOf(fills') \cup OpsOf(draws') : op.kind # "present"
    BY <2>1, <2>2 DEF FrameInv
  <2>5. \A op \in Accepted' : op.id >= 1
    BY <2>1, <2>3 DEF FrameInv
  <2> QED BY <2>1, <2>4, <2>5 DEF FrameInv, OpsOf
<1>15. CASE PushPresent
  <2>1. /\ <<call.op>> \in Seq(Op) /\ OpsOf(<<call.op>>) = {call.op}
        /\ call.op.kind = "present" /\ call.op.id >= 1
    BY <1>0, <1>12, <1>15 DEF PushPresent, FrameInv, IssuingKinds, OpsOf
  <2>2. /\ Push("present", <<call.op>>) /\ UNCHANGED <<done, fills, draws, issued, call>>
        /\ presentIndex' = Len(log') /\ pc' = "idle"
    BY <1>15 DEF PushPresent, Advance, After
  <2>3. /\ DOMAIN log' = DOMAIN log \cup {Len(log) + 1} /\ Len(log') = Len(log) + 1
        /\ \A i \in DOMAIN log : log'[i] = log[i]
        /\ log'[Len(log) + 1].ops = <<call.op>>
        /\ UNION {OpsOf(log'[i].ops) : i \in DOMAIN log'}
             = (UNION {OpsOf(log[i].ops) : i \in DOMAIN log}) \cup {call.op}
    BY <2>1, <2>2, PushAccepts
  <2>4. Accepted' = Accepted \cup {call.op}
    <3>1. Accepted' = (UNION {OpsOf(log'[i].ops) : i \in DOMAIN log'}) \cup OpsOf(fills) \cup OpsOf(draws)
      BY <2>2 DEF Accepted, OpsOf
    <3> QED BY <2>3, <3>1 DEF Accepted
  <2>5. \A op \in Accepted' : op.id >= 1
    BY <2>1, <2>4 DEF FrameInv
  <2>6. \A i \in DOMAIN log' : i <= presentIndex'
    BY <1>0, <2>2, <2>3
  <2>7. OpsOf(log'[presentIndex'].ops) = {call.op}
    BY <2>1, <2>2, <2>3
  <2>8. ~Unqueued'
    BY <2>2 DEF Unqueued
  <2> QED BY <2>1, <2>2, <2>5, <2>6, <2>7, <2>8 DEF FrameInv, OpsOf
<1>16. CASE UNCHANGED vars
  BY <1>1, <1>16 DEF vars, Unqueued
<1> QED BY <1>3, <1>4, <1>5, <1>7, <1>10, <1>11, <1>13, <1>14, <1>15, <1>16 DEF Next, Thread

-----------------------------------------------------------------------------

\* A new renderer's queue maps to SDL's initial state.
LEMMA InitRefines == Init => Order!Init
<1> SUFFICES ASSUME Init PROVE Order!Init
  OBVIOUS
<1>1. Accepted = {} /\ ExecutedIds = {} /\ seen = {}
  BY DEF Init, Accepted, ExecutedIds, OpsOf
<1> QED BY <1>1 DEF Order!Init

(* An operation reaches the ring or a batch after every one accepted.      *)
LEMMA AcceptRefines ==
  ASSUME TypeInv, OrderInv, FrameInv, Unqueued,
         Accepted' = Accepted \cup {call.op}, ExecutedIds' = ExecutedIds, seen' = seen
  PROVE  Order!Next
<1>1. call.op \in [id : 1 .. MaxOps, kind : OpKinds, target : Surfaces, source : Surfaces]
  <2>1. call.op \in Op /\ issued \in Nat /\ MaxOps \in Nat
    BY SizesAssumption DEF TypeInv, TypeOK, Call
  <2>2. call.op.id = issued /\ issued \in 1 .. MaxOps
    BY <2>1 DEF OrderInv, FrameInv
  <2> QED BY <2>1, <2>2 DEF Op
<1>2. \A other \in Accepted : other.id < call.op.id
  BY DEF OrderInv, Accepted, OpsOf, Below
<1>3. Order!Accept(call.op)
  BY <1>2 DEF Order!Accept
<1> QED BY <1>1, <1>3 DEF Order!Next

(* The core executes what is accepted in the order of the ids.             *)
LEMMA ExecuteRefines ==
  ASSUME TypeInv, OrderInv, Execute
  PROVE  Order!Next \/ UNCHANGED Order!vars
<1> DEFINE ops == log[done + 1].ops
           last == ops[Len(ops)].id
<1>1. /\ done \in Nat /\ Len(log) \in Nat /\ done < Len(log) /\ done' = done + 1
      /\ DOMAIN log = 1 .. Len(log)
  BY DEF Execute, TypeInv, TypeOK
<1>2. UNCHANGED <<log, fills, draws, seen>>
  BY DEF Execute, batchVars
<1>3. ops \in Seq(Op)
  BY <1>1, LogOps
<1>4. Accepted' = Accepted /\ seen' = seen
  BY <1>2 DEF Accepted, OpsOf
<1>5. ExecutedIds' = ExecutedIds \cup IdsOf(ops)
  <2>1. 1 .. done + 1 = (1 .. done) \cup {done + 1}
    BY <1>1
  <2> QED BY <1>1, <1>2, <2>1 DEF ExecutedIds, IdsOf
<1>6. CASE ops = <<>>
  <2>1. IdsOf(ops) = {}
    BY <1>6 DEF IdsOf
  <2> QED BY <1>4, <1>5, <2>1 DEF Order!vars
<1>7. CASE ops # <<>>
  <2>1. /\ Len(ops) \in DOMAIN ops /\ DOMAIN ops = 1 .. Len(ops) /\ Len(ops) \in Nat
        /\ \A j \in DOMAIN ops : ops[j].id \in Nat
    BY <1>3, <1>7, OpIds
  <2>2. /\ \A j \in DOMAIN ops : ops[j].id <= last
        /\ Increasing(ops)
    <3>1. Increasing(ops)
      BY <1>1 DEF OrderInv, InOrder
    <3>2. ASSUME NEW j \in DOMAIN ops PROVE ops[j].id <= last
      <4>1. CASE j = Len(ops)
        BY <2>1, <4>1
      <4>2. CASE j # Len(ops)
        <5>1. j < Len(ops) /\ ops[j].id \in Nat /\ last \in Nat
          BY <2>1, <4>2
        <5> QED BY <2>1, <3>1, <5>1 DEF Increasing
      <4> QED BY <4>1, <4>2
    <3> QED BY <3>1, <3>2
  <2>3. \A i \in 1 .. done : \A j \in DOMAIN log[i].ops : log[i].ops[j].id < last
    BY <1>1, <2>1 DEF OrderInv, InOrder, Precedes
  <2>4. \A i \in DOMAIN log : i > done + 1 =>
           \A j \in DOMAIN log[i].ops : last < log[i].ops[j].id
    BY <1>1, <2>1 DEF OrderInv, InOrder, Precedes
  <2>5. /\ \A j \in DOMAIN fills : last < fills[j].id
        /\ \A j \in DOMAIN draws : last < draws[j].id
    BY <1>1, <2>1 DEF OrderInv, InOrder, Precedes
  <2>6. Order!Ids = (UNION {IdsOf(log[i].ops) : i \in DOMAIN log}) \cup IdsOf(fills) \cup IdsOf(draws)
    BY DEF Order!Ids, Accepted, OpsOf, IdsOf
  <2>7. /\ \A m \in ExecutedIds : m < last /\ m \in Nat
        /\ last \in IdsOf(ops) /\ last \in Nat
    <3>1. \A i \in 1 .. done : \A j \in DOMAIN log[i].ops : log[i].ops[j].id \in Nat
      BY <1>1, LogOps, OpIds
    <3> QED BY <2>1, <2>3, <3>1 DEF ExecutedIds, IdsOf
  <2>8. last \in Order!Ids \ ExecutedIds
    BY <1>1, <2>6, <2>7
  <2>9. ExecutedIds' = {m \in Order!Ids : m <= last}
    <3>1. ASSUME NEW m \in ExecutedIds' PROVE m \in Order!Ids /\ m <= last
      <4>1. CASE m \in ExecutedIds
        <5>1. PICK i \in 1 .. done : m \in IdsOf(log[i].ops)
          BY <4>1 DEF ExecutedIds
        <5>2. i \in DOMAIN log
          BY <1>1
        <5> QED BY <2>6, <2>7, <4>1, <5>1, <5>2
      <4>2. CASE m \in IdsOf(ops)
        BY <1>1, <2>2, <2>6, <4>2 DEF IdsOf
      <4> QED BY <1>5, <3>1, <4>1, <4>2
    <3>2. ASSUME NEW m \in Order!Ids, m <= last PROVE m \in ExecutedIds'
      <4>1. CASE m \in IdsOf(fills) \cup IdsOf(draws)
        <5>1. last < m /\ m \in Nat
          <6>1. \A j \in DOMAIN fills : fills[j].id \in Nat
            BY OpIds DEF TypeInv, TypeOK
          <6>2. \A j \in DOMAIN draws : draws[j].id \in Nat
            BY OpIds DEF TypeInv, TypeOK
          <6> QED BY <2>5, <4>1, <6>1, <6>2 DEF IdsOf
        <5> QED BY <2>7, <3>2, <5>1
      <4>2. ASSUME NEW i \in DOMAIN log, m \in IdsOf(log[i].ops) PROVE m \in ExecutedIds'
        <5>1. m \in Nat /\ (i > done + 1 => last < m)
          BY <2>4, <4>2, LogOps, OpIds DEF IdsOf
        <5>2. i \in 1 .. done \/ i = done + 1
          BY <1>1, <2>7, <3>2, <5>1
        <5> QED BY <1>5, <4>2, <5>2 DEF ExecutedIds
      <4> QED BY <2>6, <3>2, <4>1, <4>2
    <3> QED BY <3>1, <3>2
  <2>10. Order!Take
    BY <1>4, <2>8, <2>9 DEF Order!Take
  <2> QED BY <2>10 DEF Order!Next
<1> QED BY <1>6, <1>7

(* A CPU access waits for exactly what touches the surface.                *)
LEMMA AccessRefines ==
  ASSUME TypeInv, FlushInv, OrderInv, FrameInv, Access
  PROVE  Order!Next
<1> DEFINE s == call.surface
<1>0. /\ issued \in Nat /\ DOMAIN log = 1 .. Len(log) /\ Len(log) \in Nat
      /\ done \in 0 .. Len(log) /\ presentIndex \in 0 .. Len(log) /\ s \in Surfaces
  BY DEF TypeInv, TypeOK, Call
<1>1. fills = <<>> /\ draws = <<>>
  BY DEF Access, AccessDue, FlushInv
<1>2. Accepted = UNION {OpsOf(log[i].ops) : i \in DOMAIN log}
  BY <1>1 DEF Accepted, OpsOf
<1>3. ASSUME NEW i \in DOMAIN log, NEW op \in OpsOf(log[i].ops)
      PROVE  Order!InFrame(op) <=> i > presentIndex
  <2>1. PICK j \in DOMAIN log[i].ops : op = log[i].ops[j]
    BY <1>3 DEF OpsOf
  <2>2. op.id \in Nat
    BY <2>1, LogOps, OpIds
  <2>3. CASE i > presentIndex
    <3>1. ASSUME NEW other \in Accepted, other.kind = "present" PROVE other.id < op.id
      <4>1. PICK k \in DOMAIN log : other \in OpsOf(log[k].ops)
        BY <1>2
      <4>2. k <= presentIndex
        BY <3>1, <4>1 DEF FrameInv
      <4>3. k < i
        BY <1>0, <2>3, <4>2
      <4> QED BY <2>1, <4>1, <4>3 DEF OrderInv, InOrder, Precedes, OpsOf
    <3> QED BY <2>3, <3>1 DEF Order!InFrame
  <2>4. CASE i <= presentIndex
    <3>1. presentIndex \in DOMAIN log /\ presentIndex > 0
      BY <1>0, <2>4
    <3>2. PICK last \in OpsOf(log[presentIndex].ops) :
             last.kind = "present" /\ OpsOf(log[presentIndex].ops) = {last}
      BY <3>1 DEF FrameInv
    <3>3. last \in Accepted /\ last.id \in Nat
      BY <1>2, <3>1, <3>2, LogOps, OpIds DEF OpsOf
    <3>4. op.id <= last.id
      <4>1. CASE i < presentIndex
        <5>1. op.id < last.id
          BY <2>1, <3>1, <3>2, <4>1 DEF OrderInv, InOrder, Precedes, OpsOf
        <5> QED BY <2>2, <3>3, <5>1
      <4>2. CASE i = presentIndex
        BY <2>2, <3>2, <4>2, <1>3
      <4> QED BY <1>0, <2>4, <4>1, <4>2
    <3> QED BY <1>0, <2>2, <2>4, <3>2, <3>3, <3>4 DEF Order!InFrame
  <2> QED BY <1>0, <2>3, <2>4
<1>4. Order!Touching(s) = {n \in 1 .. issued : \E i \in UsesOf(s) : \E j \in DOMAIN log[i].ops :
                              log[i].ops[j].id = n /\ s \in Refs(log[i].ops[j])}
  <2> DEFINE touched == {n \in 1 .. issued : \E i \in UsesOf(s) : \E j \in DOMAIN log[i].ops :
                              log[i].ops[j].id = n /\ s \in Refs(log[i].ops[j])}
  <2>1. ASSUME NEW n \in Order!Touching(s) PROVE n \in touched
    <3>1. PICK op \in Accepted : n = op.id /\ s \in {op.target, op.source}
                                 /\ (s = Composition => Order!InFrame(op))
      BY <2>1 DEF Order!Touching
    <3>2. PICK i \in DOMAIN log : op \in OpsOf(log[i].ops)
      BY <1>2, <3>1
    <3>3. PICK j \in DOMAIN log[i].ops : op = log[i].ops[j]
      BY <3>2 DEF OpsOf
    <3>4. i \in UsesOf(s)
      BY <1>3, <3>1, <3>2, <3>3 DEF UsesOf, References, Refs
    <3>5. n \in 1 .. issued
      <4>1. op.id \in Nat /\ op.id >= 1 /\ op.id < issued + 1
        BY <3>2, <3>3, <3>1, LogOps, OpIds DEF FrameInv, OrderInv, Below
      <4> QED BY <1>0, <3>1, <4>1
    <3> QED BY <3>1, <3>3, <3>4, <3>5 DEF Refs
  <2>2. ASSUME NEW n \in touched PROVE n \in Order!Touching(s)
    <3>1. PICK i \in UsesOf(s) : \E j \in DOMAIN log[i].ops :
             log[i].ops[j].id = n /\ s \in Refs(log[i].ops[j])
      BY <2>2
    <3>2. PICK j \in DOMAIN log[i].ops : log[i].ops[j].id = n /\ s \in Refs(log[i].ops[j])
      BY <3>1
    <3>3. i \in DOMAIN log /\ log[i].ops[j] \in OpsOf(log[i].ops)
          /\ (s = Composition => i > presentIndex)
      BY <3>1, <3>2 DEF UsesOf, OpsOf
    <3>4. log[i].ops[j] \in Accepted /\ (s = Composition => Order!InFrame(log[i].ops[j]))
      BY <1>2, <1>3, <3>3
    <3> QED BY <3>2, <3>4 DEF Order!Touching, Refs
  <2> QED BY <2>1, <2>2
<1>5. Order!Touching(s) \subseteq ExecutedIds
  <2>1. ASSUME NEW n \in Order!Touching(s) PROVE n \in ExecutedIds
    <3>1. PICK i \in UsesOf(s) : \E j \in DOMAIN log[i].ops : log[i].ops[j].id = n
      BY <1>4, <2>1
    <3>2. i \in DOMAIN log /\ i \notin InFlight
      BY <3>1 DEF Access, UsesOf
    <3>3. i \in 1 .. done
      BY <1>0, <3>2 DEF InFlight
    <3> QED BY <3>1, <3>3 DEF ExecutedIds, IdsOf
  <2> QED BY <2>1
<1>6. seen' = Order!Touching(s) /\ Accepted' = Accepted /\ ExecutedIds' = ExecutedIds
  BY <1>4 DEF Access, Accepted, ExecutedIds, OpsOf, IdsOf, batchVars
<1>7. Order!Access(s)
  BY <1>5, <1>6 DEF Order!Access
<1> QED BY <1>0, <1>7 DEF Order!Next

\* Every step is a step of SdlOrder or changes nothing it knows of.
LEMMA StepRefines ==
  TypeInv /\ FlushInv /\ OrderInv /\ FrameInv /\ [Next]_vars
    => Order!Next \/ UNCHANGED Order!vars
<1> SUFFICES ASSUME TypeInv, FlushInv, OrderInv, FrameInv, [Next]_vars
             PROVE  Order!Next \/ UNCHANGED Order!vars
  OBVIOUS
<1> USE DEF batchVars, presentVars, sdlVars
<1>0. fills \in Seq(Op) /\ draws \in Seq(Op) /\ call.op \in Op
  BY DEF TypeInv, TypeOK, Call
<1>1. ASSUME UNCHANGED <<log, done, fills, draws, seen>> PROVE UNCHANGED Order!vars
  BY <1>1 DEF Order!vars, Accepted, ExecutedIds, OpsOf, IdsOf
<1>2. CASE Sdl
  <2>1. CASE BeginQueue
    BY <1>1, <2>1 DEF BeginQueue
  <2>2. CASE Sdl /\ ~BeginQueue
    <3>1. seen' = {} /\ UNCHANGED <<log, done, fills, draws>>
      BY <2>2 DEF Sdl, SubmitFill, SubmitBlendFill, SubmitDraw, Fallback, EndQueue,
         SetRenderTarget, UpdateTexture, RenderReadPixels, DestroyTexture, RenderPresent,
         Issue, Ask, Start
    <3>2. Accepted' = Accepted /\ ExecutedIds' = ExecutedIds
      BY <3>1 DEF Accepted, ExecutedIds, OpsOf, IdsOf
    <3> QED BY <3>1, <3>2 DEF Order!Next, Order!Forget
  <2> QED BY <1>2, <2>1, <2>2
<1>3. CASE Skip \/ WaitPresent \/ Leave \/ Retarget \/ FreeTexture
  BY <1>1, <1>3 DEF Skip, WaitPresent, Leave, Retarget, FreeTexture
<1>4. CASE WaitProgress \/ Overrun \/ RefusePresent \/ DeviceFails
  BY <1>1, <1>4 DEF WaitProgress, Overrun, RefusePresent, DeviceFails
<1>5. ASSUME NEW kind, Stall(kind) PROVE UNCHANGED Order!vars
  BY <1>1, <1>5 DEF Stall
\* Pushing what is already pending accepts nothing new.
<1>6. ASSUME NEW kind, NEW ops \in Seq(Op), Push(kind, ops), UNCHANGED <<done, seen>>,
             OpsOf(fills') \cup OpsOf(draws') \cup OpsOf(ops) = OpsOf(fills) \cup OpsOf(draws)
      PROVE  UNCHANGED Order!vars
  <2>1. Accepted' = (UNION {OpsOf(log'[i].ops) : i \in DOMAIN log'}) \cup OpsOf(fills') \cup OpsOf(draws')
    BY DEF Accepted, OpsOf
  <2>2. Accepted' = Accepted /\ ExecutedIds' = ExecutedIds
    BY <1>6, <2>1, PushAccepts DEF Accepted
  <2> QED BY <1>6, <2>2 DEF Order!vars
<1>7. OpsOf(<<>>) = {}
  BY DEF OpsOf
<1>8. CASE FlushFills
  <2>1. CASE Push("fillBatch", fills) /\ fills' = <<>> /\ draws' = draws /\ UNCHANGED <<done, seen>>
    BY <1>0, <1>6, <1>7, <2>1
  <2> QED BY <1>5, <1>8, <2>1 DEF FlushFills
<1>9. CASE FlushDraws
  <2>1. CASE Push("drawBatch", draws) /\ draws' = <<>> /\ fills' = fills /\ UNCHANGED <<done, seen>>
    BY <1>0, <1>6, <1>7, <2>1
  <2> QED BY <1>5, <1>9, <2>1 DEF FlushDraws
<1>10. pc \in {"append", "push"} => Unqueued
  BY StageKinds DEF Unqueued, IssuingKinds
<1>11. ASSUME NEW ops \in Seq(Op)
       PROVE  OpsOf(Append(ops, call.op)) = OpsOf(ops) \cup {call.op}
  BY AppendOps
<1>12. ASSUME pc = "append", UNCHANGED <<log, done, seen>>,
              OpsOf(fills') \cup OpsOf(draws') = OpsOf(fills) \cup OpsOf(draws) \cup {call.op}
       PROVE  Order!Next
  <2>1. Accepted' = (UNION {OpsOf(log[i].ops) : i \in DOMAIN log}) \cup OpsOf(fills') \cup OpsOf(draws')
    BY <1>12 DEF Accepted, OpsOf
  <2>2. Accepted' = Accepted \cup {call.op} /\ ExecutedIds' = ExecutedIds
    BY <1>12, <2>1 DEF Accepted, ExecutedIds, IdsOf
  <2> QED BY <1>10, <1>12, <2>2, AcceptRefines
<1>13. CASE AppendFill
  <2>1. /\ fills' = Append(fills, call.op) /\ draws' = draws /\ pc = "append"
        /\ UNCHANGED <<log, done, seen>>
    BY <1>13 DEF AppendFill
  <2>2. OpsOf(fills') = OpsOf(fills) \cup {call.op}
    BY <1>0, <1>11, <2>1
  <2> QED BY <1>12, <2>1, <2>2
<1>14. CASE AppendDraw
  <2>1. /\ draws' = Append(draws, call.op) /\ fills' = fills /\ pc = "append"
        /\ UNCHANGED <<log, done, seen>>
    BY <1>14 DEF AppendDraw
  <2>2. OpsOf(draws') = OpsOf(draws) \cup {call.op}
    BY <1>0, <1>11, <2>1
  <2> QED BY <1>12, <2>1, <2>2
<1>15. ASSUME NEW kind, Push(kind, <<call.op>>), pc = "push",
              UNCHANGED <<done, fills, draws, seen>>
       PROVE  Order!Next
  <2>1. <<call.op>> \in Seq(Op) /\ OpsOf(<<call.op>>) = {call.op}
    BY <1>0 DEF OpsOf
  <2>2. Accepted' = (UNION {OpsOf(log'[i].ops) : i \in DOMAIN log'}) \cup OpsOf(fills) \cup OpsOf(draws)
    BY <1>15 DEF Accepted, OpsOf
  <2>3. Accepted' = Accepted \cup {call.op} /\ ExecutedIds' = ExecutedIds
    BY <1>15, <2>1, <2>2, PushAccepts DEF Accepted
  <2> QED BY <1>10, <1>15, <2>3, AcceptRefines
<1>16. CASE PushSingle
  BY <1>5, <1>15, <1>16 DEF PushSingle
<1>17. CASE PushPresent
  BY <1>15, <1>17 DEF PushPresent
<1>18. CASE Access
  BY <1>18, AccessRefines
<1>19. CASE Execute
  BY <1>19, ExecuteRefines
<1>20. CASE UNCHANGED vars
  BY <1>1, <1>20 DEF vars
<1> QED BY <1>2, <1>3, <1>4, <1>8, <1>9, <1>13, <1>14, <1>16, <1>17, <1>18, <1>19, <1>20
     DEF Next, Thread

(* The batches, the ring and the core's progress implement the order SDL   *)
(* expects, and a CPU access finds exactly the operations accepted before  *)
(* it executed, for every size of batches, ring and tables and however     *)
(* many device calls fail (EnsureCPU, EnsureGPU, FlushQueued).             *)
THEOREM QueueRefinesOrder == Spec => ImplementsSdlOrder
<1>1. Init => FrameInv
  BY SizesAssumption DEF Init, FrameInv, Accepted, OpsOf, Unqueued, OpOf, OpKinds, IssuingKinds
<1>2. Spec => []TypeInv
  BY InitType, TypeStep, PTL DEF Spec
<1>3. QueueInv => FlushInv /\ OrderInv
  BY DEF QueueInv
<1>4. Spec => []FrameInv
  BY <1>1, <1>2, <1>3, FrameStep, QueueInvariant, PTL DEF Spec
<1> QED BY <1>2, <1>3, <1>4, InitRefines, StepRefines, QueueInvariant, PTL
     DEF Spec, ImplementsSdlOrder, Order!Spec

=============================================================================
