--------------------------- MODULE RunScriptProofs ---------------------------
(***************************************************************************)
(* What a run of RunScript leaves behind, for any number of runs and of    *)
(* signals.                                                                *)
(***************************************************************************)
EXTENDS Protocols, TLAPS

Stages == {"size", "dd", "mkswap", "swapon", "losetup", "swapon loop", "echo"} \cup Script!GivenUp

ScriptTypes ==
  /\ swapOn \in [Script!Runs -> Stages]
  /\ trapped \in Nat
  /\ late \in BOOLEAN /\ abnormal \in BOOLEAN

\* No background process sets anything up any more.
AllGivenUp == \A r \in Script!Runs : swapOn[r] \in Script!GivenUp

Beginning == {"read", "off dd", "off swap", "off restore", "swap on", "mode",
              "child", "trap", "wait"}
Undoing == {"end dd", "end swap", "end restore", "video"}

\* Two waits: a game that still runs has cost a signal for each one passed.
GameFirst ==
  /\ script \in Beginning => trapped = 0
  /\ script = "wait again" /\ trapped = 0 => child = "ended"
  /\ script \in Undoing /\ trapped <= 1 => child = "ended"

\* From the end of dd on, unless swap_off was late, nothing sets swap up, and
\* what it did not detach is all there is.
SwapUndone ==
  ~late => /\ script \in {"end swap", "end restore", "video", "ended"} => AllGivenUp
           /\ script \in {"end restore", "video", "ended"} =>
                \A p \in Script!Places \ left : swap[p] = "none"

\* While every run so far ended by itself, and in time, the swappiness read
\* is the user's, and is written back.
UserKept ==
  /\ late \/ script = "killed" => abnormal
  /\ ~abnormal =>
       /\ old = "user"
       /\ script \in {"video", "ended", "read"} => swappiness = "user"
       /\ script = "read" => AllGivenUp

\* ... and a mode other than the menu's is one this run has to restore.
VideoKept ==
  ~abnormal => \/ video = "menu"
               \/ switched /\ script \in {"child", "trap", "wait", "wait again"} \cup Undoing

ScriptInv == ScriptTypes /\ GameFirst /\ SwapUndone /\ UserKept /\ VideoKept

\* A machine on which run.sh never ran is as the user left it.
LEMMA ScriptInit == Script!Init => ScriptInv
<1> SUFFICES ASSUME Script!Init PROVE ScriptInv
  OBVIOUS
<1>1. ScriptTypes
  BY DEF Script!Init, ScriptTypes, Stages, Script!GivenUp, Script!Finished
<1>2. AllGivenUp
  BY DEF Script!Init, AllGivenUp, Script!GivenUp, Script!Finished
<1>3. GameFirst /\ SwapUndone /\ UserKept /\ VideoKept
  BY <1>2 DEF Script!Init, GameFirst, SwapUndone, UserKept, VideoKept, Beginning, Undoing
<1> QED
  BY <1>1, <1>3 DEF ScriptInv

(* The steps of the script before it starts the game.                      *)
LEMMA BeginStep ==
  ASSUME ScriptInv,
         \/ Script!Start \/ Script!ReadSwappiness
         \/ Script!StartSwapOn \/ Script!SwitchVideo
  PROVE  ScriptInv'
<1> USE DEF ScriptInv
<1>1. CASE Script!Start
  <2> USE <1>1 DEF Script!Start
  <2>1. ScriptTypes'
    BY DEF ScriptTypes, Stages, Script!GivenUp, Script!Finished
  <2>2. GameFirst'
    BY DEF ScriptTypes, GameFirst, Beginning, Undoing
  <2>3. SwapUndone'
    BY DEF SwapUndone, UserKept, AllGivenUp
  <2>4. UserKept'
    BY DEF SwapUndone, UserKept, AllGivenUp
  <2>5. VideoKept'
    BY DEF UserKept, VideoKept, Undoing
  <2> QED
    BY <2>1, <2>2, <2>3, <2>4, <2>5
<1>2. CASE Script!ReadSwappiness
  <2> USE <1>2 DEF Script!ReadSwappiness, Script!Goes
  <2>1. ScriptTypes'
    BY DEF ScriptTypes, Stages, Script!GivenUp, Script!Finished
  <2>2. GameFirst'
    BY DEF ScriptTypes, GameFirst, Beginning, Undoing
  <2>3. SwapUndone'
    BY DEF SwapUndone, UserKept, AllGivenUp
  <2>4. UserKept'
    BY DEF SwapUndone, UserKept, AllGivenUp
  <2>5. VideoKept'
    BY DEF UserKept, VideoKept, Undoing
  <2> QED
    BY <2>1, <2>2, <2>3, <2>4, <2>5
<1>3. CASE Script!StartSwapOn
  <2> USE <1>3 DEF Script!StartSwapOn, Script!Goes
  <2>1. ScriptTypes'
    BY DEF ScriptTypes, Stages, Script!GivenUp, Script!Finished
  <2>2. GameFirst'
    BY DEF ScriptTypes, GameFirst, Beginning, Undoing
  <2>3. SwapUndone'
    BY DEF SwapUndone, UserKept, AllGivenUp
  <2>4. UserKept'
    BY DEF SwapUndone, UserKept, AllGivenUp
  <2>5. VideoKept'
    BY DEF UserKept, VideoKept, Undoing
  <2> QED
    BY <2>1, <2>2, <2>3, <2>4, <2>5
<1>4. CASE Script!SwitchVideo
  <2> USE <1>4 DEF Script!SwitchVideo, Script!Goes
  <2>1. ScriptTypes'
    BY DEF ScriptTypes, Stages, Script!GivenUp, Script!Finished
  <2>2. GameFirst'
    BY DEF ScriptTypes, GameFirst, Beginning, Undoing
  <2>3. SwapUndone'
    BY DEF SwapUndone, UserKept, AllGivenUp
  <2>4. UserKept'
    BY DEF SwapUndone, UserKept, AllGivenUp
  <2>5. VideoKept'
    BY DEF UserKept, VideoKept, Undoing
  <2> QED
    BY <2>1, <2>2, <2>3, <2>4, <2>5
<1> QED
  BY <1>1, <1>2, <1>3, <1>4

(* The steps about the game, and the last one of a run.                    *)
LEMMA GameStep ==
  ASSUME ScriptInv,
         \/ Script!StartChild \/ Script!SetTrap \/ Script!Wait
         \/ Script!ChildEnds \/ Script!RestoreVideo
  PROVE  ScriptInv'
<1> USE DEF ScriptInv
<1>1. CASE Script!StartChild
  <2> USE <1>1 DEF Script!StartChild, Script!Goes
  <2>1. ScriptTypes'
    BY DEF ScriptTypes, Stages, Script!GivenUp, Script!Finished
  <2>2. GameFirst'
    BY DEF ScriptTypes, GameFirst, Beginning, Undoing
  <2>3. SwapUndone'
    BY DEF SwapUndone, UserKept, AllGivenUp
  <2>4. UserKept'
    BY DEF SwapUndone, UserKept, AllGivenUp
  <2>5. VideoKept'
    BY DEF UserKept, VideoKept, Undoing
  <2> QED
    BY <2>1, <2>2, <2>3, <2>4, <2>5
<1>2. CASE Script!SetTrap
  <2> USE <1>2 DEF Script!SetTrap, Script!Goes
  <2>1. ScriptTypes'
    BY DEF ScriptTypes, Stages, Script!GivenUp, Script!Finished
  <2>2. GameFirst'
    BY DEF ScriptTypes, GameFirst, Beginning, Undoing
  <2>3. SwapUndone'
    BY DEF SwapUndone, UserKept, AllGivenUp
  <2>4. UserKept'
    BY DEF SwapUndone, UserKept, AllGivenUp
  <2>5. VideoKept'
    BY DEF UserKept, VideoKept, Undoing
  <2> QED
    BY <2>1, <2>2, <2>3, <2>4, <2>5
<1>3. CASE Script!Wait
  <2> USE <1>3 DEF Script!Wait, Script!AfterWait, Script!Waiting
  <2>1. ScriptTypes'
    BY DEF ScriptTypes, Stages, Script!GivenUp, Script!Finished
  <2>2. GameFirst'
    BY DEF ScriptTypes, GameFirst, Beginning, Undoing
  <2>3. SwapUndone'
    BY DEF SwapUndone, UserKept, AllGivenUp
  <2>4. UserKept'
    BY DEF SwapUndone, UserKept, AllGivenUp
  <2>5. VideoKept'
    BY DEF UserKept, VideoKept, Undoing
  <2> QED
    BY <2>1, <2>2, <2>3, <2>4, <2>5
<1>4. CASE Script!ChildEnds
  <2> USE <1>4 DEF Script!ChildEnds
  <2>1. ScriptTypes'
    BY DEF ScriptTypes, Stages, Script!GivenUp, Script!Finished
  <2>2. GameFirst'
    BY DEF ScriptTypes, GameFirst, Beginning, Undoing
  <2>3. SwapUndone'
    BY DEF SwapUndone, UserKept, AllGivenUp
  <2>4. UserKept'
    BY DEF SwapUndone, UserKept, AllGivenUp
  <2>5. VideoKept'
    BY DEF UserKept, VideoKept, Undoing
  <2> QED
    BY <2>1, <2>2, <2>3, <2>4, <2>5
<1>5. CASE Script!RestoreVideo
  <2> USE <1>5 DEF Script!RestoreVideo, Script!Goes
  <2>1. ScriptTypes'
    BY DEF ScriptTypes, Stages, Script!GivenUp, Script!Finished
  <2>2. GameFirst'
    BY DEF ScriptTypes, GameFirst, Beginning, Undoing
  <2>3. SwapUndone'
    BY DEF SwapUndone, UserKept, AllGivenUp
  <2>4. UserKept'
    BY DEF SwapUndone, UserKept, AllGivenUp
  <2>5. VideoKept'
    BY DEF UserKept, VideoKept, Undoing
  <2> QED
    BY <2>1, <2>2, <2>3, <2>4, <2>5
<1> QED
  BY <1>1, <1>2, <1>3, <1>4, <1>5

(* Both calls of swap_off.                                                 *)
LEMMA SwapOffStep ==
  ASSUME ScriptInv, Script!SwapOff
  PROVE  ScriptInv'
<1> USE DEF ScriptInv
<1>1. /\ abnormal' = (abnormal \/ late')
      /\ UNCHANGED <<run, old, video, switched, child, signals, trapped>>
  BY DEF Script!SwapOff
<1>2. \/ Script!Off("off dd", "off swap", "off restore", "swap on")
      \/ Script!Off("end dd", "end swap", "end restore", "video")
  BY DEF Script!SwapOff
<1>3. ScriptTypes'
  <2>1. late' \in BOOLEAN /\ abnormal' \in BOOLEAN
    BY <1>1, <1>2, Zenon DEF Script!Off, ScriptTypes
  <2>2. swapOn' \in [Script!Runs -> Stages]
    BY <1>2 DEF Script!Off, Script!Stopped, ScriptTypes, Stages, Script!GivenUp
  <2> QED
    BY <1>1, <2>1, <2>2 DEF ScriptTypes
<1>4. (abnormal \/ late' => abnormal') /\ (abnormal' => abnormal \/ late')
  BY <1>1, Zenon
<1>5. CASE Script!Off("off dd", "off swap", "off restore", "swap on")
  <2>1. /\ script \in {"off dd", "off swap", "off restore"}
        /\ script' \in {"off swap", "off restore", "swap on"}
    BY <1>5 DEF Script!Off, Script!Goes
  <2>2. GameFirst' /\ SwapUndone' /\ VideoKept'
    BY <1>1, <1>4, <2>1 DEF GameFirst, Beginning, SwapUndone, VideoKept, Undoing
  <2>3. UserKept'
    BY <1>1, <1>4, <2>1 DEF UserKept
  <2> QED
    BY <1>3, <2>2, <2>3
<1>6. CASE Script!Off("end dd", "end swap", "end restore", "video")
  <2>1. /\ script \in {"end dd", "end swap", "end restore"}
        /\ script' \in {"end swap", "end restore", "video"}
    BY <1>6 DEF Script!Off, Script!Goes
  <2>2. GameFirst' /\ VideoKept'
    BY <1>1, <1>4, <2>1 DEF GameFirst, Beginning, VideoKept, Undoing
  <2>3. CASE script = "end dd"
    <3>1. /\ script' = "end swap" /\ UNCHANGED <<swap, swappiness>>
          /\ swapOn' = [r \in Script!Runs |-> Script!Stopped(swapOn[r])]
      BY <1>6, <2>3 DEF Script!Off, Script!Goes
    <3>2. late' \/ \A r \in Script!Runs : swapOn[r] \in Script!GivenUp \cup {"dd"}
      BY <1>6, <2>3, Zenon DEF Script!Off, Script!Goes
    <3>3. late' \/ AllGivenUp'
      BY <3>1, <3>2 DEF AllGivenUp, Script!Stopped, Script!GivenUp
    <3> QED
      BY <1>1, <1>3, <1>4, <2>2, <3>1, <3>3 DEF SwapUndone, UserKept
  <2>4. CASE script = "end swap"
    <3>1. /\ script' = "end restore" /\ UNCHANGED <<swapOn, swappiness, late>>
          /\ left' = {p \in Script!Places : swap'[p] # "none"}
      BY <1>6, <2>4 DEF Script!Off, Script!Goes, Script!Detach
    <3>2. AllGivenUp => AllGivenUp'
      BY <3>1 DEF AllGivenUp
    <3> QED
      BY <1>1, <1>3, <1>4, <2>2, <2>4, <3>1, <3>2 DEF SwapUndone, UserKept
  <2>5. CASE script = "end restore"
    <3>1. script' = "video" /\ swappiness' = old /\ UNCHANGED <<swapOn, swap, late, left>>
      BY <1>6, <2>5 DEF Script!Off, Script!Goes
    <3>2. AllGivenUp => AllGivenUp'
      BY <3>1 DEF AllGivenUp
    <3> QED
      BY <1>1, <1>3, <1>4, <2>2, <2>5, <3>1, <3>2 DEF SwapUndone, UserKept
  <2> QED
    BY <2>1, <2>3, <2>4, <2>5
<1> QED
  BY <1>2, <1>5, <1>6

(* The background set-up moves only while it is not finished, and sets     *)
(* nothing up once it has given up.                                        *)
LEMMA SwapOnStep ==
  ASSUME ScriptInv, NEW r \in Script!Runs, Script!SwapOn(r)
  PROVE  ScriptInv'
<1> USE DEF ScriptInv
<1>1. UNCHANGED <<script, old, video, switched, child, trapped, late, left, abnormal>>
  BY DEF Script!SwapOn
<1>2. ScriptTypes'
  BY DEF ScriptTypes, Stages, Script!GivenUp, Script!Finished, Script!SwapOn, Script!Moves
<1>3. GameFirst' /\ VideoKept'
  BY <1>1 DEF GameFirst, VideoKept, Undoing
<1>4. CASE swapOn[r] = "remove"
  <2>1. /\ swapOn' = [swapOn EXCEPT ![r] = "done"]
        /\ UNCHANGED <<swap, swappiness>>
    BY <1>4 DEF Script!SwapOn, Script!Moves
  <2>2. AllGivenUp => AllGivenUp'
    BY <2>1 DEF AllGivenUp, ScriptTypes, Script!GivenUp, Script!Finished
  <2>3. SwapUndone' /\ UserKept'
    BY <1>1, <2>1, <2>2 DEF SwapUndone, UserKept
  <2> QED
    BY <1>2, <1>3, <2>3
<1>5. CASE swapOn[r] # "remove"
  <2>1. swapOn[r] \notin Script!GivenUp
    BY <1>5 DEF Script!SwapOn, Script!Moves, Script!GivenUp, Script!Finished
  <2>2. ~AllGivenUp
    BY <2>1 DEF AllGivenUp
  <2>3. late \/ script \notin {"end swap", "end restore", "video", "ended"}
    BY <2>2 DEF SwapUndone
  <2>4. SwapUndone'
    BY <1>1, <2>3 DEF SwapUndone
  <2>5. abnormal \/ (~late /\ script \notin {"video", "ended", "read"})
    BY <2>2, <2>3 DEF UserKept
  <2>6. UserKept'
    BY <1>1, <2>5 DEF UserKept
  <2> QED
    BY <1>2, <1>3, <2>4, <2>6
<1> QED
  BY <1>4, <1>5

(* TERM ends the script, or the wait or command it is in, and the          *)
(* background set-up.                                                      *)
LEMMA TerminateStep ==
  ASSUME ScriptInv, Script!Terminate
  PROVE  ScriptInv'
<1> USE DEF ScriptInv
<1>1. /\ UNCHANGED <<run, old, file, swap, swappiness, video, switched, child>>
      /\ swapOn' = [swapOn EXCEPT ![run] = IF @ \in Script!Finished THEN @ ELSE "dead"]
  BY DEF Script!Terminate
<1>2. swapOn' \in [Script!Runs -> Stages]
  BY <1>1 DEF ScriptTypes, Stages, Script!GivenUp, Script!Finished
<1>3. AllGivenUp => AllGivenUp'
  BY <1>1 DEF AllGivenUp, ScriptTypes, Script!GivenUp, Script!Finished
<1>4. CASE script \in Script!Trapping /\ script' = Script!AfterWait(script)
           /\ trapped' = trapped + 1 /\ UNCHANGED <<late, left, abnormal>>
  <2>1. ScriptTypes'
    BY <1>2, <1>4 DEF ScriptTypes
  <2>2. GameFirst'
    <3>1. CASE script = "wait"
      <4>1. trapped = 0
        BY <3>1 DEF GameFirst, Beginning
      <4>2. script' = "wait again"
        BY <1>4, <3>1 DEF Script!AfterWait
      <4>3. trapped' # 0
        BY <1>4, <4>1
      <4> QED
        BY <4>2, <4>3 DEF GameFirst, Beginning, Undoing
    <3>2. CASE script = "wait again"
      <4>1. script' = "end dd" /\ child' = child
        BY <1>1, <1>4, <3>2 DEF Script!Waiting, Script!AfterWait
      <4>2. trapped' <= 1 => trapped = 0
        BY <1>4 DEF ScriptTypes
      <4> QED
        BY <3>2, <4>1, <4>2 DEF GameFirst, Beginning, Undoing
    <3>3. CASE script \in Undoing
      <4>1. script' = script /\ child' = child
        BY <1>1, <1>4, <3>3 DEF Undoing, Script!Waiting, Script!AfterWait
      <4>2. trapped' <= 1 => trapped <= 1
        BY <1>4 DEF ScriptTypes
      <4> QED
        BY <3>3, <4>1, <4>2 DEF GameFirst, Beginning, Undoing
    <3> QED
      BY <1>4, <3>1, <3>2, <3>3 DEF Script!Trapping, Script!Waiting, Undoing
  <2>3. SwapUndone' /\ UserKept'
    BY <1>1, <1>3, <1>4 DEF SwapUndone, UserKept, Script!Trapping, Script!Waiting,
       Script!AfterWait
  <2>4. VideoKept'
    BY <1>1, <1>4 DEF VideoKept, Undoing, Script!Trapping, Script!Waiting, Script!AfterWait
  <2> QED
    BY <2>1, <2>2, <2>3, <2>4
<1>5. CASE script \notin Script!Trapping /\ script' = "killed" /\ abnormal' = TRUE
           /\ UNCHANGED <<trapped, late, left>>
  <2>1. ScriptTypes'
    BY <1>2, <1>5 DEF ScriptTypes
  <2>2. GameFirst' /\ SwapUndone' /\ UserKept' /\ VideoKept'
    BY <1>5 DEF GameFirst, Beginning, Undoing, SwapUndone, UserKept, VideoKept
  <2> QED
    BY <2>1, <2>2
<1>6. CASE Script!CutShort /\ trapped' = trapped + 1
  <2>1. trapped' = trapped + 1 /\ trapped \in Nat /\ trapped' \in Nat
    BY <1>6 DEF ScriptTypes
  <2>2. trapped' <= 1 => trapped <= 1
    <3> HIDE DEF ScriptInv
    <3> QED
      BY <2>1
  <2>3. CASE /\ script = "end dd" /\ script' = "end swap" /\ left' = left
             /\ late' = (\E r \in Script!Runs : swapOn'[r] \notin Script!GivenUp)
             /\ abnormal' = (abnormal \/ late')
    <3>1. late' \in BOOLEAN /\ abnormal' \in BOOLEAN
      BY <2>3, Zenon
    <3>2. ScriptTypes'
      BY <1>2, <2>1, <3>1 DEF ScriptTypes
    <3>3. late' \/ AllGivenUp'
      BY <2>3, Zenon DEF AllGivenUp
    <3>4. GameFirst'
      BY <1>1, <2>2, <2>3 DEF GameFirst, Beginning, Undoing
    <3>5. SwapUndone'
      BY <2>3, <3>3 DEF SwapUndone
    <3>6. (abnormal \/ late' => abnormal') /\ (abnormal' \/ ~abnormal)
      BY <2>3, Zenon
    <3>7. UserKept' /\ VideoKept'
      BY <1>1, <2>3, <3>6 DEF UserKept, VideoKept, Undoing
    <3> QED
      BY <3>2, <3>4, <3>5, <3>7
  <2>4. CASE /\ script = "end swap" /\ script' = "end restore"
             /\ left' = {p \in Script!Places : swap[p] # "none"}
             /\ late' = late /\ abnormal' = abnormal
    <3>1. ScriptTypes'
      BY <1>2, <2>1, <2>4 DEF ScriptTypes
    <3>2. GameFirst' /\ VideoKept' /\ UserKept'
      BY <1>1, <2>2, <2>4 DEF GameFirst, Beginning, VideoKept, UserKept, Undoing
    <3>3. SwapUndone'
      BY <1>1, <1>3, <2>4 DEF SwapUndone
    <3> QED
      BY <3>1, <3>2, <3>3
  <2> QED
    BY <1>6, <2>3, <2>4, Zenon DEF Script!CutShort, Script!Goes
<1> QED
  BY <1>4, <1>5, <1>6 DEF Script!Terminate

(* KILL ends everything that runs.                                        *)
LEMMA KillStep ==
  ASSUME ScriptInv, Script!Kill
  PROVE  ScriptInv'
<1> USE DEF ScriptInv, Script!Kill
<1>1. ScriptTypes'
  BY DEF ScriptTypes, Stages, Script!GivenUp, Script!Finished
<1>2. GameFirst'
  BY DEF ScriptTypes, GameFirst, Beginning, Undoing
<1>3. SwapUndone'
  BY DEF SwapUndone, UserKept, AllGivenUp
<1>4. UserKept'
  BY DEF SwapUndone, UserKept, AllGivenUp
<1>5. VideoKept'
  BY DEF UserKept, VideoKept, Undoing
<1> QED
  BY <1>1, <1>2, <1>3, <1>4, <1>5

\* Every step of the script, its background process, the game and
\* whoever sends signals keeps the invariant.
LEMMA ScriptStep ==
  ASSUME ScriptInv, [Script!Next]_Script!vars
  PROVE  ScriptInv'
<1>1. CASE UNCHANGED Script!vars
  BY <1>1 DEF Script!vars, ScriptInv, ScriptTypes, GameFirst, SwapUndone, AllGivenUp,
              UserKept, VideoKept
<1>2. CASE Script!Next
  BY <1>2, BeginStep, GameStep, SwapOffStep, SwapOnStep, TerminateStep, KillStep DEF Script!Next
<1> QED
  BY <1>1, <1>2

(* For any number of runs and signals: nothing is undone under a running   *)
(* game when one signal came, and a run that ends by itself leaves no swap *)
(* attached but what swap_off was refused or kept from detaching, nor, if  *)
(* the runs before it ended so, a mode or a swappiness of its own (run.sh, *)
(* from the trap to its end).                                              *)
THEOREM RunsEndClean == Script!Spec => []Script!EndsClean
<1>1. Script!Init => ScriptInv
  BY ScriptInit
<1>2. ScriptInv /\ [Script!Next]_Script!vars => ScriptInv'
  BY ScriptStep
<1>3. ScriptInv => Script!EndsClean
  BY DEF ScriptInv, GameFirst, SwapUndone, UserKept, VideoKept, Script!EndsClean, Undoing
<1> QED
  BY <1>1, <1>2, <1>3, PTL DEF Script!Spec

\* In Protocols the steps of the others leave it alone.
LEMMA ScriptAlone == Spec => Script!Spec
<1>1. Init => Script!Init
  BY DEF Init
<1>2. [Next]_vars => [Script!Next]_Script!vars
  BY DEF Next, vars, scriptVars, Script!vars
<1> QED
  BY <1>1, <1>2, PTL DEF Spec, Script!Spec

(* Among the protocols too, runs of run.sh end clean.                      *)
THEOREM ScriptEndsClean == Spec => []EndsClean
BY ScriptAlone, RunsEndClean, PTL DEF EndsClean

=============================================================================
