------------------------ MODULE AccountRecoveryProofs ------------------------
(***************************************************************************)
(* A recovery is completed only when every safe has changed its owner, for *)
(* any number of safes, launches and late messages.  The page credits the  *)
(* swap it takes for current, whatever a message is about; the proof rests *)
(* on there being at most one success on its way, and on its being about   *)
(* that swap: a wallet does not sign twice for one safe.                   *)
(***************************************************************************)
EXTENDS AccountRecovery, TLAPS

Messages == {"success", "failure", "closed"}
Successes(q) == {i \in 1..Len(q) : q[i] = "success"}
AtMostOne(q) == \A i, j \in Successes(q) : i = j

\* An open window shows the current swap, which only the page of approvals has.
WindowIsCurrent ==
  /\ window # NoTxn <=> session \notin {"none", "lost"}
  /\ window # NoTxn => window = current
  /\ current # NoTxn => Approving /\ txns[current] # "completed"

\* A success on its way is the only one, and is true of the current swap.
SuccessIsTrue ==
  /\ AtMostOne(events)
  /\ Successes(events) # {} =>
       session # "sent" /\ current # NoTxn /\ current \in swapped

CompletedAreSwapped == OfStatus("completed") \subseteq swapped
FailedIsCurrent == OfStatus("failed") \subseteq {current}
CompletionIsDue == completion # "none" => AllCompleted

\* An answer to a preparation finds no page of approvals.
PreparingIsBefore == preparing => screen = "recovery" /\ step \in {"pick", "password"}

Inv ==
  /\ PreparingIsBefore /\ TypeOK /\ WindowIsCurrent /\ SuccessIsTrue
  /\ CompletedAreSwapped /\ FailedIsCurrent /\ CompletionIsDue

-----------------------------------------------------------------------------
(* The messages on their way.                                              *)

LEMMA TailOfOne ==
  ASSUME NEW q \in Seq(Messages), q # <<>>, AtMostOne(q)
  PROVE  /\ Tail(q) \in Seq(Messages) /\ AtMostOne(Tail(q))
         /\ Successes(q) = {} => Successes(Tail(q)) = {}
         /\ Head(q) = "success" => Successes(q) # {} /\ Successes(Tail(q)) = {}
<1>1. /\ Tail(q) \in Seq(Messages) /\ Len(q) \in Nat \ {0}
      /\ Len(Tail(q)) = Len(q) - 1
  OBVIOUS
<1>2. \A i \in 1..Len(Tail(q)) : i + 1 \in 1..Len(q) /\ Tail(q)[i] = q[i + 1]
  BY <1>1
<1>3. \A i \in Successes(Tail(q)) : i \in Nat /\ i >= 1 /\ i + 1 \in Successes(q)
  BY <1>1, <1>2 DEF Successes
<1>4. AtMostOne(Tail(q))
  BY <1>3 DEF AtMostOne
<1>5. ASSUME Head(q) = "success" PROVE 1 \in Successes(q)
  BY <1>1, <1>5 DEF Successes
<1>6. ASSUME Head(q) = "success" PROVE Successes(Tail(q)) = {}
  <2>1. ASSUME NEW i \in Successes(Tail(q)) PROVE FALSE
    <3>1. i + 1 = 1
      BY <1>3, <1>5, <1>6, <2>1 DEF AtMostOne
    <3> QED BY <3>1, <1>3, <2>1
  <2> QED BY <2>1
<1> QED BY <1>1, <1>3, <1>4, <1>5, <1>6

LEMMA AppendOther ==
  ASSUME NEW q \in Seq(Messages), NEW e \in Messages, e # "success"
  PROVE  Append(q, e) \in Seq(Messages) /\ Successes(Append(q, e)) = Successes(q)
BY DEF Successes

LEMMA AppendSuccess ==
  ASSUME NEW q \in Seq(Messages), Successes(q) = {}
  PROVE  Append(q, "success") \in Seq(Messages) /\ AtMostOne(Append(q, "success"))
BY DEF Successes, AtMostOne, Messages

\* Closing the window adds no success and ends its session.
LEMMA Closing ==
  ASSUME TypeOK, WindowIsCurrent, NEW q \in Seq(Messages), CloseWindow(q)
  PROVE  /\ events' \in Seq(Messages) /\ Successes(events') = Successes(q)
         /\ window' = NoTxn /\ session' \in {"none", "lost"}
<1>1. CASE window = NoTxn
  BY <1>1 DEF CloseWindow, WindowIsCurrent
<1>2. CASE window # NoTxn
  <2>1. events' = Append(q, "closed") /\ window' = NoTxn /\ session' = "none"
    BY <1>2 DEF CloseWindow
  <2> QED BY <2>1, AppendOther DEF Messages
<1> QED BY <1>1, <1>2

-----------------------------------------------------------------------------
(* Types.                                                                  *)

LEMMA EffectType ==
  ASSUME NEW w \in Welcomes, NEW st
  PROVE  Effect(w, st) \in Welcomes
BY DEF Effect, Checked, Welcomes

LEMMA MountedType == ASSUME NEW st PROVE Mounted(st) \in Welcomes
<1>1. [setup |-> "Loading", checked |-> FALSE, asking |-> FALSE, late |-> FALSE]
        \in Welcomes
  BY DEF Welcomes
<1> QED BY <1>1, EffectType DEF Mounted

LEMMA ShownType ==
  ASSUME NEW w \in Welcomes, NEW st
  PROVE  Shown(w, st) \in Welcomes
BY EffectType DEF Shown

\* The gateway's messages stay messages.
LEMMA EventsStep == Inv /\ [Next]_vars => events' \in Seq(Messages)
<1> SUFFICES ASSUME Inv, [Next]_vars PROVE events' \in Seq(Messages)
  OBVIOUS
<1>0. events \in Seq(Messages) /\ <<>> \in Seq(Messages)
  BY DEF Inv, TypeOK, Messages
<1>1. ASSUME NEW q \in Seq(Messages), CloseWindow(q) PROVE events' \in Seq(Messages)
  BY <1>1, Closing DEF Inv
<1>2. ASSUME NEW e \in Messages, events' = Append(events, e) PROVE events' \in Seq(Messages)
  BY <1>0, <1>2
<1>3. events # <<>> => Tail(events) \in Seq(Messages)
  BY <1>0
<1>4. CASE Restart BY <1>0, <1>4 DEF Restart
<1>5. CASE Report BY <1>2, <1>5 DEF Report, Messages
<1>6. CASE ModalClosed BY <1>0, <1>1, <1>6 DEF ModalClosed
<1>7. CASE Ignored BY <1>3, <1>7 DEF Ignored
<1>8. CASE SucceededTaken BY <1>1, <1>3, <1>8 DEF SucceededTaken, Taken
<1>9. CASE FailedTaken BY <1>3, <1>9 DEF FailedTaken, Taken
<1>10. CASE ClosedTaken BY <1>1, <1>3, <1>10 DEF ClosedTaken, Taken
<1>11. CASE UNCHANGED events BY <1>0, <1>11
<1>12. UNCHANGED events \/ Restart \/ Report \/ ModalClosed \/ Ignored
       \/ SucceededTaken \/ FailedTaken \/ ClosedTaken
  BY DEF Next, vars, welcoming, approval, gateway, chain, StatusAnswers, StatusFails,
     StatusBecomes, GoOnline, GoOffline, AccountAnswers, Login, ViewRecoveryOptions,
     BackupWalletChosen, Back, GoTo, RecoveryAbandoned, BackToWelcome,
     PasswordSubmitted, RecoveryPrepared, BackupWalletFunded, PageLoaded, Sign, Mined,
     Dropped, WindowDestroyed, OpenWallet, Retry, Open, ShowWindow, CompletionBegins,
     CompletionPosted, CompletionAnswers, BackToLogin
<1> QED BY <1>4, <1>5, <1>6, <1>7, <1>8, <1>9, <1>10, <1>11, <1>12

LEMMA TypeStep == Inv /\ [Next]_vars => TypeOK'
<1> SUFFICES ASSUME Inv, [Next]_vars PROVE TypeOK'
  OBVIOUS
<1>0. TypeOK /\ events' \in Seq({"success", "failure", "closed"})
  BY EventsStep DEF Inv, Messages
<1> USE SomeSafe, LaunchesAreBounded DEF TypeOK, welcoming, approval, gateway, chain
<1>1. CASE Restart
  <2>1. welcome' \in Welcomes BY <1>1, MountedType DEF Restart
  <2>2. launches' \in 1..MaxLaunches BY <1>0, <1>1 DEF Restart
  <2> QED BY <1>0, <1>1, <2>1, <2>2 DEF Restart, FirstStatus, FreshApproval, PrepareLeft
<1>2. CASE StatusAnswers \/ StatusFails
  BY <1>0, <1>2, ShownType DEF StatusAnswers, StatusFails, StatusBecomes
<1>3. CASE GoOffline
  <2>1. online' \in BOOLEAN BY <1>3 DEF GoOffline
  <2> QED BY <1>0, <1>3, <2>1 DEF GoOffline
<1>4. CASE GoOnline
  <2>1. \A w \in Welcomes, b \in BOOLEAN : [w EXCEPT !.late = b] \in Welcomes
    BY DEF Welcomes
  <2>3. welcome' \in Welcomes
    <3> DEFINE w == Shown(welcome, status')
    <3>1. w \in Welcomes BY <1>0, ShownType
    <3>2. \E b \in BOOLEAN : welcome' = [w EXCEPT !.late = b]
      <4> DEFINE b == w.late \/ (status' # status /\ welcome.checked)
      <4>1. welcome' = [w EXCEPT !.late = b] BY <1>4 DEF GoOnline
      <4>2. b \in BOOLEAN OBVIOUS
      <4> QED BY <4>1, <4>2
    <3> HIDE DEF w
    <3> QED BY <2>1, <3>1, <3>2
  <2>4. status' \in {"idle", "loading", "none", "swaps", "error"} /\ online' \in BOOLEAN
    BY <1>0, <1>4 DEF GoOnline
  <2> QED BY <1>0, <1>4, <2>3, <2>4 DEF GoOnline
<1>5. CASE AccountAnswers
  <2>1. \A s \in {"True", "Error"} :
          [welcome EXCEPT !.setup = s, !.asking = FALSE] \in Welcomes
    BY <1>0 DEF Welcomes
  <2>2. welcome' \in Welcomes
    BY <1>5, <2>1, EffectType DEF AccountAnswers
  <2> QED BY <1>0, <1>5, <2>2 DEF AccountAnswers
<1>6. CASE Login BY <1>0, <1>6 DEF Login
<1>7. CASE ViewRecoveryOptions
  <2>1. preparing' \in BOOLEAN BY <1>7 DEF ViewRecoveryOptions
  <2> QED BY <1>0, <1>7, <2>1 DEF ViewRecoveryOptions
<1>8. CASE BackupWalletChosen BY <1>0, <1>8 DEF BackupWalletChosen, GoTo
<1>9. CASE Back BY <1>0, <1>9 DEF Back, GoTo
<1>10. ASSUME BackToWelcome PROVE TypeOK'
  <2>1. welcome' \in Welcomes BY <1>10, MountedType DEF BackToWelcome
  <2>2. preparing' \in BOOLEAN /\ prepared' \in BOOLEAN
    BY <1>0, <1>10 DEF BackToWelcome, PrepareLeft
  <2> QED BY <1>0, <1>10, <2>1, <2>2 DEF BackToWelcome
<1>11. CASE PasswordSubmitted
  BY <1>0, <1>11 DEF PasswordSubmitted
<1>12. CASE RecoveryPrepared
  <2>1. preparing' \in BOOLEAN /\ prepared' \in BOOLEAN
    BY <1>0, <1>12 DEF RecoveryPrepared
  <2>2. step' \in {"pick", "password", "fund", "approve"}
    BY <1>0, <1>12 DEF RecoveryPrepared
  <2> QED BY <1>0, <1>12, <2>1, <2>2 DEF RecoveryPrepared
<1>13. CASE BackupWalletFunded
  <2>1. received' \in BOOLEAN /\ loading' \in BOOLEAN
    BY <1>13 DEF BackupWalletFunded, FreshApproval
  <2> QED BY <1>0, <1>13, <2>1 DEF BackupWalletFunded, FreshApproval
<1>14. CASE Sign
  <2>1. window \in Txns
    BY <1>0, <1>14 DEF Sign, Inv, WindowIsCurrent
  <2> QED BY <1>0, <1>14, <2>1 DEF Sign, Gateway
<1>15. CASE Mined \/ Dropped BY <1>0, <1>15 DEF Mined, Dropped, Gateway
<1>16. CASE Report BY <1>0, <1>16 DEF Report, Gateway
<1>17. CASE ModalClosed BY <1>0, <1>17 DEF ModalClosed, CloseWindow, Gateway
<1>18. CASE OpenWallet
  BY <1>0, <1>18 DEF OpenWallet, Open, ShowWindow, First, OfStatus, Page
<1>19. CASE Retry
  BY <1>0, <1>19 DEF Retry, Open, ShowWindow, First, OfStatus, Page
<1>20. CASE Ignored BY <1>0, <1>20 DEF Ignored, Page
<1>21. CASE SucceededTaken
  <2>1. received' \in BOOLEAN /\ loading' \in BOOLEAN
    BY <1>21 DEF SucceededTaken
  <2>2. /\ window' \in Txns \cup {NoTxn}
        /\ session' \in {"none", "opening", "signing", "sent", "reported", "lost"}
    BY <1>0, <1>21 DEF SucceededTaken, CloseWindow
  <2>3. txns' \in [Txns -> {"pending", "completed", "failed"}]
    BY <1>0, <1>21 DEF SucceededTaken, Credited
  <2>4. current' \in Txns \cup {NoTxn}
    BY <1>0, <1>21 DEF SucceededTaken, First, OfStatus
  <2> QED BY <1>0, <1>21, <2>1, <2>2, <2>3, <2>4 DEF SucceededTaken, Page
<1>22. CASE FailedTaken
  <2>1. txns' \in [Txns -> {"pending", "completed", "failed"}]
    BY <1>0, <1>22 DEF FailedTaken, Credited
  <2>2. received' \in BOOLEAN /\ loading' \in BOOLEAN
    BY <1>22 DEF FailedTaken
  <2> QED BY <1>0, <1>22, <2>1, <2>2 DEF FailedTaken, Page
<1>23. CASE ClosedTaken
  <2>1. received' \in BOOLEAN /\ loading' \in BOOLEAN
    BY <1>23 DEF ClosedTaken
  <2>2. /\ window' \in Txns \cup {NoTxn}
        /\ session' \in {"none", "opening", "signing", "sent", "reported", "lost"}
    BY <1>0, <1>23 DEF ClosedTaken, CloseWindow
  <2> QED BY <1>0, <1>23, <2>1, <2>2 DEF ClosedTaken, Page
<1>24. CASE CompletionBegins \/ CompletionPosted
  BY <1>0, <1>24 DEF CompletionBegins, CompletionPosted, Page
<1>25. CASE CompletionAnswers
  <2>1. prepared' \in BOOLEAN
    BY <1>0, <1>25 DEF CompletionAnswers
  <2>2. status' \in {"idle", "loading", "none", "swaps", "error"}
    BY <1>0, <1>25 DEF CompletionAnswers
  <2>3. completion' \in {"none", "waiting", "posted", "failed", "done"}
    BY <1>25 DEF CompletionAnswers
  <2> QED BY <1>0, <1>25, <2>1, <2>2, <2>3 DEF CompletionAnswers
<1>26. CASE PageLoaded \/ WindowDestroyed
  BY <1>0, <1>26 DEF PageLoaded, WindowDestroyed, Gateway
<1>27. CASE UNCHANGED vars BY <1>0, <1>27 DEF vars
<1> QED BY <1>1, <1>2, <1>3, <1>4, <1>5, <1>6, <1>7, <1>8, <1>9, <1>10, <1>11,
           <1>12, <1>13, <1>14, <1>15, <1>16, <1>17, <1>18, <1>19, <1>20, <1>21,
           <1>22, <1>23, <1>24, <1>25, <1>27, <1>26
   DEF Next, RecoveryAbandoned, BackToLogin

-----------------------------------------------------------------------------
(* Safety.                                                                 *)

LEMMA InitInv == Init => Inv
<1> SUFFICES ASSUME Init PROVE Inv
  OBVIOUS
<1>1. welcome \in Welcomes
  BY MountedType DEF Init
<1>2. events \in Seq({"success", "failure", "closed"}) /\ Successes(events) = {}
  BY DEF Init, Successes
<1>3. TypeOK
  <2>1. preparing \in BOOLEAN /\ prepared \in BOOLEAN /\ loading \in BOOLEAN
        /\ received \in BOOLEAN /\ online \in BOOLEAN
    BY DEF Init
  <2>2. launches \in 1..MaxLaunches
    BY LaunchesAreBounded DEF Init
  <2>3. txns \in [Txns -> {"pending", "completed", "failed"}]
    BY DEF Init
  <2> QED BY <1>1, <1>2, <2>1, <2>2, <2>3 DEF Init, TypeOK, FirstStatus
<1>4. WindowIsCurrent /\ SuccessIsTrue
  BY <1>2 DEF Init, WindowIsCurrent, SuccessIsTrue, AtMostOne
<1>5. CompletedAreSwapped /\ FailedIsCurrent /\ CompletionIsDue
  BY DEF Init, CompletedAreSwapped, FailedIsCurrent, CompletionIsDue, OfStatus
<1> QED BY <1>3, <1>4, <1>5 DEF Inv, Init, PreparingIsBefore

Parts ==
  /\ WindowIsCurrent /\ SuccessIsTrue /\ CompletedAreSwapped
  /\ FailedIsCurrent /\ CompletionIsDue

\* Once all is completed no swap is current, and no window open.
LEMMA AllCompletedIsQuiet ==
  ASSUME Inv, AllCompleted
  PROVE  current = NoTxn /\ window = NoTxn
<1>1. current \in Txns \cup {NoTxn}
  BY DEF Inv, TypeOK
<1>2. current \in Txns => txns[current] = "completed"
  BY DEF AllCompleted, OfStatus
<1> QED BY <1>1, <1>2 DEF Inv, WindowIsCurrent

\* What leaves the page and the window alone, away from the approvals or there.
LEMMA Elsewhere ==
  ASSUME Inv, UNCHANGED <<txns, current, completion, window, session, events, swapped>>,
         current = NoTxn \/ UNCHANGED <<screen, step>>
  PROVE  Parts'
<1>1. WindowIsCurrent'
  BY DEF Inv, WindowIsCurrent, Approving, InRecovery
<1>2. SuccessIsTrue'
  BY DEF Inv, SuccessIsTrue
<1>3. CompletedAreSwapped' /\ FailedIsCurrent' /\ CompletionIsDue'
  BY DEF Inv, CompletedAreSwapped, FailedIsCurrent, CompletionIsDue, AllCompleted, OfStatus
<1> QED BY <1>1, <1>2, <1>3 DEF Parts

\* A page of approvals that starts, with no window.
LEMMA Afresh ==
  ASSUME FreshApproval, window' = NoTxn, session' \in {"none", "lost"}, Successes(events') = {}
  PROVE  Parts'
<1>1. WindowIsCurrent' /\ SuccessIsTrue'
  BY DEF FreshApproval, WindowIsCurrent, SuccessIsTrue, AtMostOne
<1>2. CompletedAreSwapped' /\ FailedIsCurrent' /\ CompletionIsDue'
  BY DEF FreshApproval, CompletedAreSwapped, FailedIsCurrent, CompletionIsDue, OfStatus
<1> QED BY <1>1, <1>2 DEF Parts

LEMMA WalletStep ==
  ASSUME Inv, PageLoaded \/ Sign \/ Mined \/ Dropped \/ Report \/ ModalClosed
              \/ WindowDestroyed
  PROVE  Parts'
<1>0. events \in Seq(Messages)
  BY DEF Inv, TypeOK, Messages
<1>1. UNCHANGED <<txns, current, completion, screen, step>> /\ swapped \subseteq swapped'
  BY DEF PageLoaded, Sign, Mined, Dropped, Report, ModalClosed, WindowDestroyed, Gateway,
     approval, chain
<1>2. CompletedAreSwapped' /\ FailedIsCurrent' /\ CompletionIsDue'
  BY <1>1 DEF Inv, CompletedAreSwapped, FailedIsCurrent, CompletionIsDue, AllCompleted,
     OfStatus
<1>3. CASE Sign
  <2>1. Successes(events) = {}
    BY <1>3 DEF Sign, Inv, SuccessIsTrue, WindowIsCurrent
  <2> QED BY <1>1, <1>2, <1>3, <2>1 DEF Parts, Sign, Inv, WindowIsCurrent, SuccessIsTrue,
        Approving, InRecovery
<1>4. CASE Mined \/ Dropped
  BY <1>1, <1>2, <1>4 DEF Parts, Mined, Dropped, gateway, Inv, WindowIsCurrent,
     SuccessIsTrue, Approving, InRecovery
<1>5. CASE Report
  <2>1. /\ session \notin {"none", "lost"} /\ session' = "reported"
        /\ window' = window /\ swapped' = swapped
    BY <1>5 DEF Report, chain
  <2>2. WindowIsCurrent'
    BY <1>1, <2>1 DEF Inv, WindowIsCurrent, Approving, InRecovery
  <2>3. CASE session = "sent" /\ window \in swapped /\ events' = Append(events, "success")
    <3>1. Successes(events) = {}
      BY <2>3 DEF Inv, SuccessIsTrue
    <3>2. current # NoTxn /\ current \in swapped
      BY <2>1, <2>3 DEF Inv, WindowIsCurrent
    <3> QED BY <1>0, <1>1, <1>2, <2>1, <2>2, <2>3, <3>1, <3>2, AppendSuccess
            DEF Parts, SuccessIsTrue
  <2>4. CASE events' = Append(events, "failure")
    <3>1. Successes(events') = Successes(events)
      BY <1>0, <2>4, AppendOther DEF Messages
    <3> QED BY <1>1, <1>2, <2>1, <2>2, <3>1 DEF Parts, Inv, SuccessIsTrue, AtMostOne
  <2> QED BY <1>5, <2>3, <2>4 DEF Report
<1>6. CASE ModalClosed
  <2>1. /\ Successes(events') = Successes(events) /\ window' = NoTxn
        /\ session' \in {"none", "lost"} /\ swapped' = swapped
    BY <1>0, <1>6, Closing DEF ModalClosed, Inv, chain
  <2>2. WindowIsCurrent'
    BY <1>1, <2>1 DEF Inv, WindowIsCurrent, Approving, InRecovery
  <2>3. SuccessIsTrue'
    BY <1>1, <2>1 DEF Inv, SuccessIsTrue, AtMostOne
  <2> QED BY <1>2, <2>2, <2>3 DEF Parts
<1>7. CASE PageLoaded
  <2>1. /\ session = "opening" /\ session' = "signing"
        /\ UNCHANGED <<window, events, swapped>>
    BY <1>7 DEF PageLoaded, chain
  <2>2. WindowIsCurrent'
    BY <1>1, <2>1 DEF Inv, WindowIsCurrent, Approving, InRecovery
  <2>3. SuccessIsTrue'
    BY <1>1, <2>1 DEF Inv, SuccessIsTrue
  <2> QED BY <1>2, <2>2, <2>3 DEF Parts
<1>8. CASE WindowDestroyed
  <2>1. /\ window' = NoTxn /\ session' = "lost" /\ UNCHANGED <<events, swapped>>
    BY <1>8 DEF WindowDestroyed, chain
  <2>2. WindowIsCurrent'
    BY <1>1, <2>1 DEF Inv, WindowIsCurrent, Approving, InRecovery
  <2>3. SuccessIsTrue'
    BY <1>1, <2>1 DEF Inv, SuccessIsTrue
  <2> QED BY <1>2, <2>2, <2>3 DEF Parts
<1> QED BY <1>3, <1>4, <1>5, <1>6, <1>7, <1>8

LEMMA ClickStep ==
  ASSUME Inv, OpenWallet \/ Retry
  PROVE  Parts'
<1>0. /\ txns \in [Txns -> {"pending", "completed", "failed"}]
      /\ current \in Txns \cup {NoTxn} /\ NoTxn \notin Txns
  BY DEF Inv, TypeOK, Txns, NoTxn
<1>1. /\ UNCHANGED <<screen, step, completion, events, swapped>>
      /\ Approving /\ completion = "none"
  BY DEF OpenWallet, Retry, CanClick, Open, ShowWindow, Page, chain, Inv, CompletionIsDue,
     AllCompleted, OfStatus
<1>2. CASE OpenWallet
  <2>1. PICK t \in IF current = NoTxn THEN First(OfStatus("pending")) ELSE {current} : Open(t)
    BY <1>2 DEF OpenWallet
  <2>2. t \in Txns /\ txns[t] # "completed" /\ (current # NoTxn => t = current)
    BY <1>0, <2>1 DEF First, OfStatus, Inv, WindowIsCurrent
  <2>3. current' = t /\ window' = t /\ session' = "opening" /\ txns' = txns
    BY <1>2, <2>1 DEF OpenWallet, Open, ShowWindow
  <2>4. WindowIsCurrent'
    BY <1>0, <1>1, <2>2, <2>3 DEF WindowIsCurrent, Approving, InRecovery
  <2>5. SuccessIsTrue'
    BY <1>0, <1>1, <2>2, <2>3 DEF Inv, SuccessIsTrue
  <2>6. CompletedAreSwapped' /\ FailedIsCurrent' /\ CompletionIsDue'
    BY <1>1, <1>2, <2>3 DEF OpenWallet, Inv, CompletedAreSwapped, FailedIsCurrent,
       CompletionIsDue, OfStatus
  <2> QED BY <2>4, <2>5, <2>6 DEF Parts
<1>3. CASE Retry
  <2>1. PICK t \in First(OfStatus("failed")) : Open(t) /\ txns' = [txns EXCEPT ![t] = "pending"]
    BY <1>3 DEF Retry
  <2>2. t \in Txns /\ t = current
    BY <2>1 DEF First, OfStatus, Inv, FailedIsCurrent
  <2>3. current' = t /\ window' = t /\ session' = "opening"
    BY <2>1 DEF Open, ShowWindow
  <2>4. WindowIsCurrent'
    BY <1>0, <1>1, <2>1, <2>2, <2>3 DEF WindowIsCurrent, Approving, InRecovery
  <2>5. SuccessIsTrue'
    BY <1>0, <1>1, <2>2, <2>3 DEF Inv, SuccessIsTrue
  <2>6. \A u \in Txns : txns'[u] = IF u = t THEN "pending" ELSE txns[u]
    BY <1>0, <2>1
  <2>7. CompletedAreSwapped' /\ FailedIsCurrent' /\ CompletionIsDue'
    BY <1>1, <2>2, <2>3, <2>6 DEF Inv, CompletedAreSwapped, FailedIsCurrent, CompletionIsDue,
       OfStatus
  <2> QED BY <2>4, <2>5, <2>7 DEF Parts
<1> QED BY <1>2, <1>3

LEMMA MessageStep ==
  ASSUME Inv, Ignored \/ SucceededTaken \/ FailedTaken \/ ClosedTaken
  PROVE  Parts'
<1>0. /\ txns \in [Txns -> {"pending", "completed", "failed"}]
      /\ current \in Txns \cup {NoTxn} /\ NoTxn \notin Txns /\ events \in Seq(Messages)
  BY DEF Inv, TypeOK, Txns, NoTxn, Messages
<1>1. /\ UNCHANGED <<screen, step, completion, swapped>> /\ events # <<>>
  BY DEF Ignored, SucceededTaken, FailedTaken, ClosedTaken, Taken, Page, chain, approval
<1>2. /\ Tail(events) \in Seq(Messages) /\ AtMostOne(Tail(events))
      /\ Successes(events) = {} => Successes(Tail(events)) = {}
      /\ Head(events) = "success" =>
           Successes(events) # {} /\ Successes(Tail(events)) = {}
  BY <1>0, <1>1, TailOfOne DEF Inv, SuccessIsTrue
<1>3. CASE Ignored
  <2>1. UNCHANGED <<txns, current, window, session>> /\ events' = Tail(events)
    BY <1>3 DEF Ignored, approval
  <2>2. SuccessIsTrue'
    BY <1>1, <1>2, <2>1 DEF Inv, SuccessIsTrue
  <2> QED BY <1>1, <2>1, <2>2 DEF Parts, Inv, WindowIsCurrent, CompletedAreSwapped,
        FailedIsCurrent, CompletionIsDue, AllCompleted, OfStatus, Approving, InRecovery
<1>4. CASE ClosedTaken
  <2>1. UNCHANGED <<txns, current>> /\ CloseWindow(Tail(events))
    BY <1>4 DEF ClosedTaken
  <2>2. /\ Successes(events') = Successes(Tail(events)) /\ window' = NoTxn
        /\ session' \in {"none", "lost"}
    BY <1>2, <2>1, Closing DEF Inv
  <2>3. SuccessIsTrue'
    BY <1>1, <1>2, <2>1, <2>2 DEF Inv, SuccessIsTrue, AtMostOne
  <2> QED BY <1>1, <2>1, <2>2, <2>3 DEF Parts, Inv, WindowIsCurrent, CompletedAreSwapped,
        FailedIsCurrent, CompletionIsDue, AllCompleted, OfStatus, Approving, InRecovery
<1>5. CASE FailedTaken
  <2>1. /\ UNCHANGED <<current, window, session>> /\ events' = Tail(events)
        /\ txns' = Credited("failed")
    BY <1>5 DEF FailedTaken
  <2>2. SuccessIsTrue'
    BY <1>1, <1>2, <2>1 DEF Inv, SuccessIsTrue
  <2>3. \A u \in Txns : txns'[u] = IF u = current THEN "failed" ELSE txns[u]
    BY <1>0, <2>1 DEF Credited
  <2>4. WindowIsCurrent'
    BY <1>0, <1>1, <2>1, <2>3 DEF Inv, WindowIsCurrent, Approving, InRecovery
  <2>5. CompletedAreSwapped' /\ FailedIsCurrent'
    BY <1>1, <2>1, <2>3 DEF Inv, CompletedAreSwapped, FailedIsCurrent, OfStatus
  <2>6. CompletionIsDue'
    BY <1>0, <1>1, <2>3, AllCompletedIsQuiet DEF Inv, CompletionIsDue, AllCompleted, OfStatus
  <2> QED BY <2>2, <2>4, <2>5, <2>6 DEF Parts
<1>6. CASE SucceededTaken
  <2>1. /\ Successes(events) # {} /\ Successes(Tail(events)) = {}
        /\ txns' = Credited("completed") /\ CloseWindow(Tail(events)) /\ Approving
    BY <1>2, <1>6 DEF SucceededTaken, Taken
  <2>2. current \in Txns /\ current \in swapped
    BY <1>0, <2>1 DEF Inv, SuccessIsTrue
  <2>3. /\ Successes(events') = {} /\ AtMostOne(events')
        /\ window' = NoTxn /\ session' \in {"none", "lost"}
    BY <1>2, <2>1, Closing DEF Inv, AtMostOne
  <2>4. \A u \in Txns : txns'[u] = IF u = current THEN "completed" ELSE txns[u]
    BY <1>0, <2>1, <2>2 DEF Credited
  <2>5. \/ current' = NoTxn
        \/ current' \in Txns /\ current' # current /\ txns[current'] = "pending"
    BY <1>0, <1>6, <2>2 DEF SucceededTaken, First, OfStatus, Txns
  <2>6. WindowIsCurrent'
    BY <1>0, <1>1, <2>1, <2>3, <2>4, <2>5 DEF WindowIsCurrent, Approving, InRecovery
  <2>7. CompletedAreSwapped' /\ FailedIsCurrent'
    BY <1>0, <1>1, <2>2, <2>4 DEF Inv, CompletedAreSwapped, FailedIsCurrent, OfStatus
  <2>8. CompletionIsDue'
    BY <1>1, <2>4 DEF Inv, CompletionIsDue, AllCompleted, OfStatus
  <2> QED BY <2>3, <2>6, <2>7, <2>8 DEF Parts, SuccessIsTrue
<1> QED BY <1>3, <1>4, <1>5, <1>6

LEMMA CompletionStep ==
  ASSUME Inv, CompletionBegins \/ CompletionPosted \/ CompletionAnswers
  PROVE  Parts'
<1>1. /\ UNCHANGED <<txns, current, window, session, events, swapped, screen, step>>
      /\ AllCompleted
  BY DEF CompletionBegins, CompletionPosted, CompletionAnswers, Page, gateway, chain,
     Inv, CompletionIsDue
<1>2. AllCompleted'
  BY <1>1 DEF AllCompleted, OfStatus
<1> QED BY <1>1, <1>2 DEF Parts, Inv, WindowIsCurrent, SuccessIsTrue, CompletedAreSwapped,
      FailedIsCurrent, CompletionIsDue, OfStatus, Approving, InRecovery

LEMMA PreparingStep == Inv /\ [Next]_vars => PreparingIsBefore'
<1> SUFFICES ASSUME Inv, [Next]_vars PROVE PreparingIsBefore'
  OBVIOUS
<1>0. PreparingIsBefore
  BY DEF Inv
<1>1. CASE PasswordSubmitted
  BY <1>1 DEF PasswordSubmitted, PreparingIsBefore, InRecovery
<1>2. CASE BackupWalletChosen \/ Back
  BY <1>0, <1>2 DEF BackupWalletChosen, Back, GoTo, InRecovery, PreparingIsBefore
<1>3. CASE BackupWalletFunded
  BY <1>0, <1>3 DEF BackupWalletFunded, InRecovery, PreparingIsBefore
<1>4. CASE Login
  BY <1>0, <1>4 DEF Login, CanLogIn, PreparingIsBefore
<1>5. CASE ~preparing'
  BY <1>5 DEF PreparingIsBefore
<1>6. CASE UNCHANGED <<preparing, screen, step>>
  BY <1>0, <1>6 DEF PreparingIsBefore
<1>7. \/ UNCHANGED <<preparing, screen, step>> \/ ~preparing' \/ PasswordSubmitted
      \/ BackupWalletChosen \/ Back \/ BackupWalletFunded \/ Login
  BY DEF Next, vars, StatusAnswers, StatusFails, StatusBecomes, GoOnline, GoOffline,
     AccountAnswers, Restart, ViewRecoveryOptions, RecoveryAbandoned, RecoveryPrepared,
     BackToLogin, BackToWelcome, PageLoaded, Sign, Mined, Dropped, Report, ModalClosed,
     WindowDestroyed, Gateway,
     OpenWallet, Retry, Ignored, SucceededTaken, FailedTaken, ClosedTaken,
     CompletionBegins, CompletionPosted, CompletionAnswers, Page
<1> QED BY <1>1, <1>2, <1>3, <1>4, <1>5, <1>6, <1>7

LEMMA InvStep == Inv /\ [Next]_vars => Inv'
<1> SUFFICES ASSUME Inv, [Next]_vars PROVE Parts'
  BY TypeStep, PreparingStep DEF Inv, Parts
<1>1. CASE PageLoaded \/ Sign \/ Mined \/ Dropped \/ Report \/ ModalClosed
           \/ WindowDestroyed
  BY <1>1, WalletStep
<1>2. CASE OpenWallet \/ Retry
  BY <1>2, ClickStep
<1>3. CASE Ignored \/ SucceededTaken \/ FailedTaken \/ ClosedTaken
  BY <1>3, MessageStep
<1>4. CASE CompletionBegins \/ CompletionPosted \/ CompletionAnswers
  BY <1>4, CompletionStep
<1>5. CASE Restart
  <2>1. Successes(<<>>) = {}
    BY DEF Successes
  <2> QED BY <1>5, <2>1, Afresh DEF Restart
<1>6. CASE BackupWalletFunded
  <2>1. current = NoTxn
    BY <1>6 DEF BackupWalletFunded, Inv, WindowIsCurrent, Approving, InRecovery
  <2>2. window = NoTxn /\ session \in {"none", "lost"} /\ Successes(events) = {}
    BY <2>1 DEF Inv, WindowIsCurrent, SuccessIsTrue
  <2>3. window' = NoTxn /\ session' \in {"none", "lost"} /\ events' = events
    BY <1>6, <2>2 DEF BackupWalletFunded, gateway
  <2> QED BY <1>6, <2>2, <2>3, Afresh DEF BackupWalletFunded
<1>7. CASE StatusAnswers \/ StatusFails \/ GoOnline \/ GoOffline \/ AccountAnswers
           \/ PasswordSubmitted \/ UNCHANGED vars
  BY <1>7, Elsewhere DEF StatusAnswers, StatusFails, StatusBecomes, GoOnline, GoOffline,
     AccountAnswers, PasswordSubmitted, vars, approval, gateway, chain
<1>8. CASE Login \/ ViewRecoveryOptions \/ BackupWalletChosen \/ Back \/ RecoveryAbandoned
           \/ RecoveryPrepared \/ BackToLogin
  <2>1. UNCHANGED <<txns, current, completion, window, session, events, swapped>>
    BY <1>8 DEF Login, ViewRecoveryOptions, BackupWalletChosen, Back, GoTo, RecoveryAbandoned,
       RecoveryPrepared, BackToLogin, BackToWelcome, approval, gateway, chain
  <2>2. current = NoTxn
    BY <1>8, AllCompletedIsQuiet DEF Login, CanLogIn, ViewRecoveryOptions, BackupWalletChosen,
       Back, RecoveryAbandoned, RecoveryPrepared, BackToLogin, Inv, WindowIsCurrent,
       CompletionIsDue, PreparingIsBefore, Approving, InRecovery
  <2> QED BY <2>1, <2>2, Elsewhere
<1> QED BY <1>1, <1>2, <1>3, <1>4, <1>5, <1>6, <1>7, <1>8 DEF Next

\* Every variable of the recovery has its type, in every reachable state.
THEOREM TypeCorrect == Spec => []TypeOK
<1>1. Inv => TypeOK
  BY DEF Inv
<1> QED BY <1>1, InitInv, InvStep, PTL DEF Spec

\* completeRecovery is asked for only when the owners of all safes are swapped.
THEOREM CompletedSwapped == Spec => []CompletedMeansSwapped
<1>1. Inv => CompletedMeansSwapped
  BY DEF Inv, TypeOK, CompletionIsDue, AllCompleted, CompletedAreSwapped,
     CompletedMeansSwapped
<1> QED BY <1>1, InitInv, InvStep, PTL DEF Spec

-----------------------------------------------------------------------------
(* The login.                                                              *)

\* A screen that has checked, with a status that did not begin to load since:
\* the status does not load, and if it tells of swaps the screen says so.
Agrees(w, st) ==
  /\ w.asking => w.checked
  /\ Checked(w) /\ ~w.late =>
       /\ st # "loading"
       /\ st = "swaps" => w.setup = "RecoveryNotComplete" /\ ~w.asking

ScreenAgrees == screen = "welcome" => Agrees(welcome, status)

LEMMA EffectAgrees ==
  ASSUME NEW w \in Welcomes, w.asking => w.checked, ~Checked(w) \/ w.late, NEW st
  PROVE  Agrees(Effect(w, st), st)
<1>1. CASE st = "loading"
  BY <1>1 DEF Effect, Agrees, Checked, Welcomes
<1>2. CASE st # "loading" /\ Checked(w)
  BY <1>2 DEF Effect, Agrees, Checked, Welcomes
<1>3. CASE st = "swaps" /\ ~Checked(w)
  BY <1>3 DEF Effect, Agrees, Checked, Welcomes
<1>4. CASE st # "loading" /\ ~Checked(w) /\ st # "swaps"
  BY <1>4 DEF Effect, Agrees, Checked, Welcomes
<1> QED BY <1>1, <1>2, <1>3, <1>4

LEMMA MountedAgrees == ASSUME NEW st PROVE Agrees(Mounted(st), st)
<1> DEFINE w == [setup |-> "Loading", checked |-> FALSE, asking |-> FALSE, late |-> FALSE]
<1>1. w \in Welcomes /\ (w.asking => w.checked) /\ ~Checked(w)
  BY DEF Welcomes, Checked
<1> QED BY <1>1, EffectAgrees DEF Mounted

LEMMA AgreesStep == TypeOK /\ ScreenAgrees /\ [Next]_vars => ScreenAgrees'
<1> SUFFICES ASSUME TypeOK, ScreenAgrees, [Next]_vars, screen' = "welcome"
             PROVE  Agrees(welcome', status')
  BY DEF ScreenAgrees
<1>0. welcome \in Welcomes /\ (screen = "welcome" => Agrees(welcome, status))
  BY DEF TypeOK, ScreenAgrees
<1>1. CASE Restart \/ RecoveryAbandoned \/ BackToLogin
  BY <1>1, MountedAgrees DEF Restart, RecoveryAbandoned, BackToLogin, BackToWelcome
<1>2. CASE StatusAnswers \/ StatusFails
  <2>1. screen = "welcome" /\ status = "loading" /\ welcome' = Effect(welcome, status')
    BY <1>2 DEF StatusAnswers, StatusFails, StatusBecomes, Shown
  <2> QED BY <1>0, <2>1, EffectAgrees DEF Agrees
<1>3. CASE GoOnline
  <2> DEFINE w == Effect(welcome, status')
             b == w.late \/ (status' # status /\ welcome.checked)
  <2>1. screen = "welcome" /\ welcome' = [w EXCEPT !.late = b]
    BY <1>3 DEF GoOnline, Shown
  <2>2. w \in Welcomes
    BY <1>0, EffectType
  <2>3. CASE status' = status
    <3>1. CASE ~Checked(welcome) \/ welcome.late
      <4>1. Agrees(w, status') /\ b = w.late
        BY <1>0, <2>1, <2>2, <2>3, <3>1, EffectAgrees DEF Agrees, Welcomes
      <4> HIDE DEF w, b
      <4> QED BY <2>1, <2>2, <4>1 DEF Agrees, Checked, Welcomes
    <3>2. CASE Checked(welcome) /\ ~welcome.late
      <4>1. w = welcome /\ b = welcome.late
        BY <1>0, <2>1, <2>3, <3>2 DEF Agrees, Effect, Welcomes
      <4> HIDE DEF w, b
      <4>2. Agrees(w, status')
        BY <1>0, <2>1, <2>3, <4>1
      <4> QED BY <2>1, <2>2, <4>1, <4>2 DEF Agrees, Checked, Welcomes
    <3> QED BY <3>1, <3>2
  <2>4. CASE status' # status
    <3>1. status' = "loading"
      BY <1>3, <2>4 DEF GoOnline
    <3>2. w = [welcome EXCEPT !.setup = "Loading"]
      BY <3>1 DEF Effect
    <3>3. welcome.checked => b
      BY <2>4
    <3>4. welcome.asking => welcome.checked
      BY <1>0, <2>1 DEF Agrees
    <3> HIDE DEF b
    <3> QED BY <1>0, <2>1, <3>1, <3>2, <3>3, <3>4 DEF Agrees, Checked, Welcomes
  <2> QED BY <2>3, <2>4
<1>4. CASE AccountAnswers
  <2>1. PICK a \in {"True", "Error"} :
          welcome' = Effect([welcome EXCEPT !.setup = a, !.asking = FALSE], status)
    BY <1>4 DEF AccountAnswers
  <2> DEFINE w == [welcome EXCEPT !.setup = a, !.asking = FALSE]
  <2>2. /\ w \in Welcomes /\ Checked(w) /\ ~w.asking
        /\ w.late = welcome.late /\ status' = status
    BY <1>0, <1>4, <2>1 DEF AccountAnswers, Checked, Welcomes
  <2>3. welcome.late \/ status \notin {"loading", "swaps"}
    BY <1>0, <1>4 DEF AccountAnswers, Agrees, Checked, Welcomes
  <2> HIDE DEF w
  <2>4. CASE welcome.late
    BY <2>1, <2>2, <2>4, EffectAgrees DEF w
  <2>5. CASE status \notin {"loading", "swaps"}
    <3>1. Effect(w, status) = w
      BY <2>2, <2>5 DEF Effect
    <3> QED BY <2>1, <2>2, <2>5, <3>1 DEF Agrees, w
  <2> QED BY <2>3, <2>4, <2>5
<1>5. CASE UNCHANGED <<screen, welcome, status>>
  BY <1>0, <1>5
<1>6. CASE Login \/ ViewRecoveryOptions
  BY <1>6 DEF Login, ViewRecoveryOptions
<1>7. CASE CompletionAnswers
  BY <1>7 DEF CompletionAnswers, Approving, InRecovery
<1>8. \/ UNCHANGED <<screen, welcome, status>> \/ Restart \/ RecoveryAbandoned
      \/ BackToLogin \/ StatusAnswers \/ StatusFails \/ GoOnline \/ AccountAnswers
      \/ Login \/ ViewRecoveryOptions \/ CompletionAnswers
  BY DEF Next, vars, welcoming, GoOffline, BackupWalletChosen, Back, GoTo,
     PasswordSubmitted, RecoveryPrepared, BackupWalletFunded, PageLoaded, Sign, Mined,
     Dropped, Report, ModalClosed, WindowDestroyed, Gateway, OpenWallet, Retry, Ignored,
     SucceededTaken, FailedTaken, ClosedTaken, CompletionBegins, CompletionPosted, Page
<1> QED BY <1>1, <1>2, <1>3, <1>4, <1>5, <1>6, <1>7, <1>8

\* The login is not offered once swaps are known to be pending, unless the
\* status began to load only after the account was checked.
THEOREM LoginBlocked == Spec => []LoginBlockedOnceKnown
<1>1. Init => ScreenAgrees
  BY MountedAgrees DEF Init, ScreenAgrees
<1>2. ScreenAgrees => LoginBlockedOnceKnown
  BY DEF ScreenAgrees, Agrees, Checked, LoginBlockedOnceKnown, CanLogIn
<1> QED BY <1>1, <1>2, AgreesStep, TypeCorrect, PTL DEF Spec
=============================================================================
