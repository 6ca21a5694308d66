------------------------- MODULE ConnectivityProofs -------------------------
(***************************************************************************)
(* Theorems about Connectivity, for every set of flags and any number of   *)
(* changes and tries.                                                      *)
(***************************************************************************)
EXTENDS Connectivity, TLAPS

-----------------------------------------------------------------------------
(* The inductive invariants *)

(* In the foreground, and only there, the notifier runs and someone        *)
(* observes it; what it has not stored yet is the network of now.          *)
Monitoring ==
    /\ active <=> notifierRunning
    /\ active <=> observers > 0
    /\ notifierRunning => signal \subseteq {network} /\ (signal = {} => flags = network)

(* With nothing queued and the last notification heard, the manager and    *)
(* the screens that were told know the flags.                              *)
Announced ==
    posts = 0 /\ ~lost =>
        /\ connectionStatus = Connection(flags)
        /\ \A s \in told : view[s].held = Offline(flags)

(* A held banner is in the view; a screen that is not open has no view. *)
ViewsSound ==
    \A s \in Screen : /\ view[s].held => view[s].banners > 0
                      /\ s \notin open => view[s] = Fresh

StatusInv == TypeOK /\ Monitoring /\ ViewsSound /\ Announced

(* The view of a screen that shows the banner, or does not. *)
Truthful(offline) ==
    IF offline THEN [banners |-> 1, held |-> TRUE] ELSE Fresh

(* While the network is calm at most one notification is queued, every one *)
(* of them reverses the one before, and a screen that missed none shows    *)
(* what the last said: until the next is handled, the opposite of the      *)
(* flags.  One that was not told yet may not show a banner it should.      *)
CalmInv ==
    calm =>
        /\ observers <= 1 /\ posts <= 1
        /\ signal \subseteq {network}
        /\ flags # network => posts = 0 /\ (Offline(flags) # Offline(network))
        /\ \A s \in open \ missed :
            \/ view[s] = Truthful(IF posts = 0 THEN Offline(flags) ELSE ~Offline(flags))
            \/ s \notin told /\ view[s] = Fresh

-----------------------------------------------------------------------------
LEMMA ConnectionType == \A f : Connection(f) \in {"unavailable", "wifi", "cellular"}
  BY DEF Connection

LEMMA OfflineType == \A f : Offline(f) \in BOOLEAN
  BY DEF Offline

LEMMA FreshType == Fresh \in [banners : Nat, held : BOOLEAN] /\ ~Fresh.held
  BY DEF Fresh

(* What one notification does to a screen's view. *)
LEMMA BannerStep ==
    ASSUME NEW v \in [banners : Nat, held : BOOLEAN], v.held => v.banners > 0,
           NEW f, observers \in Nat, observers > 0
    PROVE  LET w == AddRemoveNetworkView(v, f) IN
              /\ w \in [banners : Nat, held : BOOLEAN]
              /\ w.held = Offline(f)
              /\ w.held => w.banners > 0
<1>1. CASE Offline(f)
  <2> DEFINE n == v.banners + observers
  <2>1. n \in Nat /\ n > 0
    OBVIOUS
  <2>2. AddRemoveNetworkView(v, f) = [banners |-> n, held |-> TRUE]
    BY <1>1 DEF AddRemoveNetworkView
  <2>3. Offline(f) = TRUE
    BY <1>1 DEF Offline
  <2> HIDE DEF n
  <2> QED
    BY <2>1, <2>2, <2>3
<1>2. CASE ~Offline(f)
  <2> DEFINE n == IF v.held THEN v.banners - 1 ELSE v.banners
  <2>1. n \in Nat
    OBVIOUS
  <2>2. AddRemoveNetworkView(v, f) = [banners |-> n, held |-> FALSE]
    BY <1>2 DEF AddRemoveNetworkView
  <2>3. Offline(f) = FALSE
    BY <1>2 DEF Offline
  <2> HIDE DEF n
  <2>4. AddRemoveNetworkView(v, f) \in [banners : Nat, held : BOOLEAN]
    BY <2>1, <2>2
  <2>5. AddRemoveNetworkView(v, f).held = FALSE
    BY <2>2
  <2> QED
    BY <2>3, <2>4, <2>5
<1> QED
  BY <1>1, <1>2

(* The steps on the stack of screens. *)
StackStep == Present \/ BackToHome \/ OpenCard \/ BeginSwipe \/ CancelSwipe \/ EndSwipe

(* Whatever such a step opens and closes, it is a Stack of listeners that  *)
(* are open.                                                               *)
LEMMA StackStepIsStack ==
    TypeOK /\ StackStep => \E opened \in Stacks : \E heard \in SUBSET opened : Stack(opened, heard)
<1> SUFFICES ASSUME TypeOK, StackStep
             PROVE  \E opened \in Stacks : \E heard \in SUBSET opened : Stack(opened, heard)
  OBVIOUS
<1> USE DEF Stacks
<1>1. CASE Present
  BY <1>1 DEF Present
<1>2. CASE BackToHome
  BY <1>2 DEF BackToHome
<1>3. CASE OpenCard
  <2>1. open \cup {"card"} = {"home", "login", "card"}
    BY <1>3 DEF OpenCard
  <2> QED
    BY <1>3, <2>1 DEF OpenCard
<1>4. "card" \in open => open = {"home", "login", "card"}
  BY DEF TypeOK
<1>5. CASE BeginSwipe
  BY <1>4, <1>5 DEF BeginSwipe, TypeOK
<1>6. CASE CancelSwipe
  BY <1>4, <1>6 DEF CancelSwipe
<1>7. CASE EndSwipe
  <2>1. open \ {"card"} = {"home", "login"}
    BY <1>4, <1>7 DEF EndSwipe
  <2> QED
    BY <1>7, <2>1 DEF EndSwipe
<1> QED
  BY <1>1, <1>2, <1>3, <1>5, <1>6, <1>7 DEF StackStep

-----------------------------------------------------------------------------
(* Type correctness and the status *)

LEMMA InitStatusInv == Init => StatusInv
<1> SUFFICES ASSUME Init PROVE StatusInv
  OBVIOUS
<1>1. TypeOK
  <2>1. view \in [Screen -> [banners : Nat, held : BOOLEAN]]
    BY FreshType DEF Init
  <2>2. open \in Stacks /\ listeners \subseteq open /\ told \subseteq listeners /\ missed \subseteq open
    BY DEF Init, Stacks
  <2>3. observers \in Nat /\ posts \in Nat /\ changes \in 0 .. MaxChanges
    BY ConnectivityAssumption DEF Init
  <2>4. /\ active \in BOOLEAN /\ notifierRunning \in BOOLEAN /\ lost \in BOOLEAN /\ calm \in BOOLEAN
        /\ connectionStatus \in {"none", "unavailable", "wifi", "cellular"}
        /\ signal \in {{}} \cup {{f} : f \in NetworkFlags}
        /\ network \in NetworkFlags /\ flags \in NetworkFlags
    BY DEF Init
  <2> QED
    BY <2>1, <2>2, <2>3, <2>4 DEF TypeOK
<1>2. Monitoring /\ ViewsSound /\ Announced
  BY ConnectivityAssumption, FreshType DEF Init, Monitoring, ViewsSound, Announced, Screen
<1> QED
  BY <1>1, <1>2 DEF StatusInv

LEMMA StackStatusInv ==
    ASSUME StatusInv, NEW opened \in Stacks, NEW heard \in SUBSET opened, Stack(opened, heard)
    PROVE  StatusInv'
<1> USE DEF StatusInv, Stack, notifier
<1>1. TypeOK'
  BY FreshType DEF TypeOK, Stacks, Screen
<1>2. Monitoring'
  BY DEF Monitoring
<1>3. ViewsSound'
  BY FreshType DEF ViewsSound, TypeOK
<1>4. Announced'
  BY DEF Announced, TypeOK, Stacks, Screen
<1> QED
  BY <1>1, <1>2, <1>3, <1>4

LEMMA StatusInductive == StatusInv /\ [Next]_vars => StatusInv'
<1> SUFFICES ASSUME StatusInv, [Next]_vars PROVE StatusInv'
  OBVIOUS
<1> USE DEF StatusInv
<1>1. CASE UNCHANGED vars
  BY <1>1 DEF vars, notifier, screens, TypeOK, Monitoring, ViewsSound, Announced
<1>2. CASE NetworkChange
  <2> USE <1>2 DEF NetworkChange, screens
  <2>1. TypeOK'
    BY ConnectivityAssumption DEF TypeOK
  <2>2. Monitoring' /\ ViewsSound' /\ Announced'
    BY DEF TypeOK, Monitoring, ViewsSound, Announced
  <2> QED
    BY <2>1, <2>2
<1>3. CASE Callback
  <2> USE <1>3 DEF Callback, SetFlags, screens
  <2>1. TypeOK'
    BY DEF TypeOK
  <2>2. Monitoring' /\ ViewsSound'
    BY DEF TypeOK, Monitoring, ViewsSound
  <2>3. Announced'
    BY DEF TypeOK, Announced
  <2> QED
    BY <2>1, <2>2, <2>3
<1>4. CASE SceneWillEnterForeground
  <2> USE <1>4 DEF SceneWillEnterForeground, screens
  <2>1. /\ signal = {} /\ signal' = {} /\ SetFlags(network) /\ notifierRunning' = TRUE
    BY DEF StartNotifier, Monitoring
  <2>2. observers' \in Nat /\ observers' > 0
    BY ConnectivityAssumption DEF TypeOK
  <2>3. TypeOK'
    BY <2>1, <2>2 DEF TypeOK, SetFlags
  <2>4. Monitoring' /\ ViewsSound'
    BY <2>1, <2>2 DEF TypeOK, Monitoring, ViewsSound, SetFlags
  <2>5. Announced'
    BY <2>1 DEF TypeOK, Announced, SetFlags
  <2> QED
    BY <2>3, <2>4, <2>5
<1>5. CASE SceneDidEnterBackground
  <2> USE <1>5 DEF SceneDidEnterBackground, StopNotifier, screens
  <2>1. TypeOK'
    BY DEF TypeOK
  <2>2. Monitoring' /\ ViewsSound' /\ Announced'
    BY DEF TypeOK, Monitoring, ViewsSound, Announced
  <2> QED
    BY <2>1, <2>2
<1>6. CASE ReachabilityChanged
  <2> USE <1>6 DEF ReachabilityChanged
  <2>1. \A s \in Screen : view'[s] =
            IF observers > 0 /\ s \in listeners THEN AddRemoveNetworkView(view[s], flags) ELSE view[s]
    BY DEF TypeOK
  <2>2. ASSUME NEW s \in Screen, observers > 0
        PROVE  LET v == AddRemoveNetworkView(view[s], flags) IN
                  /\ v \in [banners : Nat, held : BOOLEAN]
                  /\ v.held = Offline(flags)
                  /\ v.held => v.banners > 0
    <3>1. view[s] \in [banners : Nat, held : BOOLEAN] /\ (view[s].held => view[s].banners > 0)
      BY DEF TypeOK, ViewsSound
    <3>2. observers \in Nat
      BY DEF TypeOK
    <3> QED
      BY <2>2, <3>1, <3>2, BannerStep
  <2>3. listeners \subseteq Screen
    BY DEF TypeOK, Stacks, Screen
  <2>4. TypeOK'
    <3>1. view' \in [Screen -> [banners : Nat, held : BOOLEAN]]
      BY <2>1, <2>2 DEF TypeOK
    <3> QED
      BY <3>1, ConnectionType DEF TypeOK
  <2>5. Monitoring'
    BY DEF Monitoring
  <2>6. ViewsSound'
    BY <2>1, <2>2 DEF ViewsSound, TypeOK
  <2>7. Announced'
    BY <2>1, <2>2, <2>3 DEF Announced, TypeOK
  <2> QED
    BY <2>4, <2>5, <2>6, <2>7
<1>7. CASE StackStep
  BY <1>7, StackStepIsStack, StackStatusInv
<1> QED
  BY <1>1, <1>2, <1>3, <1>4, <1>5, <1>6, <1>7 DEF Next, StackStep

LEMMA StatusInvariant == Spec => []StatusInv
  BY InitStatusInv, StatusInductive, PTL DEF Spec

(* connectionStatus is the network's once both queues are empty, unless    *)
(* the last notification was lost in the background.                       *)
THEOREM StatusIsCurrent == Spec => []StatusCurrent
<1>1. StatusInv => StatusCurrent
  BY DEF StatusInv, Monitoring, Announced, StatusCurrent, QueuesEmpty
<1> QED
  BY <1>1, StatusInvariant, PTL

(* So is the removable banner of every screen that was told. *)
THEOREM HeldBannerIsCurrent == Spec => []HeldBannerCurrent
<1>1. StatusInv => HeldBannerCurrent
  BY DEF StatusInv, Monitoring, Announced, HeldBannerCurrent, QueuesEmpty
<1> QED
  BY <1>1, StatusInvariant, PTL

-----------------------------------------------------------------------------
(* The banners of a calm network *)

LEMMA InitCalmInv == Init => CalmInv
<1> SUFFICES ASSUME Init, calm PROVE CalmInv
  BY DEF CalmInv
<1>1. observers = 1 /\ posts = 1 /\ signal = {} /\ flags = network
  BY DEF Init
<1>2. \A s \in open : s \notin told /\ view[s] = Fresh
  BY DEF Init, Screen
<1> QED
  BY <1>1, <1>2 DEF CalmInv

LEMMA CalmInductive == StatusInv /\ CalmInv /\ [Next]_vars => CalmInv'
<1> SUFFICES ASSUME StatusInv, CalmInv, [Next]_vars, calm' PROVE CalmInv'
  BY DEF CalmInv
<1> USE DEF StatusInv
<1>1. CASE UNCHANGED vars
  BY <1>1 DEF vars, notifier, screens, CalmInv
<1>2. CASE NetworkChange
  BY <1>2 DEF NetworkChange, Settled, QueuesEmpty, screens, CalmInv
<1>3. CASE Callback
  BY <1>3, OfflineType DEF Callback, SetFlags, screens, CalmInv, TypeOK
<1>4. CASE SceneWillEnterForeground
  <2> USE <1>4 DEF SceneWillEnterForeground, screens
  <2>1. /\ signal = {} /\ signal' = {} /\ SetFlags(network) /\ notifierRunning' = TRUE
    BY DEF StartNotifier, Monitoring
  <2>2. calm /\ observers' = 1
    BY DEF TypeOK, Monitoring
  <2> QED
    BY <2>1, <2>2, OfflineType DEF SetFlags, CalmInv, TypeOK
<1>5. CASE SceneDidEnterBackground
  BY <1>5 DEF SceneDidEnterBackground, StopNotifier, screens, CalmInv
<1>6. CASE ReachabilityChanged
  <2> USE <1>6 DEF ReachabilityChanged
  <2>1. calm /\ observers = 1 /\ posts = 1 /\ posts' = 0 /\ flags = network
    <3>1. calm /\ observers > 0 /\ posts > 0 /\ posts' = posts - 1
      OBVIOUS
    <3> QED
      BY <3>1 DEF CalmInv, TypeOK
  <2>2. ASSUME NEW s \in open' \ missed' PROVE view'[s] = Truthful(Offline(flags))
    <3>1. s \in listeners /\ s \in Screen /\ s \in open \ missed
      BY <2>1, <2>2 DEF TypeOK, Stacks, Screen
    <3>2. view[s] = Truthful(~Offline(flags)) \/ view[s] = Fresh
      BY <2>1, <3>1 DEF CalmInv
    <3>3. view'[s] = AddRemoveNetworkView(view[s], flags)
      BY <2>1, <3>1
    <3>4. CASE Offline(flags)
      <4>1. view[s] = Fresh
        BY <3>2, <3>4 DEF Truthful
      <4> QED
        BY <2>1, <3>3, <3>4, <4>1 DEF AddRemoveNetworkView, Truthful, Fresh
    <3>5. CASE ~Offline(flags)
      <4>1. CASE view[s] = Fresh
        BY <3>3, <3>5, <4>1 DEF AddRemoveNetworkView, Truthful, Fresh
      <4>2. CASE view[s] = [banners |-> 1, held |-> TRUE]
        BY <3>3, <3>5, <4>2 DEF AddRemoveNetworkView, Truthful, Fresh
      <4> QED
        BY <3>2, <3>5, <4>1, <4>2 DEF Truthful
    <3> QED
      BY <3>4, <3>5
  <2> QED
    BY <2>1, <2>2 DEF CalmInv
<1>7. CASE StackStep
  <2>1. PICK opened \in Stacks : \E heard \in SUBSET opened : Stack(opened, heard)
    BY <1>7, StackStepIsStack
  <2>2. PICK heard \in SUBSET opened : Stack(opened, heard)
    BY <2>1
  <2>3. UNCHANGED <<observers, posts, signal, network, flags, calm>>
    BY <2>2 DEF Stack, notifier
  <2>4. ASSUME NEW s \in open' \ missed'
        PROVE  \/ view'[s] = Truthful(IF posts = 0 THEN Offline(flags) ELSE ~Offline(flags))
               \/ s \notin told' /\ view'[s] = Fresh
    <3>1. s \in Screen /\ s \in opened /\ view'[s] = view[s] /\ (s \in told' => s \in told)
      BY <2>2, <2>4 DEF Stack, Stacks, Screen
    <3>2. CASE s \in open
      BY <2>2, <2>3, <2>4, <3>1, <3>2 DEF Stack, CalmInv
    <3>3. CASE s \notin open
      BY <3>1, <3>3 DEF ViewsSound, TypeOK
    <3> QED
      BY <3>2, <3>3
  <2> QED
    BY <2>3, <2>4 DEF CalmInv
<1> QED
  BY <1>1, <1>2, <1>3, <1>4, <1>5, <1>6, <1>7 DEF Next, StackStep

(* On a calm network every screen that heard all there was to hear shows   *)
(* one banner or none, as the network is.                                  *)
THEOREM BannersTellTheTruth == Spec => []BannersTruthful
<1>1. StatusInv /\ CalmInv => BannersTruthful
  <2> SUFFICES ASSUME StatusInv, CalmInv, active, QueuesEmpty, calm, NEW s \in told \ missed
               PROVE  view[s].banners = IF Offline(network) THEN 1 ELSE 0
    BY DEF BannersTruthful
  <2>1. flags = network /\ posts = 0 /\ s \in open
    BY DEF StatusInv, Monitoring, QueuesEmpty, TypeOK
  <2>2. view[s] = Truthful(Offline(network))
    BY <2>1 DEF CalmInv
  <2> QED
    BY <2>2 DEF Truthful, Fresh
<1> QED
  BY <1>1, InitCalmInv, CalmInductive, StatusInvariant, PTL DEF Spec
=============================================================================
