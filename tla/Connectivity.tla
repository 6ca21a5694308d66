---------------------------- MODULE Connectivity ----------------------------
(***************************************************************************)
(* ReachabilityManager, the Reachability library under it, and the         *)
(* no-network banner of BaseViewController.                                *)
(*                                                                         *)
(* Two queues are at work.  The system calls back on the library's serial  *)
(* queue (`signal'), which stores the flags and, if they changed, queues a *)
(* block on the main queue (`posts').  When the block runs it posts the    *)
(* notification that ReachabilityManager observes, and the manager reads   *)
(* the flags of that moment and tells the screens that listen.  Screens    *)
(* come and go and the app enters the background in between.               *)
(***************************************************************************)
EXTENDS Naturals

CONSTANTS
    NetworkFlags,  \* the sets of reachability flags the network goes through
    MaxChanges,    \* changes of the network in a behaviour
    MaxTries       \* the try of startMonitoring that succeeds, at the latest

Flag == {"reachable", "connectionRequired", "onDemand", "interventionRequired", "isWWAN"}

ASSUME ConnectivityAssumption ==
    /\ NetworkFlags \subseteq SUBSET Flag
    /\ MaxChanges \in Nat /\ MaxTries \in Nat \ {0}

VARIABLES
    network,          \* the flags the system would report now
    changes,          \* changes so far
    active,           \* the scene is in the foreground
    flags,            \* Reachability.flags
    signal,           \* the flags the system is calling back with, if it is
    notifierRunning,  \* Reachability.notifierRunning
    observers,        \* registrations of reachabilityChanged
    posts,            \* notify blocks on the main queue
    connectionStatus, \* ReachabilityManager.connectionStatus
    open,             \* the screens on the stack
    listeners,        \* ReachabilityManager.listeners
    view,             \* the banners in each screen's view
    told, missed,     \* history: open screens that heard, and that did not
                      \* hear, a notification since they appeared, were opened
    lost,             \* history: the last notification found no observer
    calm              \* history: the network changed slowly, see Settled

notifier == <<flags, signal, notifierRunning, observers, posts, connectionStatus, lost>>
screens == <<open, listeners, view, told, missed>>
vars == <<network, changes, active, notifier, screens, calm>>

Screen == {"home", "login", "card", "compose"}

(* SCNetworkReachabilityFlags.connection, on a device. *)
Connection(f) ==
    IF "reachable" \notin f THEN "unavailable"
    ELSE IF "isWWAN" \in f THEN "cellular"
    ELSE IF \/ "connectionRequired" \notin f
            \/ "onDemand" \in f /\ "interventionRequired" \notin f
         THEN "wifi" ELSE "unavailable"

Offline(f) == Connection(f) = "unavailable"

(* Nothing is on either queue. *)
QueuesEmpty == signal = {} /\ posts = 0

(* Everything the network did has been announced. *)
Settled == QueuesEmpty /\ flags = network

-----------------------------------------------------------------------------
(* The Reachability library *)

NetworkChange ==
    /\ changes < MaxChanges
    /\ changes' = changes + 1
    /\ network' \in NetworkFlags \ {network}
    /\ signal' = IF notifierRunning THEN {network'} ELSE signal
    /\ calm' = (calm /\ Settled /\ (Offline(network) # Offline(network')))
    /\ UNCHANGED <<active, flags, notifierRunning, observers, posts,
                   connectionStatus, lost, screens>>

(* Flags that are stored are announced even when they did not change. *)
AlwaysNotify(f) == flags' = f /\ posts' = posts + 1

(* flags' didSet. *)
SetFlags(f) ==
    /\ flags' = f
    /\ posts' = IF f # flags THEN posts + 1 ELSE posts

Callback ==
    /\ \E f \in signal : SetFlags(f)
    /\ signal' = {}
    /\ UNCHANGED <<network, changes, active, notifierRunning, observers,
                   connectionStatus, lost, screens, calm>>

(* As StartNotifier, without the initial check. *)
StartNotifierOnly == notifierRunning' = TRUE /\ UNCHANGED <<flags, signal, posts>>

(* The initial check waits for the callbacks on the serial queue. *)
StartNotifier ==
    IF notifierRunning THEN UNCHANGED <<flags, signal, posts, notifierRunning>>
    ELSE /\ signal = {}
         /\ SetFlags(network)
         /\ notifierRunning' = TRUE
         /\ UNCHANGED signal

(* As StopNotifier, but notifierRunning is not reset. *)
KeepRunning == signal' = {} /\ UNCHANGED notifierRunning

(* A callback that has begun is not called off. *)
StopNotifier ==
    /\ notifierRunning' = FALSE
    /\ signal' \in {signal, {}}

-----------------------------------------------------------------------------
(* SceneDelegate and ReachabilityManager *)

(* startMonitoring calls itself until startNotifier succeeds, and each     *)
(* call registers one more observer.                                       *)
SceneWillEnterForeground ==
    /\ ~active
    /\ active' = TRUE
    /\ StartNotifier
    /\ \E tries \in 1 .. MaxTries :
        /\ observers' = observers + tries
        /\ calm' = (calm /\ tries = 1)
    /\ UNCHANGED <<network, changes, connectionStatus, lost, screens>>

SceneDidEnterBackground ==
    /\ active
    /\ active' = FALSE
    /\ StopNotifier
    /\ observers' = 0
    /\ UNCHANGED <<network, changes, flags, posts, connectionStatus, lost, screens, calm>>

(* The reference is kept when its banner is removed. *)
KeepReference(v, f) ==
    IF Offline(f) THEN [banners |-> v.banners + observers, held |-> TRUE]
    ELSE [v EXCEPT !.banners = IF v.held THEN @ - 1 ELSE @]

(* addRemoveNetworkView, once for every registered observer: a banner is   *)
(* added each time, and only the one last added can be removed.            *)
AddRemoveNetworkView(v, f) ==
    IF Offline(f) THEN [banners |-> v.banners + observers, held |-> TRUE]
    ELSE [banners |-> IF v.held THEN v.banners - 1 ELSE v.banners, held |-> FALSE]

(* reachabilityChanged: the flags are read when the notification arrives,  *)
(* not when it was queued.                                                 *)
ReachabilityChanged ==
    /\ posts > 0
    /\ posts' = posts - 1
    /\ lost' = (observers = 0)
    /\ \/ /\ observers = 0
          /\ UNCHANGED <<connectionStatus, view, told, missed>>
       \/ /\ observers > 0
          /\ connectionStatus' = Connection(flags)
          /\ view' = [s \in Screen |-> IF s \in listeners THEN AddRemoveNetworkView(view[s], flags)
                                                          ELSE view[s]]
          /\ told' = told \cup listeners
          /\ missed' = missed \cup (open \ listeners)
    /\ calm' = (calm /\ observers > 0)
    /\ UNCHANGED <<network, changes, active, flags, signal, notifierRunning,
                   observers, open, listeners>>

-----------------------------------------------------------------------------
(* The stack of screens.  A screen listens from viewWillAppear to          *)
(* viewWillDisappear; what it is not told when it appears is the status.   *)

Fresh == [banners |-> 0, held |-> FALSE]

Stack(opened, heard) ==
    /\ open' = opened
    /\ listeners' = heard
    /\ view' = [s \in Screen |-> IF s \in opened THEN view[s] ELSE Fresh]
    /\ told' = told \cap opened \cap listeners \cap heard
    /\ missed' = missed \cap opened
    /\ UNCHANGED <<network, changes, active, notifier, calm>>

(* The login and the compose screen cover Home. *)
Present ==
    /\ active /\ open = {"home"}
    /\ \E s \in {"login", "compose"} : Stack({"home", s}, {s})

BackToHome == open # {"home"} /\ Stack({"home"}, {"home"})

(* The sign-in and the sign-up form are cards over the login screen, which *)
(* goes on listening.                                                      *)
OpenCard ==
    /\ active /\ open = {"home", "login"}
    /\ Stack(open \cup {"card"}, {"login", "card"})

(* The user begins to swipe the card away, and may let it go again. *)
BeginSwipe == active /\ "card" \in listeners /\ Stack(open, {"login"})

CancelSwipe == "card" \in open \ listeners /\ Stack(open, {"login", "card"})

EndSwipe == "card" \in open \ listeners /\ Stack(open \ {"card"}, {"login"})

-----------------------------------------------------------------------------
(* The first sceneWillEnterForeground has run and its block is queued. *)
Init ==
    /\ network \in NetworkFlags /\ changes = 0 /\ active = TRUE
    /\ flags = network /\ signal = {} /\ notifierRunning = TRUE
    /\ observers \in 1 .. MaxTries
    /\ posts = 1 /\ connectionStatus = "none"
    /\ open = {"home"} /\ listeners = {"home"}
    /\ view = [s \in Screen |-> Fresh]
    /\ told = {} /\ missed = {}
    /\ lost = FALSE /\ calm = (observers = 1)

Next ==
    \/ NetworkChange \/ Callback \/ ReachabilityChanged
    \/ SceneWillEnterForeground \/ SceneDidEnterBackground
    \/ Present \/ BackToHome \/ OpenCard \/ BeginSwipe \/ CancelSwipe \/ EndSwipe

(* Both queues run what is on them. *)
Spec == Init /\ [][Next]_vars /\ WF_vars(Callback) /\ WF_vars(ReachabilityChanged)

-----------------------------------------------------------------------------
(* Properties *)

Stacks == {{"home"}, {"home", "login"}, {"home", "compose"}, {"home", "login", "card"}}

TypeOK ==
    /\ network \in NetworkFlags /\ changes \in 0 .. MaxChanges /\ active \in BOOLEAN
    /\ flags \in NetworkFlags
    /\ signal \in {{}} \cup {{f} : f \in NetworkFlags}
    /\ notifierRunning \in BOOLEAN
    /\ observers \in Nat /\ posts \in Nat
    /\ connectionStatus \in {"none", "unavailable", "wifi", "cellular"}
    /\ open \in Stacks /\ listeners \subseteq open
    /\ view \in [Screen -> [banners : Nat, held : BOOLEAN]]
    /\ told \subseteq listeners /\ missed \subseteq open
    /\ lost \in BOOLEAN /\ calm \in BOOLEAN

(* connectionStatus is that of the network once both queues are empty,     *)
(* through any number of changes, also ones made in the background and     *)
(* ones reported late, unless the notification came while the app was in   *)
(* the background and reachabilityChanged was not registered: nothing      *)
(* repeats it, because startNotifier announces only flags that changed.    *)
StatusCurrent ==
    active /\ QueuesEmpty /\ ~lost => connectionStatus = Connection(network)

(* Every listening screen that was told since it appeared holds a          *)
(* removable banner exactly when the network is unreachable, however many  *)
(* banners it has stacked up by then.                                      *)
HeldBannerCurrent ==
    active /\ QueuesEmpty /\ ~lost => \A s \in told : view[s].held <=> Offline(network)

(* The banners themselves tell the truth, one or none, on every listening  *)
(* screen that heard all notifications since it was opened, provided that  *)
(* the network changed slowly: each change makes it reachable or           *)
(* unreachable and is handled before the next, no notification was lost,   *)
(* and monitoring started at the first try.  Without these addRemoveNetwork*)
(* View replaces networkStatusView and the old banner stays for good.      *)
BannersTruthful ==
    active /\ QueuesEmpty /\ calm =>
        \A s \in told \ missed : view[s].banners = IF Offline(network) THEN 1 ELSE 0

(* When the app stays in the foreground and the network settles, the       *)
(* status becomes that of the network and stays so, unless the last        *)
(* notification was lost because it was posted while nobody observed it:   *)
(* nothing repeats it.                                                     *)
StatusCatchesUp ==
    \A f \in NetworkFlags :
        <>[](active /\ network = f) => <>[](lost \/ connectionStatus = Connection(f))
=============================================================================
