----------------------- MODULE BackendSelection_proofs -----------------------
(* Theorems about module BackendSelection and their proofs. *)
EXTENDS BackendSelection, TLAPS

(***************************************************************************)
(* The listener.                                                           *)
(***************************************************************************)

\* The mode is one that exists, unless it is refused; before the constructor
\* there is no backend, and after it the right one.
ListenerInv ==
  /\ args.mode \in Modes
  /\ phase = "new" => backend = "none"
  /\ ListenerIsServed

\* The constructor gives a client with a listener the native backend, with
\* options that validate, or none.
LEMMA ConstructServes == ListenerInv /\ Construct => ListenerInv'
<1> SUFFICES ASSUME ListenerInv, Construct PROVE ListenerInv'
  OBVIOUS
<1>1. phase' # "new" /\ args' = args
  BY DEF Construct, MaterializeFails, Refuse
<1>2. CASE backend' = backend
  BY <1>1, <1>2 DEF ListenerInv, ListenerIsServed
<1>3. CASE backend' # backend
  <2>1. Refusal = "none" /\ ChoiceError = "none" /\ backend' = Choice
    BY <1>3 DEF Construct, MaterializeFails, Refuse
  <2>2. ValidNative(args.native) /\ args.mode # "unknown"
    BY <2>1 DEF Refusal
  <2>4. CASE args.native.listen = "none"
    BY <1>1, <2>4 DEF ListenerInv, ListenerIsServed
  <2>5. CASE args.native.listen # "none"
    <3>1. args.mode \in {"auto", "native"}
      BY <2>1, <2>2, <2>5 DEF ChoiceError, ListenerRequested, ListenerInv, Modes
    <3>2. backend' = "native"
      BY <2>1, <2>5, <3>1 DEF Choice, ListenerRequested
    <3>3. /\ args.native.listen = "tcp" => args.native.port \in PortRange
          /\ args.native.listen = "unix" => args.native.unixPath # ""
      BY <2>2 DEF ValidNative
    <3> QED
      BY <1>1, <3>2, <3>3 DEF ListenerInv, ListenerIsServed
  <2> QED BY <2>4, <2>5
<1> QED BY <1>2, <1>3

LEMMA ListenerAlways == Spec => []ListenerInv
<1>1. Init => ListenerInv
  BY DEF Init, ListenerInv, ListenerIsServed, Args
<1>2. ListenerInv /\ [Next]_vars => ListenerInv'
  <2>1. ListenerInv /\ UNCHANGED <<args, backend>> /\ phase' # "new" => ListenerInv'
    BY DEF ListenerInv, ListenerIsServed
  <2>2. HostChanges \/ Spawn \/ Destroy => UNCHANGED <<args, backend>> /\ phase' # "new"
    BY DEF HostChanges, Spawn, Fails, CarrierFails, PopenFails, PopenRuns, Destroy
  <2>3. ListenerInv /\ UNCHANGED vars => ListenerInv'
    BY DEF ListenerInv, ListenerIsServed, vars
  <2> QED BY <2>1, <2>2, <2>3, ConstructServes DEF Next
<1> QED BY <1>1, <1>2, PTL DEF Spec

\* A client with a listener runs the native backend with an address to listen
\* on, whatever the other arguments, the host and the ports.
THEOREM ListenerAlwaysServed == Spec => []ListenerIsServed
<1>1. ListenerInv => ListenerIsServed
  BY DEF ListenerInv
<1> QED BY <1>1, ListenerAlways, PTL

(***************************************************************************)
(* What stays behind.                                                      *)
(***************************************************************************)

\* The files of each phase: the constructor writes Docker's, start() the
\* subprocess backend's, and a file or a descriptor is lost where start() failed.
FilesInv ==
  /\ args.config \in {"none", "valid", "bad"}
  /\ host \in Host
  /\ files \subseteq {"docker", "subprocess", "unnamed"}
  /\ phase = "new" => backend = "none"
  /\ phase \in {"new", "refused", "made"} => files \subseteq {"docker"} /\ writeEnds = 0
  /\ phase = "new" => files = {}
  /\ phase = "destroyed" => "subprocess" \notin files
  /\ "docker" \in files => args.config = "valid" /\ backend \in {"docker", "none"}
  /\ "unnamed" \in files => error = "OSError" /\ host.windows /\ backend = "subprocess"
  /\ writeEnds \in Nat
  /\ writeEnds > 0 => error = "OSError" /\ ~host.windows /\ backend = "subprocess"

\* The constructor writes a file for Docker only, from a valid configuration.
LEMMA ConstructWrites == FilesInv /\ Construct => FilesInv'
<1> SUFFICES ASSUME FilesInv, Construct PROVE FilesInv'
  OBVIOUS
<1>1. phase = "new" /\ files = {} /\ backend = "none" /\ writeEnds = 0
  BY DEF Construct, FilesInv
<1>2. args' = args /\ host' = host /\ writeEnds' = 0
  BY <1>1 DEF Construct, MaterializeFails, Refuse
<1>3. CASE Refusal # "none"
  BY <1>1, <1>2, <1>3 DEF Construct, Refuse, FilesInv
<1>4. CASE Refusal = "none"
  <2>1. files' = {} \/ (files' = {"docker"} /\ Choice = "docker" /\ args.config # "none")
    BY <1>1, <1>4 DEF Construct, Materialize, MaterializeFails, ForDocker
  <2>2. args.config # "bad"
    BY <1>4 DEF Refusal
  <2>3. \/ phase' = "refused" /\ backend' = "none"
        \/ phase' = "made" /\ backend' = Choice
    BY <1>1, <1>4 DEF Construct, MaterializeFails, Refuse
  <2> QED BY <1>2, <2>1, <2>2, <2>3 DEF FilesInv
<1> QED BY <1>3, <1>4

\* start() writes the file of the subprocess backend, or fails.
LEMMA SpawnWrites == FilesInv /\ Spawn => FilesInv'
<1> SUFFICES ASSUME FilesInv, Spawn PROVE FilesInv'
  OBVIOUS
<1>1. /\ phase = "made" /\ backend = "subprocess"
      /\ args' = args /\ host' = host /\ backend' = backend
  BY DEF Spawn
<1>2. files \subseteq {"docker"} /\ writeEnds = 0
  BY <1>1 DEF FilesInv
<1>3. phase' \in {"failed", "started"}
  BY DEF Spawn, Fails, CarrierFails, PopenFails, PopenRuns
<1>4. \/ files' = files
      \/ files' = files \cup {"subprocess"}
      \/ files' = files \cup {"unnamed"} /\ error' = "OSError" /\ host.windows
  BY DEF Spawn, Fails, CarrierFails, CarrierMade
<1>5. writeEnds' = 0 \/ (writeEnds' = 1 /\ error' = "OSError" /\ ~host.windows)
  <2>1. CASE writeEnds' = writeEnds
    BY <1>2, <2>1
  <2>2. CASE PopenFails
    BY <1>2, <2>2 DEF PopenFails, Fails, Pipes
  <2> QED BY <2>1, <2>2 DEF Spawn, CarrierFails, PopenRuns
<1>6. /\ writeEnds' \in Nat
      /\ writeEnds' > 0 => error' = "OSError" /\ ~host.windows
  BY <1>5
<1> QED BY <1>1, <1>2, <1>3, <1>4, <1>6 DEF FilesInv

LEMMA FilesAlways == Spec => []FilesInv
<1>1. Init => FilesInv
  BY DEF Init, FilesInv, Args
<1>2. FilesInv /\ HostChanges => FilesInv'
  <2> SUFFICES ASSUME FilesInv, HostChanges PROVE FilesInv'
    OBVIOUS
  <2>1. host' \in Host /\ host'.windows = host.windows
    BY DEF HostChanges, FilesInv, Host
  <2> QED BY <2>1 DEF FilesInv, HostChanges
<1>3. FilesInv /\ Destroy => FilesInv'
  BY DEF FilesInv, Destroy
<1>4. FilesInv /\ UNCHANGED vars => FilesInv'
  BY DEF FilesInv, vars
<1>5. FilesInv /\ [Next]_vars => FilesInv'
  BY <1>2, <1>3, <1>4, ConstructWrites, SpawnWrites DEF Next
<1> QED BY <1>1, <1>5, PTL DEF Spec

\* A refusal and destroy() leave no file but Docker's and the one start() could
\* not complete, and no descriptor but that of a process that could not be started.
THEOREM LeftBehind == Spec => []OnlyDockersFileStays
<1>1. FilesInv => OnlyDockersFileStays
  BY DEF FilesInv, OnlyDockersFileStays
<1> QED BY <1>1, FilesAlways, PTL

(***************************************************************************)
(* The automatic mode.                                                     *)
(***************************************************************************)

\* What the caller passes and what is on the machine, and that there is no
\* backend before the constructor.
ChoiceInv ==
  /\ args.path \in {"none", "there", "missing"}
  /\ host.found \in {"bundled", "onPath", "nowhere"}
  /\ phase = "new" => backend = "none"

LEMMA ChoiceAlways == Spec => []ChoiceInv
<1>1. Init => ChoiceInv
  BY DEF Init, ChoiceInv, Args, Host
<1>2. ChoiceInv /\ HostChanges => ChoiceInv'
  <2> SUFFICES ASSUME ChoiceInv, HostChanges PROVE ChoiceInv'
    OBVIOUS
  <2>1. PICK f \in {"bundled", "onPath", "nowhere"} : host' = [host EXCEPT !.found = f]
    BY DEF HostChanges
  <2>2. host'.found \in {"bundled", "onPath", "nowhere"}
    BY <2>1 DEF ChoiceInv
  <2> QED BY <2>2 DEF HostChanges, ChoiceInv
<1>3. ChoiceInv /\ (Construct \/ Spawn \/ Destroy \/ UNCHANGED vars) => ChoiceInv'
  BY DEF ChoiceInv, Construct, MaterializeFails, Refuse, Spawn, Destroy, Fails, CarrierFails,
         PopenFails, PopenRuns, vars
<1> QED BY <1>1, <1>2, <1>3, PTL DEF Spec, Next

\* The choice of the automatic mode without a listener, when nothing is raised,
\* can serve and is the most wanted that can; something is raised only when none can.
LEMMA ChoiceIsFirst ==
  ASSUME ChoiceInv, args.mode = "auto", args.native.listen = "none"
  PROVE  /\ ChoiceError = "none" =>
              /\ Choice \in Backends /\ CanServe(Choice)
              /\ \A b \in Backends : CanServe(b) => Rank[Choice] <= Rank[b]
         /\ ChoiceError # "none" => \A b \in Backends : ~CanServe(b)
<1> USE DEF ChoiceInv, ChoiceError, Choice, AutoChoice, ListenerRequested, BinaryFound, CanServe,
            Backends
<1>r. Rank["subprocess"] = 1 /\ Rank["native"] = 2 /\ Rank["docker"] = 3
  BY DEF Rank
<1>1. CASE BinaryFound
  <2>1. Choice = "subprocess" /\ ChoiceError = "none" /\ CanServe("subprocess")
    BY <1>1
  <2> QED BY <1>r, <2>1
<1>2. CASE ~BinaryFound /\ ~host.windows /\ host.bindings
  <2>1. Choice = "native" /\ ChoiceError = "none" /\ CanServe("native") /\ ~CanServe("subprocess")
    BY <1>2
  <2> QED BY <1>r, <2>1
<1>3. CASE ~BinaryFound /\ ~(~host.windows /\ host.bindings)
  <2>1. Choice = "docker" /\ ~CanServe("subprocess") /\ ~CanServe("native")
    BY <1>3
  <2>2. ChoiceError = "none" <=> CanServe("docker")
    BY <1>3
  <2> QED BY <1>r, <2>1, <2>2
<1> QED BY <1>1, <1>2, <1>3

\* The automatic mode takes the most wanted of the backends that can serve, for
\* every host and every argument, and refuses only when none can or the disk does.
THEOREM AutoIsPreferential == Spec => AutoTakesTheFirst
<1> DEFINE Takes ==
      args.mode = "auto" /\ phase = "new" /\ Refusal = "none" /\ args.native.listen = "none"
        /\ error' # "OSError" =>
        IF \E b \in Backends : CanServe(b)
          THEN /\ backend' \in Backends /\ CanServe(backend')
               /\ \A b \in Backends : CanServe(b) => Rank[backend'] <= Rank[b]
          ELSE backend' = "none" /\ phase' = "refused"
<1>1. ChoiceInv /\ [Next]_vars => [Takes]_vars
  <2> SUFFICES ASSUME ChoiceInv, Next, args.mode = "auto", phase = "new", Refusal = "none",
                      args.native.listen = "none", error' # "OSError"
               PROVE  IF \E b \in Backends : CanServe(b)
                        THEN /\ backend' \in Backends /\ CanServe(backend')
                             /\ \A b \in Backends : CanServe(b) => Rank[backend'] <= Rank[b]
                        ELSE backend' = "none" /\ phase' = "refused"
    OBVIOUS
  <2>1. Construct /\ ~MaterializeFails /\ backend = "none"
    BY DEF Next, HostChanges, Spawn, Destroy, MaterializeFails, Refuse, ChoiceInv
  <2>2. CASE ChoiceError = "none"
    <3>1. backend' = Choice
      BY <2>1, <2>2 DEF Construct, Refuse
    <3> QED BY <2>2, <3>1, ChoiceIsFirst
  <2>3. CASE ChoiceError # "none"
    <3>1. backend' = "none" /\ phase' = "refused"
      BY <2>1, <2>3 DEF Construct, Refuse
    <3> QED BY <2>3, <3>1, ChoiceIsFirst
  <2> QED BY <2>2, <2>3
<1> QED BY <1>1, ChoiceAlways, PTL DEF Spec, AutoTakesTheFirst
=============================================================================
