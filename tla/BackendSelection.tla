--------------------------- MODULE BackendSelection ---------------------------
(***************************************************************************)
(* The constructor of AsyncStdioBus (src/stdiobus/client.py) and the way   *)
(* the configuration takes from there: which arguments are refused and in  *)
(* which order, which backend is chosen, and the temporary files and pipe  *)
(* ends that carry the configuration to a bus (_create_docker_backend and  *)
(* SubprocessBackend._spawn_process) until destroy().                      *)
(*                                                                         *)
(* The host may change between the constructor, which looks for the binary *)
(* to choose a backend, and start(), which looks for it again.             *)
(***************************************************************************)
EXTENDS Naturals

CONSTANT Ports   \* the TCP ports a caller may give, 0 standing for none

ASSUME PortsAssumption == Ports \subseteq Nat

VARIABLES
  args,      \* what the caller passes
  host,      \* what there is on the machine
  phase,     \* where the client is
  backend,   \* the chosen backend
  error,     \* why the constructor or start() failed
  files,     \* temporary files on disk, named by the backend that knows their path,
             \* "unnamed" when none does
  writeEnds  \* write ends of configuration pipes that are open

vars == <<args, host, phase, backend, error, files, writeEnds>>

Modes == {"auto", "native", "docker", "subprocess", "unknown"}
Backends == {"native", "docker", "subprocess"}

NativeOptions ==
  [listen : {"none", "tcp", "unix"}, port : Ports, unixPath : {"", "socket"}, poll : {0, 1}]

\* A config object (none, one that validates or not), a path (none, of a file
\* that exists or not), the mode, the native options, and whether
\* SubprocessOptions names a binary.
Args == [config : {"none", "valid", "bad"}, path : {"none", "there", "missing"},
         mode : Modes, native : NativeOptions, binary : BOOLEAN]
Host == [windows : BOOLEAN, found : {"bundled", "onPath", "nowhere"},
         bindings : BOOLEAN, engine : BOOLEAN]

Init ==
  /\ args \in Args
  /\ host \in Host
  /\ phase = "new"
  /\ backend = "none" /\ error = "none"
  /\ files = {}
  /\ writeEnds = 0

-----------------------------------------------------------------------------
PortRange == 1..65535

\* NativeOptions.validate
ValidNative(n) ==
  /\ n.listen = "tcp" => n.port \in PortRange
  /\ n.listen = "unix" => n.unixPath # ""
  /\ n.poll >= 1

BadSource == (args.config # "none") = (args.path # "none")

\* The errors before a backend is looked for, in their order: exactly one
\* source of configuration, a mode, the native options, the configuration.
Refusal ==
  IF BadSource THEN "InvalidArgument"
  ELSE IF args.mode = "unknown" THEN "Value"
  ELSE IF ~ValidNative(args.native) THEN "InvalidArgument"
  ELSE IF args.config = "bad" THEN "Value" ELSE "none"

\* resolve_binary: the caller's path is believed as it is.
BinaryFound == args.binary \/ host.found # "nowhere"

ListenerRequested == args.native.listen # "none"

\* Faulty variant: the two systems are taken for one another.
AutoSwapped ==
  IF BinaryFound THEN "subprocess"
  ELSE IF host.windows /\ host.bindings THEN "native" ELSE "docker"

\* Auto mode without a listener.
AutoChoice ==
  IF BinaryFound THEN "subprocess"
  ELSE IF ~host.windows /\ host.bindings THEN "native" ELSE "docker"

\* Faulty variant: auto mode degrades a client with a listener.
ChoiceIgnoringListener == IF args.mode = "auto" THEN AutoChoice ELSE args.mode

\* _resolve_backend, without the errors.
Choice ==
  IF args.mode # "auto" THEN args.mode
  ELSE IF ListenerRequested THEN "native" ELSE AutoChoice

\* What _resolve_backend and the constructors of the backends raise.
ChoiceError ==
  IF args.mode \in {"docker", "subprocess"} /\ ListenerRequested THEN "InvalidArgument"
  ELSE IF Choice = "native" /\ ~host.bindings THEN "InvalidArgument"
  ELSE IF Choice = "docker" /\ args.path = "missing" THEN "Transport"
  ELSE IF Choice = "docker" /\ ~host.engine THEN "Unavailable" ELSE "none"

Refuse(e) ==
  /\ phase' = "refused"
  /\ error' = e
  /\ UNCHANGED <<args, host, backend, writeEnds>>

ForDocker == Choice = "docker" /\ ChoiceError # "InvalidArgument" /\ args.config # "none"

\* _create_docker_backend writes the configuration before it knows whether
\* there is an engine to read it.
Materialize == files' = IF ForDocker THEN files \cup {"docker"} ELSE files

\* The file cannot be created, or be written once it is there.
MaterializeFails ==
  /\ ForDocker
  /\ Refuse("OSError")
  /\ UNCHANGED files \/ files' = files \cup {"docker"}

Construct ==
  /\ phase = "new"
  /\ \/ /\ Refusal # "none"
        /\ Refuse(Refusal)
        /\ UNCHANGED files
     \/ Refusal = "none" /\ MaterializeFails
     \/ /\ Refusal = "none"
        /\ Materialize
        /\ \/ ChoiceError # "none" /\ Refuse(ChoiceError)
           \/ /\ ChoiceError = "none"
              /\ phase' = "made"
              /\ backend' = Choice
              /\ UNCHANGED <<args, host, error, writeEnds>>

\* The binary is installed or removed.
HostChanges ==
  /\ phase = "made"
  /\ \E f \in {"bundled", "onPath", "nowhere"} : host' = [host EXCEPT !.found = f]
  /\ UNCHANGED <<args, phase, backend, error, files, writeEnds>>

-----------------------------------------------------------------------------
Fails(e) == phase' = "failed" /\ error' = e
Pipes == args.config # "none" /\ ~host.windows

\* The pipe or the file for the configuration cannot be made: a file that was
\* created but not written, or not made private, has no name yet.
CarrierFails ==
  /\ args.config # "none"
  /\ Fails("OSError")
  /\ UNCHANGED files \/ (host.windows /\ files' = files \cup {"unnamed"})
  /\ UNCHANGED writeEnds

CarrierMade ==
  files' = IF args.config # "none" /\ host.windows THEN files \cup {"subprocess"} ELSE files

\* Popen raises: the write end of the pipe is closed by nobody.
PopenFails ==
  /\ Fails("OSError")
  /\ writeEnds' = IF Pipes THEN writeEnds + 1 ELSE writeEnds

PopenRuns ==
  /\ phase' = "started"
  /\ UNCHANGED <<error, writeEnds>>

\* _spawn_process of the subprocess backend.
Spawn ==
  /\ phase = "made"
  /\ backend = "subprocess"
  /\ \/ ~BinaryFound /\ Fails("NotFound") /\ UNCHANGED <<files, writeEnds>>
     \/ BinaryFound /\ CarrierFails
     \/ BinaryFound /\ CarrierMade /\ (PopenFails \/ PopenRuns)
  /\ UNCHANGED <<args, host, backend>>

\* Faulty variant: destroy() forgets the temporary file.
DestroyKeepingFile ==
  /\ phase \in {"made", "started", "failed"}
  /\ phase' = "destroyed"
  /\ UNCHANGED <<args, host, backend, error, files, writeEnds>>

\* destroy(): the subprocess backend removes its file, nobody Docker's.
Destroy ==
  /\ phase \in {"made", "started", "failed"}
  /\ phase' = "destroyed"
  /\ files' = files \ {"subprocess"}
  /\ UNCHANGED <<args, host, backend, error, writeEnds>>

Next == Construct \/ HostChanges \/ Spawn \/ Destroy

Spec == Init /\ [][Next]_vars

-----------------------------------------------------------------------------
(* Properties.                                                             *)

\* A client that asked for a listener has the native backend, with an address
\* to listen on, or was refused: it is never degraded silently
\* (the listener contract of _resolve_backend).
ListenerIsServed ==
  backend # "none" /\ args.native.listen # "none" =>
    /\ backend = "native"
    /\ args.native.listen = "tcp" => args.native.port \in PortRange
    /\ args.native.listen = "unix" => args.native.unixPath # ""

\* What can serve a client of the automatic mode on this host, most wanted
\* first: src/README.md, "subprocess -> native -> docker (Unix), subprocess ->
\* docker (Windows)".
Rank == [subprocess |-> 1, native |-> 2, docker |-> 3]
CanServe(b) ==
  \/ b = "subprocess" /\ (args.binary \/ host.found \in {"bundled", "onPath"})
  \/ b = "native" /\ host.bindings /\ ~host.windows
  \/ b = "docker" /\ host.engine /\ args.path # "missing"

\* The automatic mode takes the most wanted of the backends that can serve,
\* and refuses only when none can, unless the disk refuses Docker's file.
AutoTakesTheFirst == [][
  args.mode = "auto" /\ phase = "new" /\ Refusal = "none" /\ args.native.listen = "none"
    /\ error' # "OSError" =>
    IF \E b \in Backends : CanServe(b)
      THEN /\ backend' \in Backends /\ CanServe(backend')
           /\ \A b \in Backends : CanServe(b) => Rank[backend'] <= Rank[b]
      ELSE backend' = "none" /\ phase' = "refused"]_vars

\* What destroy() or a refusal leaves on disk is the file written for Docker,
\* and on Windows one that start() could not complete; a descriptor stays open
\* only after a Popen that failed.
OnlyDockersFileStays ==
  /\ phase \in {"refused", "destroyed"} => files \subseteq {"docker", "unnamed"}
  /\ "docker" \in files => args.config = "valid" /\ backend \in {"docker", "none"}
  /\ "unnamed" \in files => error = "OSError" /\ host.windows /\ backend = "subprocess"
  /\ writeEnds > 0 => error = "OSError" /\ ~host.windows /\ backend = "subprocess"
=============================================================================
