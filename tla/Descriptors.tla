------------------------------ MODULE Descriptors ------------------------------
(***************************************************************************)
(* One helper's descriptor table and environment, from main's first line   *)
(* to its return (entrypoint.c, result.c, harden.c, and the file actions   *)
(* of spawn.c): the caller's standard output is set aside for the result,  *)
(* the request is read, the process is cleaned, dpkg is run, one frame is  *)
(* written, in as many pieces as the pipe takes it in.  A descriptor names *)
(* what is open behind it; the kernel gives out the lowest free one and    *)
(* has a limit, and any call may fail.                                     *)
(*                                                                         *)
(* The standard three are open at the start: pkexec is set-uid and the C   *)
(* library of a set-uid program sees to that.  What else was inherited,    *)
(* and whether it is close-on-exec, is arbitrary.  libapt is external: it  *)
(* may write to the standard descriptors whenever it runs.  So is the      *)
(* caller, who may close its end of the result pipe at any time.           *)
(***************************************************************************)
EXTENDS Integers, FiniteSets, FiniteSetsExt

CONSTANTS Last,       \* the highest descriptor the limit allows
          FrameSize   \* the bytes of the frame, its newline included

ASSUME LastAssumption == Last \in Nat /\ Last >= 3
ASSUME FrameAssumption == FrameSize \in Nat \ {0}

Fds     == 0..Last
Files   == {"request", "result", "stderr", "stray", "null", "payload", "feed"}
Nothing == "closed"
NoFd    == -1
NoTable == [fd \in Fds |-> Nothing]

VARIABLES
  pc, tab, cloexec,   \* the table, and which descriptors exec closes
  env,                \* the environment: "caller" or "clean"
  rfd,                \* the result descriptor
  st,                 \* what the frame will say: "internal", "failure", "success"
  off, rc,            \* the bytes the write loop counts, and its return code
  got,                \* the bytes of the frame that the caller's pipe took
  reader,             \* the caller's end of that pipe: "open" or "closed"
  sigpipe, old,       \* disposition of SIGPIPE, and the one saved for later
  cut,                \* the listing of the descriptors ended before its time
  said,               \* the files libapt and dpkg have written to
  exit,
  child, childEnv     \* what dpkg was started with

outVars == <<off, rc, got, reader, sigpipe, old>>
vars == <<pc, tab, cloexec, env, rfd, st, outVars, cut, said, exit, child, childEnv>>

Init ==
  /\ pc = "start"
  /\ \E strays \in SUBSET (3..Last) :
       /\ tab = [fd \in Fds |-> CASE fd = 0 -> "request"
                                  [] fd = 1 -> "result"
                                  [] fd = 2 -> "stderr"
                                  [] fd \in strays -> "stray"
                                  [] OTHER -> Nothing]
       /\ cloexec \in SUBSET strays
  /\ env = "caller" /\ rfd = NoFd /\ st = "internal"
  /\ off = 0 /\ rc = 0 /\ got = 0 /\ reader = "open" /\ cut = FALSE
  /\ sigpipe \in {"default", "ignored"} /\ old = sigpipe
  /\ said = {} /\ exit = -1 /\ child = NoTable /\ childEnv = "none"

Free(t)      == {fd \in Fds : t[fd] = Nothing}
Lowest(t)    == Min(Free(t))
AfterExec(t) == [fd \in Fds |-> IF fd \in cloexec THEN Nothing ELSE t[fd]]

(* fail_result: an internal frame, nothing issued. *)
GiveUp == pc' = "emit" /\ UNCHANGED <<rfd, st, said, exit, child, childEnv>>

-----------------------------------------------------------------------------
(* Bug: the standard output is set aside, but not replaced. *)
OpenChannel_KeepsStdout ==
  /\ pc = "start"
  /\ \/ pc' = "done" /\ exit' = 1 /\ UNCHANGED <<tab, cloexec, rfd>>
     \/ /\ Free(tab) # {}
        /\ rfd' = Lowest(tab) /\ tab' = [tab EXCEPT ![rfd'] = tab[1]]
        /\ cloexec' = cloexec \cup {rfd'}
        /\ pc' = "read" /\ UNCHANGED exit
  /\ UNCHANGED <<env, st, outVars, cut, said, child, childEnv>>
(* Bug: the standard output is replaced before it is set aside. *)
OpenChannel_RedirectsFirst ==
  /\ pc = "start"
  /\ \/ pc' = "done" /\ exit' = 1 /\ UNCHANGED <<tab, cloexec, rfd>>
     \/ /\ Free(tab) # {}
        /\ rfd' = Lowest(tab)
        /\ tab' = [tab EXCEPT ![rfd'] = tab[2], ![1] = tab[2]]
        /\ cloexec' = (cloexec \cup {rfd'}) \ {1}
        /\ pc' = "read" /\ UNCHANGED exit
  /\ UNCHANGED <<env, st, outVars, cut, said, child, childEnv>>
(* pkgx_result_channel_open: dup, close-on-exec, standard error over fd 1.  *)
OpenChannel ==
  /\ pc = "start"
  /\ \/ pc' = "done" /\ exit' = 1 /\ UNCHANGED <<tab, cloexec, rfd>>
     \/ /\ Free(tab) # {}
        /\ rfd' = Lowest(tab)
        /\ tab' = [tab EXCEPT ![rfd'] = tab[1], ![1] = tab[2]]
        /\ cloexec' = (cloexec \cup {rfd'}) \ {1}
        /\ pc' = "read" /\ UNCHANGED exit
  /\ UNCHANGED <<env, st, outVars, cut, said, child, childEnv>>

(* The uid and the request; whatever is wrong with them ends the run.       *)
ReadRequest ==
  /\ pc = "read"
  /\ \/ GiveUp
     \/ pc' = "scrub" /\ UNCHANGED <<rfd, st, said, exit, child, childEnv>>
  /\ UNCHANGED <<tab, cloexec, env, outVars, cut>>

Scrub ==
  /\ pc = "scrub"
  /\ \/ GiveUp /\ env' \in {env, "clean"}
     \/ /\ env' = "clean" /\ pc' = "stdin"
        /\ UNCHANGED <<rfd, st, said, exit, child, childEnv>>
  /\ UNCHANGED <<tab, cloexec, outVars, cut>>

(* Bug: fd 0 is closed, for the next open to take its place. *)
NullStdin_Closes ==
  /\ pc = "stdin"
  /\ tab' = [tab EXCEPT ![0] = Nothing] /\ cloexec' = cloexec \ {0} /\ pc' = "cloexec"
  /\ UNCHANGED <<env, rfd, st, outVars, cut, said, exit, child, childEnv>>
(* /dev/null is opened, put over fd 0 and closed again; fd 0 survives exec. *)
NullStdin ==
  /\ pc = "stdin"
  /\ \/ GiveUp /\ tab' \in {tab, [tab EXCEPT ![0] = "null"]} /\ UNCHANGED cloexec
     \/ /\ Free(tab) # {}
        /\ tab' = [tab EXCEPT ![0] = "null"] /\ cloexec' = cloexec \ {0}
        /\ pc' = "cloexec"
        /\ UNCHANGED <<rfd, st, said, exit, child, childEnv>>
  /\ UNCHANGED <<env, outVars, cut>>

(* Bug: the lowest descriptor is exclusive. *)
CloexecFrom_Above ==
  LET open == {fd \in 4..Last : tab[fd] # Nothing} IN
  /\ pc = "cloexec"
  /\ \E marked \in SUBSET open :
       /\ cloexec' = cloexec \cup marked
       /\ \/ GiveUp /\ UNCHANGED cut
          \/ /\ Free(tab) # {}
             /\ cut' = ~(open \subseteq cloexec')
             /\ pc' = "run" /\ UNCHANGED <<rfd, st, said, exit, child, childEnv>>
  /\ UNCHANGED <<tab, env, outVars>>
(* The listing of /proc/self/fd needs a descriptor too.  One that cannot be *)
(* marked is an error after the rest were; a listing that breaks off is     *)
(* taken for its end, and is no error.                                      *)
CloexecFrom ==
  LET open == {fd \in 3..Last : tab[fd] # Nothing} IN
  /\ pc = "cloexec"
  /\ \E marked \in SUBSET open :
       /\ cloexec' = cloexec \cup marked
       /\ \/ GiveUp /\ UNCHANGED cut
          \/ /\ Free(tab) # {}
             /\ cut' = ~(open \subseteq cloexec')
             /\ pc' = "run" /\ UNCHANGED <<rfd, st, said, exit, child, childEnv>>
  /\ UNCHANGED <<tab, env, outVars>>

-----------------------------------------------------------------------------
(* The effector. *)

(* A child without a payload is started from the table as it is; one with a *)
(* payload gets the read end of a new pipe as its input, and the file       *)
(* actions close both ends where the pipe put them.  The helper's own ends  *)
(* are closed again when the call returns.                                  *)
RunChild ==
  /\ pc = "run"
  /\ \/ child' = AfterExec(tab)
     \/ LET in0 == Lowest(tab)
            in1 == Lowest([tab EXCEPT ![in0] = "payload"])
            piped == [tab EXCEPT ![in0] = "payload", ![in1] = "feed"]
        IN /\ Cardinality(Free(tab)) >= 2
           /\ child' = AfterExec([piped EXCEPT ![0] = piped[in0],
                                               ![in0] = Nothing, ![in1] = Nothing])
  /\ childEnv' = env
  /\ pc' = "running"
  /\ UNCHANGED <<tab, cloexec, env, rfd, st, outVars, cut, said, exit>>

(* libapt reports progress; dpkg and its maintainer scripts print.          *)
Chatter ==
  /\ pc \in {"run", "running"}
  /\ \E t \in {tab} \cup (IF pc = "running" THEN {child} ELSE {}) :
       \E fd \in {1, 2} : said' = said \cup ({t[fd]} \ {Nothing})
  /\ UNCHANGED <<pc, tab, cloexec, env, rfd, st, outVars, cut, exit, child, childEnv>>

EffectEnds ==
  /\ pc \in {"run", "running"}
  /\ st' \in {"failure", "success"}
  /\ pc' = "emit"
  /\ UNCHANGED <<tab, cloexec, env, rfd, outVars, cut, said, exit, child, childEnv>>

-----------------------------------------------------------------------------
(* pkgx_result_emit: SIGPIPE is ignored, the frame is written until all of  *)
(* it is gone, SIGPIPE is put back; then main returns.                      *)

(* A frame that cannot be serialised, or a write whose failure might not be *)
(* seen, is not begun.                                                      *)
Mask_Skipped ==
  /\ pc = "emit"
  /\ pc' = "write" /\ UNCHANGED <<exit, sigpipe, old>>
  /\ UNCHANGED <<tab, cloexec, env, rfd, st, off, rc, got, reader, cut, said, child,
                 childEnv>>
Mask ==
  /\ pc = "emit"
  /\ \/ pc' = "done" /\ exit' = 1 /\ UNCHANGED <<sigpipe, old>>
     \/ pc' = "write" /\ old' = sigpipe /\ sigpipe' = "ignored" /\ UNCHANGED exit
  /\ UNCHANGED <<tab, cloexec, env, rfd, st, off, rc, got, reader, cut, said, child,
                 childEnv>>

(* The bytes reach the caller if the result descriptor still is its pipe.   *)
Reaches(k) == got' = IF tab[rfd] = "result" THEN got + k ELSE got

(* Bug: a write is taken for a write of everything. *)
Write_Once ==
  /\ pc = "write" /\ off < FrameSize /\ reader = "open"
  /\ \E k \in 1..(FrameSize - off) : off' = FrameSize /\ Reaches(k)
  /\ UNCHANGED <<pc, tab, cloexec, env, rfd, st, rc, reader, sigpipe, old, cut, said,
                 exit, child, childEnv>>
(* An interrupted write is made again; a short one goes on where it ended.  *)
Write ==
  /\ pc = "write" /\ off < FrameSize /\ reader = "open"
  /\ \E k \in 1..(FrameSize - off) : off' = off + k /\ Reaches(k)
  /\ UNCHANGED <<pc, tab, cloexec, env, rfd, st, rc, reader, sigpipe, old, cut, said,
                 exit, child, childEnv>>

(* A write to a pipe nobody reads fails, or kills the process.              *)
WriteBroken ==
  /\ pc = "write" /\ off < FrameSize /\ reader = "closed"
  /\ IF sigpipe = "ignored" THEN rc' = -1 /\ pc' = "unmask"
                            ELSE pc' = "killed" /\ UNCHANGED rc
  /\ UNCHANGED <<tab, cloexec, env, rfd, st, off, got, reader, sigpipe, old, cut, said,
                 exit, child, childEnv>>

WriteFails ==
  /\ pc = "write" /\ off < FrameSize
  /\ rc' = -1 /\ pc' = "unmask"
  /\ UNCHANGED <<tab, cloexec, env, rfd, st, off, got, reader, sigpipe, old, cut, said,
                 exit, child, childEnv>>

WriteEnds ==
  /\ pc = "write" /\ off = FrameSize
  /\ pc' = "unmask"
  /\ UNCHANGED <<tab, cloexec, env, rfd, st, outVars, cut, said, exit, child, childEnv>>

Unmask ==
  /\ pc = "unmask"
  /\ \/ sigpipe' = old /\ UNCHANGED rc
     \/ rc' = -1 /\ UNCHANGED sigpipe
  /\ exit' = IF rc' = 0 /\ st = "success" THEN 0 ELSE 1
  /\ pc' = "done"
  /\ UNCHANGED <<tab, cloexec, env, rfd, st, off, got, reader, old, cut, said, child,
                 childEnv>>

(* The caller goes away. *)
ReaderCloses ==
  /\ reader = "open" /\ pc \notin {"done", "killed"}
  /\ reader' = "closed"
  /\ UNCHANGED <<pc, tab, cloexec, env, rfd, st, off, rc, got, sigpipe, old, cut, said,
                 exit, child, childEnv>>

Done == pc \in {"done", "killed"} /\ UNCHANGED vars
Next ==
  \/ OpenChannel \/ ReadRequest \/ Scrub \/ NullStdin \/ CloexecFrom
  \/ RunChild \/ Chatter \/ EffectEnds
  \/ Mask \/ Write \/ WriteBroken \/ WriteFails \/ WriteEnds \/ Unmask \/ ReaderCloses
  \/ Done

Spec == Init /\ [][Next]_vars

-----------------------------------------------------------------------------
(* Properties. *)

OutType ==
  /\ off \in 0..FrameSize /\ got \in 0..FrameSize /\ rc \in {-1, 0}
  /\ reader \in {"open", "closed"}
  /\ sigpipe \in {"default", "ignored"} /\ old \in {"default", "ignored"}

(* Every variable stays in its range, and the standard three stay open.      *)
TypeOK ==
  /\ pc \in {"start", "read", "scrub", "stdin", "cloexec", "run", "running", "emit",
             "write", "unmask", "done", "killed"}
  /\ tab \in [Fds -> Files \cup {Nothing}] /\ cloexec \in SUBSET (3..Last)
  /\ \A fd \in Fds : fd \in cloexec \cup {0, 1, 2} => tab[fd] # Nothing
  /\ env \in {"caller", "clean"} /\ rfd \in Fds \cup {NoFd}
  /\ st \in {"internal", "failure", "success"} /\ cut \in BOOLEAN
  /\ said \in SUBSET Files /\ exit \in {-1, 0, 1}
  /\ child \in [Fds -> Files \cup {Nothing}] /\ childEnv \in {"none", "caller", "clean"}
  /\ OutType

(* Whatever was inherited, dpkg starts with its payload or /dev/null, with   *)
(* standard error for both outputs, and with nothing of the helper's: not    *)
(* the request that holds the receipt, not the result channel, not the end   *)
(* of the pipe that would keep its own input open.  Something inherited can  *)
(* come with them only when the listing of the descriptors was cut short.    *)
ChildIsIsolated ==
  childEnv # "none" =>
    /\ childEnv = "clean"
    /\ child[0] \in {"null", "payload"} /\ child[1] = "stderr" /\ child[2] = "stderr"
    /\ \A fd \in 3..Last : child[fd] = Nothing \/ (cut /\ child[fd] = "stray")

(* The caller's standard output carries the frame and nothing that libapt or *)
(* dpkg print.                                                               *)
OnlyTheFrame == "result" \notin said

(* Exit code 0 means that the caller's pipe took every byte of the frame and *)
(* that it reports a success; and writing to a caller who has gone never     *)
(* kills the helper, so a frame cut off anywhere is exit code 1 and not a    *)
(* death that could be taken for something else.                             *)
ZeroIsDelivered ==
  /\ exit = 0 => got = FrameSize /\ st = "success"
  /\ pc # "killed"
=============================================================================
