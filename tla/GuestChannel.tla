---------------------------- MODULE GuestChannel ----------------------------
(***************************************************************************)
(* The actions copyto, copyfrom and exec: the host's coroutine, the byte   *)
(* stream between host and guest, and the guest additions service.         *)
(* Source: visit_copy and visit_exec, GuestAdditions.cpp (host side),      *)
(* QemuGuestAdditions.cpp, MessageHandler.cpp, Channel.cpp, MainLinux.cpp  *)
(* (guest side), coro/Timeout.h.                                           *)
(*                                                                         *)
(* Requests and answers carry nothing that says which belongs to which.    *)
(* Each action makes a connection of its own; the stream in the guest is   *)
(* one and the same.  What the hypervisor's channel does when the host     *)
(* leaves: what it has not taken from the guest waits for the next         *)
(* connection, an end of what the host has sent may be lost.               *)
(***************************************************************************)
EXTENDS ExecContext, Naturals, Sequences

CONSTANTS
    Files,       \* what is copied; a destination in the guest, a file on the host
    Script,      \* the file an exec copies first
    Actions,     \* the actions a test may contain
    Bad,         \* the files the guest may be unable to write or read
    Capacity,    \* bound on the answers the host has not read, when writes block
    MaxActions   \* bound on the number of actions

ASSUME FilesAssumption == Script \in Files /\ Bad \subseteq Files
ASSUME ActionsAssumption ==
    /\ Actions \subseteq [kind : {"copyto", "copyfrom", "exec"}, files : SUBSET Files]
    /\ \A a \in Actions : a.kind = "exec" => a.files = {Script}
ASSUME BoundsAssumption == Capacity \in Nat \ {0} /\ MaxActions \in Nat

VARIABLES
    pc,            \* the answer the coroutine waits for, or "idle"
    act,           \* the present action, or the last
    ok,            \* the last action succeeded
    left,          \* the files still to be copied
    timer,         \* the Timeout of the action itself: "off", "armed" or "missed"
    eating,        \* the host has taken other bytes for a length and reads on and on
    machine_vars,  \* the variables of this machine and of another one of the test
    got,           \* the files a copyfrom has received
    actions,       \* how many actions there have been
    toGuest,       \* sent by the host, not yet read by the guest
    toHost,        \* sent by the guest, not yet read by the host
    at,            \* what the guest's handler is doing
    todo,          \* the file it is receiving, or those it has yet to send
    out,           \* what it is about to write
    stored,        \* the files that are in the guest as the host sent them
    quiet,         \* nothing was in the way when the action began and nothing has
                   \* been given up since
    acked          \* what the command line tool was told the variables are

host == <<pc, act, ok, left, timer, eating, machine_vars, got, actions>>
guest == <<at, todo, out, stored>>
vars == <<host, toGuest, toHost, guest, context, quiet, acked>>

\* "recheck" is the same message as "check"; the name tells where it was sent.
Requests == {"check", "tmpdir", "recheck", "copy", "list", "execute"}
Item == [what : Requests \cup {"pending", "finished", "raw", "fragment"}, files : SUBSET Files,
         ok : BOOLEAN, code : {"zero", "nonzero"}, vars : VarMap, globals : SUBSET Names]

Plain(what, files) ==
    [what |-> what, files |-> files, ok |-> TRUE, code |-> "zero", vars |-> NoVars,
     globals |-> {}]
Error(what, files) == [Plain(what, files) EXCEPT !.ok = FALSE]
Fragment == Plain("fragment", {})

----------------------------------------------------------------------------
(* The host                                                                *)

Send(items) == toGuest' = toGuest \o items

\* The action is over and its connection closed.
End(success) ==
    /\ pc' = "idle" /\ ok' = success
    /\ left' = {} /\ timer' = "off" /\ eating' = FALSE
    /\ toHost' = <<>>
    /\ \E n \in 0 .. Len(toGuest) : toGuest' = SubSeq(toGuest, 1, n)
    /\ UNCHANGED <<act, actions, quiet>>

\* What stays as it is when the coroutine goes on to wait for something else.
Going == UNCHANGED <<act, ok, got, actions, machine_vars>>

Begin(a) ==
    /\ pc = "idle" /\ actions < MaxActions
    /\ actions' = actions + 1
    /\ act' = a /\ ok' = FALSE /\ left' = a.files /\ got' = {}
    /\ timer' = IF a.kind = "exec" THEN "off" ELSE "armed"
    /\ pc' = "check" /\ eating' = FALSE
    /\ Send(<<Plain("check", {})>>)
    /\ quiet' = (toGuest = <<>> /\ at = "receive")
    /\ UNCHANGED <<toHost, guest, context, machine_vars, acked>>

Reading(p) == pc = p /\ ~eating /\ toHost # <<>>
Answer == Head(toHost)
Garbled == Answer.what \in {"raw", "fragment"}
\* (mutant) recv does not look at "success".
AnyAnswer == ~Garbled

Success == ~Garbled /\ Answer.ok

Failed == End(FALSE) /\ UNCHANGED <<got, machine_vars>>
Done == End(TRUE) /\ UNCHANGED <<got, machine_vars>>

\* copy_file_to_guest, up to its recv: the content follows the request at once.
SendFile ==
    \E f \in left :
        /\ left' = left \ {f}
        /\ pc' = "copy" /\ eating' = FALSE
        /\ Send(<<Plain("copy", {f}), Plain("raw", {f})>>)
        /\ Going

Follows(next, files) ==
    /\ pc' = next
    /\ Send(<<Plain(next, files)>>)
    /\ UNCHANGED <<left, timer, eating, quiet>> /\ Going

\* (mutant) The answer of the check is left in the stream.
CheckedUnread ==
    /\ Reading("check") /\ Success
    /\ CASE act.kind = "exec" -> Follows("tmpdir", {})
         [] act.kind = "copyto" -> Follows("recheck", {})
         [] act.kind = "copyfrom" -> Follows("list", act.files)
    /\ UNCHANGED <<toHost, guest, context, acked>>

\* visit_copy and visit_exec, after their own is_avaliable.  What a copyto is to copy
\* may not be there.
HostChecked ==
    /\ Reading("check")
    /\ \/ /\ Success /\ toHost' = Tail(toHost)
          /\ CASE act.kind = "exec" -> Follows("tmpdir", {})
               [] act.kind = "copyto" -> Follows("recheck", {})
               [] act.kind = "copyfrom" -> Follows("list", act.files)
       \/ (~Success \/ act.kind = "copyto") /\ Failed
    /\ UNCHANGED <<guest, context, acked>>

\* The script may not be writable on the host.
HostGotTmpDir ==
    /\ Reading("tmpdir")
    /\ \/ /\ Success /\ Answer.what = "tmpdir"
          /\ Follows("recheck", {}) /\ toHost' = Tail(toHost)
       \/ Failed
    /\ UNCHANGED <<guest, context, acked>>

\* The outcome of the second is_avaliable is ignored.  An empty directory is copied
\* at once; a file may not be readable on the host.
HostRechecked ==
    /\ Reading("recheck")
    /\ \/ left = {} /\ Done
       \/ SendFile /\ toHost' = Tail(toHost) /\ UNCHANGED <<timer, quiet>>
       \/ left # {} /\ Failed
    /\ UNCHANGED <<guest, context, acked>>

HostCopied ==
    /\ Reading("copy")
    /\ \/ Success /\ SendFile /\ toHost' = Tail(toHost) /\ UNCHANGED <<timer, quiet>>
       \/ (~Success \/ left # {}) /\ Failed
       \/ Success /\ left = {} /\ act.kind # "exec" /\ Done
       \/ /\ Success /\ left = {} /\ act.kind = "exec"
          /\ pc' = "run" /\ timer' = "armed"
          /\ Send(<<[Plain("execute", {}) EXCEPT !.vars = machine_vars.self]>>)
          /\ toHost' = Tail(toHost)
          /\ UNCHANGED <<left, eating, quiet>> /\ Going
    /\ UNCHANGED <<guest, context, acked>>

\* (mutant) A variable the machine has keeps its value.
Inserted(m, names) ==
    [x \in Names |-> IF x \in names /\ machine_vars[m][x] = NoValue THEN Answer.vars[x]
                     ELSE machine_vars[m][x]]

\* The machines' variables after those of an answer have been set.
Updated(m, names) ==
    [x \in Names |-> IF x \in names /\ Answer.vars[x] # NoValue THEN Answer.vars[x]
                     ELSE machine_vars[m][x]]

HostRan ==
    /\ Reading("run")
    /\ CASE Success /\ Answer.what = "pending" ->
              /\ toHost' = Tail(toHost)
              /\ UNCHANGED <<pc, left, timer, eating, toGuest, quiet>> /\ Going
         [] Success /\ Answer.what = "finished" /\ Answer.code = "zero" ->
              /\ machine_vars' = [self |-> Updated("self", Names),
                                  other |-> Updated("other", Answer.globals)]
              /\ End(TRUE) /\ UNCHANGED got
         [] OTHER -> Failed
    /\ UNCHANGED <<guest, context, acked>>

\* copy_from_guest: a "result" that is an empty object is an empty list.
HostListed ==
    /\ Reading("list")
    /\ IF Success /\ Answer.what = "list" /\ Answer.files # {}
       THEN /\ pc' = "files" /\ left' = Answer.files
            /\ toHost' = Tail(toHost)
            /\ UNCHANGED <<timer, eating, toGuest, quiet>> /\ Going
       ELSE /\ End(Success /\ Answer.what \in {"list", "check", "recheck", "copy"})
            /\ UNCHANGED <<got, machine_vars>>
    /\ UNCHANGED <<guest, context, acked>>

\* The bytes that come are taken for the content of the next file, which may not be
\* writable on the host.
HostReceivesFile ==
    /\ Reading("files") /\ Answer.what = "raw"
    /\ \/ \E f \in left :
             /\ Answer.files = {f} \/ Answer.files \cap left = {}
             /\ got' = got \cup ({f} \cap Answer.files)
             /\ IF left = {f}
                THEN End(TRUE) /\ UNCHANGED machine_vars
                ELSE /\ left' = left \ {f} /\ toHost' = Tail(toHost)
                     /\ UNCHANGED <<pc, act, ok, timer, eating, actions, machine_vars,
                                    toGuest, quiet>>
       \/ Failed
    /\ UNCHANGED <<guest, context, acked>>

\* Bytes that are no length are taken for one, and there are not as many to come.
HostMisreads ==
    /\ pc # "idle" /\ toHost # <<>>
    /\ eating \/ (pc = "files" /\ Answer.what # "raw") \/ (pc # "files" /\ Garbled)
    /\ eating' = TRUE
    /\ toHost' = Tail(toHost)
    /\ UNCHANGED <<pc, left, timer, toGuest, guest, context, quiet, acked>> /\ Going

\* An exception in the middle of recv may have taken all of an answer or the length
\* of it.
Interrupted ==
    \/ UNCHANGED toHost
    \/ /\ toHost # <<>> /\ ~eating
       /\ toHost' \in {Tail(toHost), <<Fragment>> \o Tail(toHost)}

\* is_avaliable catches what its own Timeout throws, and any other exception; the
\* copying goes on.
GiveUpRecheck ==
    /\ pc = "recheck"
    /\ \/ left = {} /\ Done
       \/ SendFile /\ Interrupted /\ quiet' = FALSE
       \/ left # {} /\ Failed

\* (mutant) get_tmp_dir waits for ever.
ExpireChecksOnly ==
    /\ \/ GiveUpRecheck /\ (pc' = "copy" => UNCHANGED timer)
       \/ pc = "check" /\ Failed
    /\ UNCHANGED <<guest, context, acked>>

\* The three seconds of is_avaliable and get_tmp_dir are over.
Expire ==
    /\ \/ GiveUpRecheck /\ (pc' = "copy" => UNCHANGED timer)
       \/ pc \in {"check", "tmpdir"} /\ Failed
    /\ UNCHANGED <<guest, context, acked>>

\* The time of the whole action is over: an exception, which the second is_avaliable
\* catches as well.
TimeIsUp ==
    /\ timer = "armed"
    /\ \/ GiveUpRecheck /\ (pc' = "copy" => timer' = "missed")
       \/ pc # "recheck" /\ Failed
    /\ UNCHANGED <<guest, context, acked>>

----------------------------------------------------------------------------
(* The guest                                                               *)

Request == Head(toGuest)

\* What the handler writes next.
Write(item) == at' = "write" /\ out' = item

Receives(what) == at = "receive" /\ toGuest # <<>> /\ Request.what \in what

GuestAnswersCheck ==
    /\ Receives({"check", "recheck", "tmpdir"})
    /\ Write(Plain(Request.what, {}))
    /\ toGuest' = Tail(toGuest)
    /\ UNCHANGED <<host, toHost, todo, stored, context, quiet, acked>>

\* handle_copy_file: it may refuse before it has read the content.
GuestOpensFile ==
    /\ Receives({"copy"})
    /\ toGuest' = Tail(toGuest)
    /\ \/ /\ Request.files \subseteq Bad
          /\ Write(Error("copy", Request.files)) /\ UNCHANGED <<todo, stored>>
       \/ /\ at' = "content" /\ todo' = Request.files
          /\ stored' = stored \ Request.files
          /\ UNCHANGED out
    /\ UNCHANGED <<host, toHost, context, quiet, acked>>

GuestStoresFile ==
    /\ at = "content" /\ toGuest # <<>> /\ Request.what = "raw"
    /\ todo' = {}
    /\ \/ /\ Write(Plain("copy", todo))
          /\ stored' = stored \cup (todo \cap Request.files)
          /\ toGuest' = Tail(toGuest)
       \/ /\ todo \subseteq Bad
          /\ Write(Error("copy", todo))
          /\ UNCHANGED <<stored, toGuest>>
    /\ UNCHANGED <<host, toHost, context, quiet, acked>>

\* Part of the content was lost with a connection: what comes next is taken for it,
\* as its length or as its end.
GuestMistakesRequest ==
    /\ at = "content" /\ toGuest # <<>> /\ Request.what # "raw"
    /\ \/ /\ at' = "eating" /\ toGuest' = Tail(toGuest) /\ UNCHANGED <<todo, out>>
       \/ /\ Write(Plain("copy", todo)) /\ todo' = {}
          /\ toGuest' = <<Fragment>> \o Tail(toGuest)
    /\ UNCHANGED <<host, toHost, stored, context, quiet, acked>>

\* Content is taken for a request: an exception, or a length too large.
GuestMistakesContent ==
    /\ Receives({"raw", "fragment"})
    /\ toGuest' = Tail(toGuest)
    /\ at' \in {"receive", "eating"}
    /\ UNCHANGED <<host, toHost, todo, out, stored, context, quiet, acked>>

GuestEats ==
    /\ at = "eating" /\ toGuest # <<>>
    /\ toGuest' = Tail(toGuest)
    /\ UNCHANGED <<host, toHost, guest, context, quiet, acked>>

\* While the host is away a read that finds nothing returns nothing.
GuestFindsEnd ==
    /\ at \in {"content", "eating"} /\ toGuest = <<>> /\ pc = "idle"
    /\ IF todo = {}
       THEN at' = "receive" /\ UNCHANGED <<todo, out>>
       ELSE Write(Error("copy", todo)) /\ todo' = {}
    /\ UNCHANGED <<host, toGuest, toHost, stored, context, quiet, acked>>

GuestLists ==
    /\ Receives({"list"})
    /\ toGuest' = Tail(toGuest)
    /\ \/ Write(Plain("list", Request.files)) /\ todo' = Request.files
       \/ /\ Request.files \cap Bad # {}
          /\ Write(Error("list", Request.files)) /\ UNCHANGED todo
    /\ UNCHANGED <<host, toHost, stored, context, quiet, acked>>

\* Each file is opened a second time.
GuestSendsFile ==
    /\ at = "files"
    /\ \E f \in todo :
          \/ Write(Plain("raw", {f})) /\ todo' = todo \ {f}
          \/ f \in Bad /\ Write(Error("list", todo)) /\ todo' = {}
    /\ UNCHANGED <<host, toGuest, toHost, stored, context, quiet, acked>>

\* A write waits until the host is there and reads.
GuestWrites ==
    /\ at = "write" /\ pc # "idle" /\ Len(toHost) < Capacity
    /\ toHost' = Append(toHost, out)
    /\ at' = CASE out.what = "pending" -> "run"
               [] out.what \in {"list", "raw"} /\ todo # {} -> "files"
               [] OTHER -> "receive"
    /\ UNCHANGED <<host, toGuest, todo, out, stored, context, quiet, acked>>

GuestExecutes ==
    /\ Receives({"execute"})
    /\ Unlock(Request.vars)
    /\ acked' = Request.vars
    /\ at' = "run" /\ toGuest' = Tail(toGuest)
    /\ UNCHANGED <<host, toHost, todo, out, stored, quiet>>

CommandOutputs ==
    /\ at = "run"
    /\ Write(Plain("pending", {}))
    /\ UNCHANGED <<host, toGuest, toHost, todo, stored, context, quiet, acked>>

\* Or it could not be started at all.
CommandEnds ==
    /\ at = "run" /\ at' = "ending"
    /\ out' \in {Error("finished", {})}
                \cup {[Plain("finished", {}) EXCEPT !.code = c] : c \in {"zero", "nonzero"}}
    /\ UNCHANGED <<host, toGuest, toHost, todo, stored, context, quiet, acked>>

GuestLocks ==
    /\ at = "ending" /\ Lock
    /\ Write([out EXCEPT !.vars = ctx_vars, !.globals = global_vars])
    /\ UNCHANGED <<host, toGuest, toHost, todo, stored, quiet, acked>>

CallTakesLock(c) == TryLock(c) /\ UNCHANGED <<host, toGuest, toHost, guest, quiet, acked>>

CallServed ==
    /\ ServeCall
    /\ acked' = IF call.value = NoValue THEN acked ELSE [acked EXCEPT ![call.name] = call.value]
    /\ UNCHANGED <<host, toGuest, toHost, guest, quiet>>

\* The guest, or the service alone, crashes or is rebooted.
GuestRestarts ==
    /\ at' = "receive" /\ todo' = {} /\ UNCHANGED <<out, stored>>
    /\ toGuest' = <<>>
    /\ ContextRestart /\ acked' = NoVars
    /\ UNCHANGED <<host, toHost, quiet>>

----------------------------------------------------------------------------

Init ==
    /\ pc = "idle" /\ ok = FALSE /\ left = {} /\ timer = "off" /\ eating = FALSE
    /\ act \in Actions
    /\ machine_vars = [self |-> NoVars, other |-> NoVars]
    /\ got = {} /\ actions = 0
    /\ toGuest = <<>> /\ toHost = <<>>
    /\ at = "receive" /\ todo = {} /\ out = Fragment /\ stored = {}
    /\ ContextInit
    /\ quiet = TRUE /\ acked = NoVars

HostReads ==
    \/ HostChecked \/ HostGotTmpDir \/ HostRechecked \/ HostCopied \/ HostRan
    \/ HostListed \/ HostReceivesFile \/ HostMisreads

Guest ==
    \/ GuestAnswersCheck \/ GuestOpensFile \/ GuestStoresFile \/ GuestMistakesRequest
    \/ GuestMistakesContent \/ GuestEats \/ GuestFindsEnd \/ GuestLists \/ GuestSendsFile
    \/ GuestWrites \/ GuestExecutes \/ CommandOutputs \/ CommandEnds \/ GuestLocks
    \/ \E c \in Calls : CallTakesLock(c)
    \/ CallServed \/ GuestRestarts

Next ==
    \/ \E a \in Actions : Begin(a)
    \/ HostReads
    \/ Expire
    \/ TimeIsUp
    \/ Guest

\* The coroutine reads what has come and its timers fire.  Nothing is assumed of the
\* guest: it is the system under test, and may hang.
Spec == Init /\ [][Next]_vars /\ WF_vars(HostReads) /\ WF_vars(Expire) /\ WF_vars(TimeIsUp)

----------------------------------------------------------------------------
(* Properties                                                              *)

TypeOK ==
    /\ pc \in (Requests \ {"execute"}) \cup {"idle", "run", "files"}
    /\ act \in Actions /\ ok \in BOOLEAN /\ eating \in BOOLEAN /\ quiet \in BOOLEAN
    /\ left \subseteq Files /\ got \subseteq Files /\ stored \subseteq Files
    /\ timer \in {"off", "armed", "missed"}
    /\ machine_vars \in [{"self", "other"} -> VarMap] /\ acked \in VarMap
    /\ actions \in 0 .. MaxActions
    /\ toGuest \in Seq(Item) /\ toHost \in Seq(Item) /\ out \in Item
    /\ at \in {"receive", "write", "content", "files", "run", "ending", "eating"}
    /\ todo \subseteq Files
    /\ ContextTypeOK

\* What answers the request the host waits for.
Awaited == CASE pc = "run" -> {"pending", "finished"}
             [] pc = "files" -> {"raw", "list"}
             [] OTHER -> {pc}

\* Nothing in a message says to which request it belongs (GuestAdditions.cpp:219-255).
\* Still, as long as the connection found the guest idle and no check has expired on
\* it, each answer the host reads is to the request it has sent last.
AnswerIsOwn == quiet /\ toHost # <<>> => Answer.what \in Awaited

\* Then a copyto or exec that succeeds has its files in the guest, whole, and a
\* copyfrom has fetched all of them ("Copies a file or a directory from the Host to a
\* virtual machine", docs/reference/Actions.md:539).
CopiesAreWhole ==
    quiet /\ ok => IF act.kind = "copyfrom" THEN act.files \subseteq got
                                          ELSE act.files \subseteq stored

\* And an exec that succeeds leaves the machine with the variables it was given and
\* those its command was told were set, the global ones on all machines of the test.
VariablesArrive ==
    quiet /\ ok /\ act.kind = "exec" =>
        \A x \in Names : acked[x] # NoValue =>
            /\ machine_vars.self[x] = acked[x]
            /\ x \in global_vars => machine_vars.other[x] = acked[x]

\* The two threads of the service keep the promise of VarSession.
ImplementsSession == Session!Spec

\* Every action comes to its end whatever the guest does, unless it copies a file to
\* the guest and no timeout is set: the script of an exec, or a copyto whose timeout
\* came during the second check.
ActionEnds == pc # "idle" ~> (pc = "idle" \/ (pc = "copy" /\ timer # "armed"))

\* "Timeout for copying to complete" (docs/reference/Actions.md:550): a copyto or
\* copyfrom does not go on when its time is up.
CopyEndsInTime == timer # "missed"

=============================================================================
