--------------------------- MODULE GuestChannelInv --------------------------
(***************************************************************************)
(* The inductive invariant of GuestChannel: where the one request that is  *)
(* under way may be, as long as nothing was in the way of the action.      *)
(***************************************************************************)
EXTENDS GuestChannel

\* The guest waits for a request and there is none.
Inert == at = "receive" /\ toGuest = <<>>

\* A request that is answered at once is on its way, is being answered, or has been.
Asked(what) ==
    \/ /\ Len(toGuest) = 1 /\ toGuest[1].what = what
       /\ at = "receive" /\ toHost = <<>>
    \/ toGuest = <<>> /\ at = "write" /\ out.what = what /\ toHost = <<>>
    \/ Inert /\ (toHost = <<>> \/ (Len(toHost) = 1 /\ toHost[1].what = what))

\* The files copied so far, but for f.
StoredBut(f) == act.files \ (left \cup {f}) \subseteq stored
AllStored == act.files \ left \subseteq stored

Sent(f) ==
    \/ /\ toGuest = <<Plain("copy", {f}), Plain("raw", {f})>> /\ StoredBut(f)
       /\ at = "receive" /\ toHost = <<>>
    \/ /\ toGuest = <<Plain("raw", {f})>> /\ StoredBut(f)
       /\ at = "content" /\ todo = {f} /\ toHost = <<>>
    \/ /\ toGuest = <<Plain("raw", {f})>>
       /\ at = "write" /\ out.what = "copy" /\ ~out.ok /\ toHost = <<>>

Copied ==
    /\ Len(toHost) = 1 /\ toHost[1].what = "copy"
    /\ IF toHost[1].ok
       THEN Inert /\ AllStored
       ELSE /\ at \in {"receive", "eating"}
            /\ toGuest = <<>> \/ \E f \in Files : toGuest = <<Plain("raw", {f})>>

\* A file is on its way, is refused, is stored, or the answer has been sent.
Copying ==
    \/ \E f \in Files : Sent(f)
    \/ /\ toGuest = <<>> /\ at = "write" /\ out.what = "copy" /\ toHost = <<>>
       /\ out.ok => AllStored
    \/ Copied
    \/ Inert /\ toHost = <<>>

\* The content of one file that the host still waits for and the guest has done with.
OneOf(item) == \E f \in left \ todo : item.files = {f}
IsRaw(i) == toHost[i].what = "raw"
Writes(what) == at = "write" /\ out.what = what

\* The whole list of the files, or an error.
Listing(item) == item.what = "list" /\ (item.ok => item.files = act.files)

Stream ==
    /\ todo \subseteq left
    /\ at = "write" => Writes("list") \/ (Writes("raw") /\ OneOf(out))
    /\ \A i \in 1 .. Len(toHost) :
          /\ toHost[i].what \in {"list", "raw"}
          /\ IsRaw(i) => OneOf(toHost[i]) /\ (Writes("raw") => toHost[i].files # out.files)
          /\ IsRaw(i) => \A j \in 1 .. Len(toHost) :
                IsRaw(j) /\ i # j => toHost[i].files # toHost[j].files

Fetching ==
    \/ /\ pc = "list" /\ toGuest = <<Plain("list", act.files)>>
       /\ at = "receive" /\ toHost = <<>>
    \/ /\ toGuest = <<>> /\ at \in {"receive", "write", "files"}
       /\ Stream
       /\ IF pc = "files"
          THEN act.files \subseteq got \cup left
          ELSE IF toHost = <<>>
          THEN at # "files" /\ (at = "write" => Listing(out))
          ELSE Listing(toHost[1])

\* An answer has the variables as the command line tool was told they are.
Carries(item) ==
    \A x \in Names : acked[x] # NoValue =>
        item.vars[x] = acked[x] /\ (x \in global_vars => x \in item.globals)

Running ==
    /\ act.files \subseteq stored
    /\ \/ /\ Len(toGuest) = 1 /\ toGuest[1].what = "execute"
          /\ at = "receive" /\ toHost = <<>>
       \/ /\ toGuest = <<>> /\ at \in {"receive", "write", "run", "ending"}
          /\ at = "write" => Writes("pending") \/ (Writes("finished") /\ Carries(out))
          /\ \A i \in 1 .. Len(toHost) :
                \/ toHost[i].what = "pending"
                \/ toHost[i].what = "finished" /\ Carries(toHost[i]) /\ at = "receive"

\* A copyto or exec that succeeded has left nothing behind.
Over ==
    ok => IF act.kind = "copyfrom" THEN act.files \subseteq got
          ELSE act.files # {} => Inert /\ act.files \subseteq stored

Phase ==
    /\ pc = "idle" => Over
    /\ pc \in {"check", "tmpdir", "recheck"} => Asked(pc)
    /\ pc = "copy" => Copying
    /\ pc \in {"list", "files"} => Fetching
    /\ pc = "run" => Running
    /\ eating => pc = "files"

\* What holds whatever is in the stream.
HostInv ==
    /\ IF pc = "idle" THEN toHost = <<>> ELSE ~ok
    /\ pc \in {"tmpdir", "run"} => act.kind = "exec"
    /\ pc \in {"recheck", "copy"} => act.kind \in {"copyto", "exec"}
    /\ pc \in {"list", "files"} => act.kind = "copyfrom"
    /\ pc \in {"check", "tmpdir", "recheck", "list"} => left = act.files
    /\ pc = "run" => left = {}

\* The handler has the mutex unless a command runs.
GuestInv ==
    /\ at \in {"receive", "run", "ending"} => todo = {}
    /\ at = "write" /\ out.what \notin {"list", "raw"} => todo = {}
    /\ holder # "handler" <=> at \in {"run", "ending"} \/ Writes("pending")
    /\ at = "ending" => out.what = "finished"
    /\ acked = ctx_vars

\* The host's and the guest's part, and where the request under way is: the answers
\* come to the requests they answer.
ChannelInv == TypeOK /\ HostInv /\ GuestInv /\ VariablesArrive /\ (quiet => Phase)

=============================================================================
