------------------------- MODULE GuestChannel_proofs ------------------------
(***************************************************************************)
(* Proofs about GuestChannel, for any files, actions, variables and bounds *)
(* and whatever the guest does.                                            *)
(***************************************************************************)
EXTENDS GuestChannelInv, SequenceTheorems, TLAPS

----------------------------------------------------------------------------
(* Items and streams                                                       *)

\* What the two sides write is made of items.
LEMMA ItemTypes ==
    /\ NoVars \in VarMap
    /\ \A w \in Requests \cup {"pending", "finished", "raw", "fragment"}, F \in SUBSET Files :
          /\ Plain(w, F) \in Item /\ Plain(w, F).what = w /\ Plain(w, F).files = F
          /\ Plain(w, F).ok
          /\ Error(w, F) \in Item /\ Error(w, F).what = w /\ Error(w, F).files = F
          /\ ~Error(w, F).ok
    /\ Fragment \in Item
    /\ \A m \in VarMap :
          /\ [Plain("execute", {}) EXCEPT !.vars = m] \in Item
          /\ [Plain("execute", {}) EXCEPT !.vars = m].what = "execute"
<1>1. NoVars \in VarMap
  BY DEF NoVars, VarMap
<1>2. \A w \in Requests \cup {"pending", "finished", "raw", "fragment"}, F \in SUBSET Files :
          /\ Plain(w, F) \in Item /\ Plain(w, F).what = w /\ Plain(w, F).files = F
          /\ Plain(w, F).ok
          /\ Error(w, F) \in Item /\ Error(w, F).what = w /\ Error(w, F).files = F
          /\ ~Error(w, F).ok
  BY <1>1 DEF Plain, Error, Item
<1>3. Fragment \in Item
  BY <1>2 DEF Fragment
<1>4. \A m \in VarMap :
          /\ [Plain("execute", {}) EXCEPT !.vars = m] \in Item
          /\ [Plain("execute", {}) EXCEPT !.vars = m].what = "execute"
  BY DEF Plain, Item, Requests
<1> QED
  BY <1>1, <1>2, <1>3, <1>4

\* A stream of length zero is empty.
LEMMA NothingFacts ==
    ASSUME NEW s \in Seq(Item)
    PROVE  /\ Len(s) \in Nat
           /\ Len(s) = 0 <=> s = <<>>
OBVIOUS

\* The first item of a stream and the rest.
LEMMA FirstFacts ==
    ASSUME NEW s \in Seq(Item), s # <<>>
    PROVE  /\ Head(s) \in Item /\ Head(s) = s[1]
           /\ Tail(s) \in Seq(Item) /\ Len(s) \in Nat /\ Len(s) >= 1
           /\ Len(Tail(s)) = Len(s) - 1
           /\ \A i \in 1 .. Len(Tail(s)) : Tail(s)[i] = s[i + 1]
           /\ Len(s) = 1 => Tail(s) = <<>>
<1>1. /\ Tail(s) \in Seq(Item)
      /\ Len(Tail(s)) = Len(s) - 1
  BY HeadTailProperties
<1>2. ASSUME Len(s) = 1
      PROVE  Tail(s) = <<>>
  <2>1. Len(Tail(s)) = 0
    BY <1>1, <1>2
  <2> QED
    BY <1>1, <2>1, NothingFacts, Zenon
<1> QED
  BY <1>1, <1>2

\* What is added to a stream comes last.
LEMMA LastFacts ==
    ASSUME NEW s \in Seq(Item), NEW item \in Item
    PROVE  /\ Append(s, item) \in Seq(Item) /\ Append(s, item) # <<>>
           /\ Len(Append(s, item)) = Len(s) + 1
           /\ \A i \in 1 .. Len(s) : Append(s, item)[i] = s[i]
           /\ Append(s, item)[Len(s) + 1] = item
BY AppendProperties

\* An end of a stream is lost.
LEMMA LossFacts ==
    ASSUME NEW s \in Seq(Item), NEW n \in 0 .. Len(s)
    PROVE  /\ SubSeq(s, 1, n) \in Seq(Item)
           /\ s = <<>> => SubSeq(s, 1, n) = <<>>
OBVIOUS

----------------------------------------------------------------------------
(* Type correctness                                                        *)

HostTypes ==
    /\ pc \in (Requests \ {"execute"}) \cup {"idle", "run", "files"}
    /\ act \in Actions /\ ok \in BOOLEAN /\ eating \in BOOLEAN /\ quiet \in BOOLEAN
    /\ left \subseteq Files /\ got \subseteq Files
    /\ timer \in {"off", "armed", "missed"}
    /\ machine_vars \in [{"self", "other"} -> VarMap]
    /\ actions \in 0 .. MaxActions

StreamTypes == toGuest \in Seq(Item) /\ toHost \in Seq(Item)

GuestTypes ==
    /\ stored \subseteq Files /\ todo \subseteq Files /\ out \in Item
    /\ at \in {"receive", "write", "content", "files", "run", "ending", "eating"}
    /\ acked \in VarMap /\ ContextTypeOK

\* TypeOK by the parts the host and the guest change.
LEMMA TypeParts == TypeOK <=> HostTypes /\ StreamTypes /\ GuestTypes
BY DEF TypeOK, HostTypes, StreamTypes, GuestTypes

\* What an action copies, by its kind.
LEMMA ActTypes ==
    ASSUME HostTypes
    PROVE  /\ act.kind \in {"copyto", "copyfrom", "exec"} /\ act.files \subseteq Files
           /\ act.kind = "exec" => act.files = {Script}
BY ActionsAssumption DEF HostTypes

\* The host leaves the guest's variables alone.
LEMMA GuestTypesKept ==
    ASSUME GuestTypes, UNCHANGED <<guest, context, acked>>
    PROVE  GuestTypes'
BY DEF GuestTypes, guest, context, ContextTypeOK

\* The guest leaves the host's variables alone.
LEMMA HostTypesKept ==
    ASSUME HostTypes, UNCHANGED <<host, quiet>>
    PROVE  HostTypes'
BY DEF HostTypes, host

\* The end of an action.
LEMMA EndTypes ==
    ASSUME HostTypes, StreamTypes, NEW b \in BOOLEAN, End(b),
           got' \subseteq Files, machine_vars' \in [{"self", "other"} -> VarMap]
    PROVE  HostTypes' /\ StreamTypes'
<1>1. StreamTypes'
  BY LossFacts, EmptySeq DEF StreamTypes, End
<1> QED
  BY <1>1 DEF HostTypes, End

LEMMA OverTypes ==
    ASSUME HostTypes, StreamTypes, Failed \/ Done
    PROVE  HostTypes' /\ StreamTypes'
BY EndTypes DEF Failed, Done, HostTypes

\* What is sent to the guest.
LEMMA SendTypes ==
    ASSUME StreamTypes, NEW items \in Seq(Item), Send(items)
    PROVE  toGuest' \in Seq(Item)
BY ConcatProperties DEF StreamTypes, Send

\* Waiting for the answer of what has been sent.
LEMMA FollowsTypes ==
    ASSUME HostTypes, StreamTypes, toHost' \in Seq(Item), NEW next, NEW F \in SUBSET Files,
           next \in {"tmpdir", "recheck", "list"}, Follows(next, F)
    PROVE  HostTypes' /\ StreamTypes'
<1>1. <<Plain(next, F)>> \in Seq(Item)
  BY ItemTypes DEF Requests
<1>2. toGuest' \in Seq(Item)
  BY <1>1, SendTypes DEF Follows
<1> QED
  BY <1>2 DEF Follows, Going, HostTypes, StreamTypes, Requests

LEMMA SendFileTypes ==
    ASSUME HostTypes, StreamTypes, toHost' \in Seq(Item), SendFile,
           timer' \in {"off", "armed", "missed"}, quiet' \in BOOLEAN
    PROVE  HostTypes' /\ StreamTypes'
<1>1. PICK f \in left :
        /\ left' = left \ {f} /\ pc' = "copy" /\ eating' = FALSE
        /\ Send(<<Plain("copy", {f}), Plain("raw", {f})>>) /\ Going
  BY DEF SendFile
<1>2. {f} \in SUBSET Files
  BY <1>1 DEF HostTypes
<1>3. <<Plain("copy", {f}), Plain("raw", {f})>> \in Seq(Item)
  BY <1>2, ItemTypes DEF Requests
<1>4. toGuest' \in Seq(Item)
  BY <1>1, <1>3, SendTypes
<1> QED
  BY <1>1, <1>4 DEF Going, HostTypes, StreamTypes, Requests

\* What the host has read is gone from the stream.
LEMMA ReadTypes ==
    ASSUME StreamTypes, toHost # <<>>
    PROVE  Answer \in Item /\ Answer = toHost[1] /\ Tail(toHost) \in Seq(Item)
BY FirstFacts DEF StreamTypes, Answer

LEMMA BeginTypes ==
    ASSUME HostTypes, StreamTypes, NEW a \in Actions, Begin(a)
    PROVE  HostTypes' /\ StreamTypes'
<1>1. a.files \subseteq Files
  BY ActionsAssumption
<1>2. <<Plain("check", {})>> \in Seq(Item)
  BY ItemTypes DEF Requests
<1>3. toGuest' \in Seq(Item)
  BY <1>2, SendTypes DEF Begin
<1>4. quiet' \in BOOLEAN
  BY DEF Begin
<1>5. actions' \in 0 .. MaxActions
  BY BoundsAssumption DEF Begin, HostTypes
<1> QED
  BY <1>1, <1>3, <1>4, <1>5 DEF Begin, HostTypes, StreamTypes, Requests

LEMMA HostCheckedTypes ==
    ASSUME HostTypes, StreamTypes, HostChecked
    PROVE  HostTypes' /\ StreamTypes'
<1>1. CASE Success /\ toHost' = Tail(toHost)
           /\ CASE act.kind = "exec" -> Follows("tmpdir", {})
                [] act.kind = "copyto" -> Follows("recheck", {})
                [] act.kind = "copyfrom" -> Follows("list", act.files)
  <2>1. toHost' \in Seq(Item)
    BY <1>1, ReadTypes DEF HostChecked, Reading
  <2>2. act.kind \in {"copyto", "copyfrom", "exec"} /\ act.files \subseteq Files
    BY ActTypes
  <2>3. CASE Follows("tmpdir", {})
    BY <2>1, <2>3, FollowsTypes
  <2>4. CASE Follows("recheck", {})
    BY <2>1, <2>4, FollowsTypes
  <2>5. CASE Follows("list", act.files)
    BY <2>1, <2>2, <2>5, FollowsTypes
  <2> QED
    BY <1>1, <2>2, <2>3, <2>4, <2>5
<1>2. CASE Failed
  BY <1>2, OverTypes
<1> QED
  BY <1>1, <1>2 DEF HostChecked

LEMMA HostGotTmpDirTypes ==
    ASSUME HostTypes, StreamTypes, HostGotTmpDir
    PROVE  HostTypes' /\ StreamTypes'
<1>1. CASE Follows("recheck", {}) /\ toHost' = Tail(toHost)
  BY <1>1, ReadTypes, FollowsTypes DEF HostGotTmpDir, Reading
<1>2. CASE Failed
  BY <1>2, OverTypes
<1> QED
  BY <1>1, <1>2 DEF HostGotTmpDir

LEMMA HostRecheckedTypes ==
    ASSUME HostTypes, StreamTypes, HostRechecked
    PROVE  HostTypes' /\ StreamTypes'
<1>1. CASE SendFile /\ toHost' = Tail(toHost) /\ UNCHANGED <<timer, quiet>>
  <2>1. timer' \in {"off", "armed", "missed"} /\ quiet' \in BOOLEAN
    BY <1>1 DEF HostTypes
  <2> QED
    BY <1>1, <2>1, ReadTypes, SendFileTypes DEF HostRechecked, Reading
<1>2. CASE Failed \/ Done
  BY <1>2, OverTypes
<1> QED
  BY <1>1, <1>2 DEF HostRechecked

LEMMA HostCopiedTypes ==
    ASSUME HostTypes, StreamTypes, HostCopied
    PROVE  HostTypes' /\ StreamTypes'
<1>1. CASE SendFile /\ toHost' = Tail(toHost) /\ UNCHANGED <<timer, quiet>>
  <2>1. timer' \in {"off", "armed", "missed"} /\ quiet' \in BOOLEAN
    BY <1>1 DEF HostTypes
  <2> QED
    BY <1>1, <2>1, ReadTypes, SendFileTypes DEF HostCopied, Reading
<1>2. CASE Failed \/ Done
  BY <1>2, OverTypes
<1>3. CASE /\ pc' = "run" /\ timer' = "armed"
           /\ Send(<<[Plain("execute", {}) EXCEPT !.vars = machine_vars.self]>>)
           /\ toHost' = Tail(toHost)
           /\ UNCHANGED <<left, eating, quiet>> /\ Going
  <2>1. machine_vars.self \in VarMap
    BY DEF HostTypes
  <2>2. <<[Plain("execute", {}) EXCEPT !.vars = machine_vars.self]>> \in Seq(Item)
    BY <2>1, ItemTypes
  <2>3. toGuest' \in Seq(Item) /\ toHost' \in Seq(Item)
    BY <1>3, <2>2, SendTypes, ReadTypes DEF HostCopied, Reading
  <2> QED
    BY <1>3, <2>3 DEF Going, HostTypes, StreamTypes
<1> QED
  BY <1>1, <1>2, <1>3 DEF HostCopied

LEMMA HostRanTypes ==
    ASSUME HostTypes, StreamTypes, HostRan
    PROVE  HostTypes' /\ StreamTypes'
<1>1. CASE /\ toHost' = Tail(toHost)
           /\ UNCHANGED <<pc, left, timer, eating, toGuest, quiet>> /\ Going
  <2>1. toHost' \in Seq(Item)
    BY <1>1, ReadTypes DEF HostRan, Reading
  <2> QED
    BY <1>1, <2>1 DEF Going, HostTypes, StreamTypes
<1>2. CASE /\ machine_vars' = [self |-> Updated("self", Names),
                               other |-> Updated("other", Answer.globals)]
           /\ End(TRUE) /\ UNCHANGED got
  <2>1. Answer.vars \in VarMap
    BY ReadTypes DEF HostRan, Reading, Item
  <2>2. \A m \in {"self", "other"} : \A N : Updated(m, N) \in VarMap
    BY <2>1 DEF Updated, VarMap, HostTypes
  <2>3. machine_vars' \in [{"self", "other"} -> VarMap] /\ got' \subseteq Files
    BY <1>2, <2>2 DEF HostTypes
  <2> QED
    BY <1>2, <2>3, EndTypes
<1>3. CASE Failed
  BY <1>3, OverTypes
<1> QED
  BY <1>1, <1>2, <1>3 DEF HostRan

LEMMA HostListedTypes ==
    ASSUME HostTypes, StreamTypes, HostListed
    PROVE  HostTypes' /\ StreamTypes'
<1>1. CASE /\ pc' = "files" /\ left' = Answer.files
           /\ toHost' = Tail(toHost)
           /\ UNCHANGED <<timer, eating, toGuest, quiet>> /\ Going
  <2>1. toHost' \in Seq(Item) /\ Answer.files \subseteq Files
    BY <1>1, ReadTypes DEF HostListed, Reading, Item
  <2> QED
    BY <1>1, <2>1 DEF Going, HostTypes, StreamTypes
<1>2. CASE /\ End(Success /\ Answer.what \in {"list", "check", "recheck", "copy"})
           /\ UNCHANGED <<got, machine_vars>>
  <2>1. (Success /\ Answer.what \in {"list", "check", "recheck", "copy"}) \in BOOLEAN
    OBVIOUS
  <2> QED
    BY <1>2, <2>1, EndTypes DEF HostTypes
<1> QED
  BY <1>1, <1>2 DEF HostListed

LEMMA HostReceivesFileTypes ==
    ASSUME HostTypes, StreamTypes, HostReceivesFile
    PROVE  HostTypes' /\ StreamTypes'
<1>1. CASE Failed
  BY <1>1, OverTypes
<1>2. ASSUME NEW f \in left, got' = got \cup ({f} \cap Answer.files),
             IF left = {f}
             THEN End(TRUE) /\ UNCHANGED machine_vars
             ELSE /\ left' = left \ {f} /\ toHost' = Tail(toHost)
                  /\ UNCHANGED <<pc, act, ok, timer, eating, actions, machine_vars,
                                 toGuest, quiet>>
      PROVE  HostTypes' /\ StreamTypes'
  <2>1. toHost # <<>> /\ got' \subseteq Files
    BY <1>2 DEF HostReceivesFile, Reading, HostTypes
  <2>2. CASE End(TRUE) /\ UNCHANGED machine_vars
    BY <2>1, <2>2, EndTypes DEF HostTypes
  <2>3. CASE /\ left' = left \ {f} /\ toHost' = Tail(toHost)
             /\ UNCHANGED <<pc, act, ok, timer, eating, actions, machine_vars,
                            toGuest, quiet>>
    BY <2>1, <2>3, ReadTypes DEF HostTypes, StreamTypes
  <2> QED
    BY <1>2, <2>2, <2>3
<1> QED
  BY <1>1, <1>2 DEF HostReceivesFile

LEMMA HostMisreadsTypes ==
    ASSUME HostTypes, StreamTypes, HostMisreads
    PROVE  HostTypes' /\ StreamTypes'
BY ReadTypes DEF HostMisreads, Going, HostTypes, StreamTypes

LEMMA GiveUpTypes ==
    ASSUME HostTypes, StreamTypes, GiveUpRecheck,
           pc' = "copy" => timer' \in {"off", "armed", "missed"}
    PROVE  HostTypes' /\ StreamTypes'
<1>1. CASE SendFile /\ Interrupted /\ quiet' = FALSE
  <2>1. toHost' \in Seq(Item)
    <3>1. CASE UNCHANGED toHost
      BY <3>1 DEF StreamTypes
    <3>2. CASE toHost # <<>> /\ toHost' = Tail(toHost)
      BY <3>2, ReadTypes
    <3>3. CASE toHost # <<>> /\ toHost' = <<Fragment>> \o Tail(toHost)
      <4>1. <<Fragment>> \in Seq(Item) /\ Tail(toHost) \in Seq(Item)
        BY <3>3, ItemTypes, ReadTypes
      <4> QED
        BY <3>3, <4>1, ConcatProperties
    <3> QED
      BY <1>1, <3>1, <3>2, <3>3 DEF Interrupted
  <2>2. timer' \in {"off", "armed", "missed"}
    BY <1>1 DEF SendFile
  <2> QED
    BY <1>1, <2>1, <2>2, SendFileTypes
<1>2. CASE Failed \/ Done
  BY <1>2, OverTypes
<1> QED
  BY <1>1, <1>2 DEF GiveUpRecheck

LEMMA ExpireTypes ==
    ASSUME HostTypes, StreamTypes, Expire \/ TimeIsUp
    PROVE  HostTypes' /\ StreamTypes'
<1>1. CASE GiveUpRecheck /\ (pc' = "copy" => timer' \in {timer, "missed"})
  BY <1>1, GiveUpTypes DEF HostTypes
<1>2. CASE Failed
  BY <1>2, OverTypes
<1> QED
  BY <1>1, <1>2 DEF Expire, TimeIsUp

\* A step of the host keeps the types.
LEMMA HostStepTypes ==
    ASSUME TypeOK, (\E a \in Actions : Begin(a)) \/ HostReads \/ Expire \/ TimeIsUp
    PROVE  TypeOK'
<1>1. HostTypes /\ StreamTypes /\ GuestTypes
  BY TypeParts
<1>2. HostTypes' /\ StreamTypes'
  BY <1>1, BeginTypes, HostCheckedTypes, HostGotTmpDirTypes, HostRecheckedTypes,
     HostCopiedTypes, HostRanTypes, HostListedTypes, HostReceivesFileTypes,
     HostMisreadsTypes, ExpireTypes
     DEF HostReads
<1>3. UNCHANGED <<guest, context, acked>>
  BY DEF Begin, HostReads, HostChecked, HostGotTmpDir, HostRechecked, HostCopied, HostRan,
         HostListed, HostReceivesFile, HostMisreads, Expire, TimeIsUp
<1>4. GuestTypes'
  BY <1>1, <1>3, GuestTypesKept
<1>5. TypeOK' <=> HostTypes' /\ StreamTypes' /\ GuestTypes'
  BY DEF TypeOK, HostTypes, StreamTypes, GuestTypes
<1> QED
  BY <1>2, <1>4, <1>5

\* A request in the stream is an item, and so is what follows.
LEMMA RequestTypes ==
    ASSUME StreamTypes, toGuest # <<>>
    PROVE  Request \in Item /\ Request = toGuest[1] /\ Tail(toGuest) \in Seq(Item)
BY FirstFacts DEF StreamTypes, Request

\* What the requests of the handler and the items of a stream are.
LEMMA ReceiveTypes ==
    ASSUME StreamTypes, GuestTypes, GuestAnswersCheck \/ GuestOpensFile \/ GuestLists
    PROVE  StreamTypes' /\ GuestTypes'
<1>1. /\ Request.what \in Requests /\ Request.files \subseteq Files
      /\ Tail(toGuest) \in Seq(Item)
  BY RequestTypes DEF GuestAnswersCheck, GuestOpensFile, GuestLists, Receives, Item, Requests
<1>2. StreamTypes'
  BY <1>1 DEF GuestAnswersCheck, GuestOpensFile, GuestLists, StreamTypes
<1>3. ContextTypeOK' /\ acked' \in VarMap
  BY DEF GuestAnswersCheck, GuestOpensFile, GuestLists, GuestTypes, ContextTypeOK, context
<1>4. CASE GuestAnswersCheck
  <2>1. Plain(Request.what, {}) \in Item
    BY <1>1, ItemTypes
  <2> QED
    BY <1>2, <1>3, <1>4, <2>1 DEF GuestAnswersCheck, GuestTypes, Write
<1>5. CASE GuestOpensFile
  <2>1. Error("copy", Request.files) \in Item
    BY <1>1, ItemTypes DEF Requests
  <2> QED
    BY <1>1, <1>2, <1>3, <1>5, <2>1 DEF GuestOpensFile, GuestTypes, Write
<1>6. CASE GuestLists
  <2>1. Error("list", Request.files) \in Item /\ Plain("list", Request.files) \in Item
    BY <1>1, ItemTypes DEF Requests
  <2> QED
    BY <1>1, <1>2, <1>3, <1>6, <2>1 DEF GuestLists, GuestTypes, Write
<1> QED
  BY <1>4, <1>5, <1>6

LEMMA ContentTypes ==
    ASSUME StreamTypes, GuestTypes, GuestStoresFile \/ GuestMistakesRequest
    PROVE  StreamTypes' /\ GuestTypes'
<1>1. Request \in Item /\ Tail(toGuest) \in Seq(Item)
  BY RequestTypes DEF GuestStoresFile, GuestMistakesRequest
<1>2. ContextTypeOK' /\ acked' \in VarMap
  BY DEF GuestStoresFile, GuestMistakesRequest, GuestTypes, ContextTypeOK, context
<1>3. Plain("copy", todo) \in Item /\ Error("copy", todo) \in Item
  BY ItemTypes DEF GuestTypes, Requests
<1>4. <<Fragment>> \o Tail(toGuest) \in Seq(Item)
  <2>1. <<Fragment>> \in Seq(Item)
    BY ItemTypes
  <2> QED
    BY <1>1, <2>1, ConcatProperties
<1>5. CASE GuestStoresFile
  BY <1>1, <1>2, <1>3, <1>5 DEF GuestStoresFile, GuestTypes, StreamTypes, Write
<1>6. CASE GuestMistakesRequest
  BY <1>1, <1>2, <1>3, <1>4, <1>6 DEF GuestMistakesRequest, GuestTypes, StreamTypes, Write
<1> QED
  BY <1>5, <1>6

LEMMA LosingTypes ==
    ASSUME StreamTypes, GuestTypes, GuestMistakesContent \/ GuestEats \/ GuestFindsEnd
    PROVE  StreamTypes' /\ GuestTypes'
<1>1. ContextTypeOK' /\ acked' \in VarMap
  BY DEF GuestMistakesContent, GuestEats, GuestFindsEnd, GuestTypes, ContextTypeOK, context
<1>2. CASE GuestMistakesContent \/ GuestEats
  <2>1. Tail(toGuest) \in Seq(Item)
    BY <1>2, RequestTypes DEF GuestMistakesContent, GuestEats, Receives
  <2> QED
    BY <1>1, <1>2, <2>1 DEF GuestMistakesContent, GuestEats, GuestTypes, StreamTypes, guest
<1>3. CASE GuestFindsEnd
  <2>1. Error("copy", todo) \in Item
    BY ItemTypes DEF GuestTypes, Requests
  <2> QED
    BY <1>1, <1>3, <2>1 DEF GuestFindsEnd, GuestTypes, StreamTypes, Write
<1> QED
  BY <1>2, <1>3

LEMMA WritingTypes ==
    ASSUME StreamTypes, GuestTypes, GuestSendsFile \/ GuestWrites \/ CommandOutputs
    PROVE  StreamTypes' /\ GuestTypes'
<1>1. ContextTypeOK' /\ acked' \in VarMap
  BY DEF GuestSendsFile, GuestWrites, CommandOutputs, GuestTypes, ContextTypeOK, context
<1>2. CASE GuestSendsFile
  <2>1. PICK f \in todo :
          \/ Write(Plain("raw", {f})) /\ todo' = todo \ {f}
          \/ f \in Bad /\ Write(Error("list", todo)) /\ todo' = {}
    BY <1>2 DEF GuestSendsFile
  <2>2. Plain("raw", {f}) \in Item /\ Error("list", todo) \in Item
    BY ItemTypes DEF GuestTypes, Requests
  <2> QED
    BY <1>1, <1>2, <2>1, <2>2 DEF GuestSendsFile, GuestTypes, StreamTypes, Write
<1>3. CASE GuestWrites
  <2>1. toHost' \in Seq(Item)
    BY <1>3, LastFacts DEF GuestWrites, StreamTypes, GuestTypes
  <2>2. at' \in {"run", "files", "receive"}
    BY <1>3 DEF GuestWrites
  <2> QED
    BY <1>1, <1>3, <2>1, <2>2 DEF GuestWrites, GuestTypes, StreamTypes
<1>4. CASE CommandOutputs
  <2>1. Plain("pending", {}) \in Item
    BY ItemTypes
  <2> QED
    BY <1>1, <1>4, <2>1 DEF CommandOutputs, GuestTypes, StreamTypes, Write
<1> QED
  BY <1>2, <1>3, <1>4

LEMMA CommandTypes ==
    ASSUME StreamTypes, GuestTypes, GuestExecutes \/ CommandEnds \/ GuestLocks
    PROVE  StreamTypes' /\ GuestTypes'
<1>1. CASE GuestExecutes
  <2>1. Request.vars \in VarMap /\ Tail(toGuest) \in Seq(Item)
    BY <1>1, RequestTypes DEF GuestExecutes, Receives, Item
  <2> QED
    BY <1>1, <2>1 DEF GuestExecutes, Unlock, GuestTypes, StreamTypes, ContextTypeOK
<1>2. CASE CommandEnds
  <2>1. out' \in Item
    <3>1. \A c \in {"zero", "nonzero"} : [Plain("finished", {}) EXCEPT !.code = c] \in Item
      BY ItemTypes DEF Plain, Item
    <3>2. Error("finished", {}) \in Item
      BY ItemTypes
    <3> QED
      BY <1>2, <3>1, <3>2 DEF CommandEnds
  <2> QED
    BY <1>2, <2>1 DEF CommandEnds, GuestTypes, StreamTypes, ContextTypeOK, context
<1>3. CASE GuestLocks
  <2>1. [out EXCEPT !.vars = ctx_vars, !.globals = global_vars] \in Item
    BY DEF GuestTypes, ContextTypeOK, Item
  <2> QED
    BY <1>3, <2>1 DEF GuestLocks, Lock, Write, GuestTypes, StreamTypes, ContextTypeOK
<1> QED
  BY <1>1, <1>2, <1>3

LEMMA CallTypes ==
    ASSUME StreamTypes, GuestTypes,
           (\E c \in Calls : CallTakesLock(c)) \/ CallServed \/ GuestRestarts
    PROVE  StreamTypes' /\ GuestTypes'
<1>1. CASE \E c \in Calls : CallTakesLock(c)
  BY <1>1 DEF CallTakesLock, TryLock, GuestTypes, StreamTypes, ContextTypeOK, guest
<1>2. CASE CallServed
  <2>1. call \in Calls
    BY <1>2 DEF CallServed, ServeCall, GuestTypes, ContextTypeOK
  <2>2. acked' \in VarMap /\ ctx_vars' \in VarMap /\ global_vars' \subseteq Names
    BY <1>2, <2>1
       DEF CallServed, ServeCall, GuestTypes, ContextTypeOK, VarMap, Calls
  <2> QED
    BY <1>2, <2>2 DEF CallServed, ServeCall, GuestTypes, StreamTypes, ContextTypeOK, guest
<1>3. CASE GuestRestarts
  <2>1. <<>> \in Seq(Item)
    BY EmptySeq
  <2> QED
    BY <1>3, <2>1, ItemTypes
       DEF GuestRestarts, ContextRestart, GuestTypes, StreamTypes, ContextTypeOK
<1> QED
  BY <1>1, <1>2, <1>3

\* A step of the guest keeps the types.
LEMMA GuestStepTypes ==
    ASSUME TypeOK, Guest
    PROVE  TypeOK'
<1>1. HostTypes /\ StreamTypes /\ GuestTypes
  BY TypeParts
<1>2. StreamTypes' /\ GuestTypes'
  BY <1>1, ReceiveTypes, ContentTypes, LosingTypes, WritingTypes, CommandTypes, CallTypes
     DEF Guest
<1>3. UNCHANGED <<host, quiet>>
  BY DEF Guest, GuestAnswersCheck, GuestOpensFile, GuestStoresFile, GuestMistakesRequest,
         GuestMistakesContent, GuestEats, GuestFindsEnd, GuestLists, GuestSendsFile,
         GuestWrites, GuestExecutes, CommandOutputs, CommandEnds, GuestLocks,
         CallTakesLock, CallServed, GuestRestarts
<1>4. HostTypes'
  BY <1>1, <1>3, HostTypesKept
<1>5. TypeOK' <=> HostTypes' /\ StreamTypes' /\ GuestTypes'
  BY DEF TypeOK, HostTypes, StreamTypes, GuestTypes
<1> QED
  BY <1>2, <1>4, <1>5

LEMMA InitTypes == Init => TypeOK
<1>1. SUFFICES ASSUME Init
               PROVE  TypeOK
  OBVIOUS
<1>2. <<>> \in Seq(Item)
  BY EmptySeq
<1>3. ContextTypeOK
  BY <1>1, ItemTypes DEF Init, ContextInit, ContextTypeOK
<1>4. machine_vars \in [{"self", "other"} -> VarMap]
  BY <1>1, ItemTypes DEF Init
<1>5. HostTypes
  <2>1. ok \in BOOLEAN /\ eating \in BOOLEAN /\ quiet \in BOOLEAN
    BY <1>1 DEF Init
  <2>2. actions \in 0 .. MaxActions
    BY <1>1, BoundsAssumption DEF Init
  <2> QED
    BY <1>1, <1>4, <2>1, <2>2 DEF Init, HostTypes
<1>6. StreamTypes /\ GuestTypes
  BY <1>1, <1>2, <1>3, ItemTypes DEF Init, StreamTypes, GuestTypes
<1> QED
  BY <1>5, <1>6, TypeParts

\* The types of the variables.
THEOREM TypesCorrect == Spec => []TypeOK
<1>1. TypeOK /\ [Next]_vars => TypeOK'
  <2>1. ASSUME TypeOK, UNCHANGED vars
        PROVE  TypeOK'
    BY <2>1 DEF vars, host, guest, context, TypeOK, ContextTypeOK
  <2> QED
    BY <2>1, HostStepTypes, GuestStepTypes DEF Next
<1> QED
  BY <1>1, InitTypes, PTL DEF Spec


----------------------------------------------------------------------------
(* The variables of a command                                              *)

\* The operations on the shared variables are those of a session.
LEMMA SessionSteps ==
    ASSUME ContextTypeOK
    PROVE  /\ \A given \in VarMap : Unlock(given) => Session!Open
           /\ Lock => Session!Close
           /\ \A c \in Calls : TryLock(c) => UNCHANGED Session!sessionVars
           /\ ServeCall => Session!Next \/ UNCHANGED Session!sessionVars
           /\ ContextRestart => Session!Forget
<1>1. \A given \in VarMap : Unlock(given) => Session!Open
  BY DEF Unlock, Session!Open, VarMap
<1>2. Lock => Session!Close
  BY DEF Lock, Session!Close
<1>3. \A c \in Calls : TryLock(c) => UNCHANGED Session!sessionVars
  BY DEF TryLock, Session!sessionVars
<1>4. ASSUME ServeCall
      PROVE  Session!Next \/ UNCHANGED Session!sessionVars
  <2>1. call \in Calls
    BY <1>4 DEF ServeCall, ContextTypeOK
  <2>2. CASE call.value = NoValue
    BY <1>4, <2>2 DEF ServeCall, Session!sessionVars
  <2>3. CASE call.value # NoValue
    <3>1. call.name \in Names /\ call.value \in Values /\ call.global \in BOOLEAN
      BY <2>1, <2>3 DEF Calls
    <3>2. Session!Set(call.name, call.value, call.global)
      BY <1>4, <2>3 DEF ServeCall, Session!Set
    <3> QED
      BY <3>1, <3>2 DEF Session!Next
  <2> QED
    BY <2>2, <2>3
<1>5. ContextRestart => Session!Forget
  BY DEF ContextRestart, Session!Forget, NoVars, Session!NoVars
<1> QED
  BY <1>1, <1>2, <1>3, <1>4, <1>5

\* Any other step leaves the session as it is.
LEMMA SessionKept ==
    ASSUME UNCHANGED context
    PROVE  UNCHANGED Session!sessionVars
BY DEF context, Session!sessionVars

\* The two threads of the guest additions service keep the promise of VarSession: a
\* variable is set at one moment, while the command runs.
THEOREM SessionKeepsPromise == Spec => ImplementsSession
<1>1. Init => Session!Init
  BY DEF Init, ContextInit, Session!Init, NoVars, Session!NoVars
<1>2. TypeOK /\ [Next]_vars => [Session!Next]_Session!sessionVars
  <2>1. SUFFICES ASSUME TypeOK, [Next]_vars
                 PROVE  Session!Next \/ UNCHANGED Session!sessionVars
    BY DEF Session!sessionVars
  <2>2. ContextTypeOK /\ StreamTypes
    BY <2>1 DEF TypeOK, StreamTypes
  <2>3. CASE UNCHANGED context
    BY <2>3, SessionKept
  <2>4. CASE GuestExecutes
    <3>1. Request.vars \in VarMap
      BY <2>2, <2>4, RequestTypes DEF GuestExecutes, Receives, Item
    <3> QED
      BY <2>2, <2>4, <3>1, SessionSteps DEF GuestExecutes, Session!Next
  <2>5. CASE GuestLocks
    BY <2>2, <2>5, SessionSteps DEF GuestLocks, Session!Next
  <2>6. CASE \E c \in Calls : CallTakesLock(c)
    BY <2>2, <2>6, SessionSteps DEF CallTakesLock
  <2>7. CASE CallServed
    BY <2>2, <2>7, SessionSteps DEF CallServed
  <2>8. CASE GuestRestarts
    BY <2>2, <2>8, SessionSteps DEF GuestRestarts, Session!Next
  <2>9. \/ UNCHANGED context \/ GuestExecutes \/ GuestLocks
        \/ (\E c \in Calls : CallTakesLock(c)) \/ CallServed \/ GuestRestarts
    BY <2>1 DEF Next, vars, Begin, HostReads, HostChecked, HostGotTmpDir, HostRechecked,
       HostCopied, HostRan, HostListed, HostReceivesFile, HostMisreads, Expire, TimeIsUp,
       Guest, GuestAnswersCheck, GuestOpensFile, GuestStoresFile, GuestMistakesRequest,
       GuestMistakesContent, GuestEats, GuestFindsEnd, GuestLists, GuestSendsFile,
       GuestWrites, CommandOutputs, CommandEnds
  <2> QED
    BY <2>3, <2>4, <2>5, <2>6, <2>7, <2>8, <2>9
<1> QED
  BY <1>1, <1>2, TypesCorrect, PTL DEF Spec, ImplementsSession, Session!Spec


----------------------------------------------------------------------------
(* The request under way: steps of the host                                *)

\* What the host's steps are to preserve.
HostGoal == HostInv /\ VariablesArrive /\ (quiet => Phase)

\* A request sent into an empty stream is all there is.
LEMMA SendToEmpty ==
    ASSUME toGuest = <<>>, NEW items \in Seq(Item), Send(items)
    PROVE  toGuest' = items
BY ConcatEmptySeq DEF Send

\* An answer to a request that is answered at once is the only one.
LEMMA AnswerOfAsked ==
    ASSUME StreamTypes, NEW what, Asked(what), toHost # <<>>
    PROVE  Inert /\ Tail(toHost) = <<>> /\ Answer.what = what
BY FirstFacts DEF StreamTypes, Asked, Answer

\* The end of an action leaves an idle guest idle.
LEMMA EndInert ==
    ASSUME StreamTypes, NEW b \in BOOLEAN, End(b), UNCHANGED guest, Inert
    PROVE  Inert'
<1>1. PICK n \in 0 .. Len(toGuest) : toGuest' = SubSeq(toGuest, 1, n)
  BY DEF End
<1>2. toGuest' = <<>>
  BY <1>1, LossFacts DEF Inert, StreamTypes
<1> QED
  BY <1>2 DEF Inert, guest

LEMMA FailedGoal ==
    ASSUME Failed
    PROVE  HostGoal'
BY DEF Failed, End, HostGoal, HostInv, VariablesArrive, Phase, Over

\* A success, of an action that leaves the variables alone.
LEMMA SucceededGoal ==
    ASSUME StreamTypes, End(TRUE), UNCHANGED guest,
           act.kind # "exec",
           quiet => IF act.kind = "copyfrom" THEN act.files \subseteq got'
                    ELSE act.files # {} => Inert /\ act.files \subseteq stored
    PROVE  HostGoal'
<1>1. Inert => Inert'
  BY EndInert
<1>2. HostInv' /\ VariablesArrive'
  BY DEF End, HostInv, VariablesArrive
<1>3. quiet' => Over'
  BY <1>1 DEF End, Over, guest
<1> QED
  BY <1>2, <1>3 DEF HostGoal, Phase, End

LEMMA BeginGoal ==
    ASSUME TypeOK, ChannelInv, NEW a \in Actions, Begin(a)
    PROVE  HostGoal'
<1>1. HostInv' /\ VariablesArrive'
  BY DEF Begin, HostInv, VariablesArrive
<1>2. ASSUME quiet'
      PROVE  Asked("check")'
  <2>1. toGuest = <<>> /\ at = "receive" /\ toHost = <<>>
    BY <1>2 DEF Begin, ChannelInv, HostInv
  <2>2. <<Plain("check", {})>> \in Seq(Item) /\ Plain("check", {}).what = "check"
    BY ItemTypes DEF Requests
  <2>3. toGuest' = <<Plain("check", {})>>
    BY <2>1, <2>2, SendToEmpty DEF Begin
  <2> QED
    BY <2>1, <2>2, <2>3 DEF Asked, Begin, guest
<1> QED
  BY <1>1, <1>2 DEF HostGoal, Phase, Begin

\* From one request to the next.
LEMMA FollowsGoal ==
    ASSUME TypeOK, ChannelInv, pc \in {"check", "tmpdir"}, toHost # <<>>,
           toHost' = Tail(toHost), UNCHANGED <<guest, context, acked>>,
           NEW next \in {"tmpdir", "recheck", "list"}, NEW F \in SUBSET Files,
           next = "tmpdir" => act.kind = "exec",
           next = "recheck" => act.kind \in {"copyto", "exec"},
           next = "list" => act.kind = "copyfrom" /\ F = act.files,
           Follows(next, F)
    PROVE  HostGoal'
<1>1. HostInv' /\ VariablesArrive'
  BY DEF Follows, Going, ChannelInv, HostInv, VariablesArrive
<1>2. ASSUME quiet'
      PROVE  Phase'
  <2>1. StreamTypes /\ Asked(pc)
    BY <1>2, TypeParts DEF Follows, ChannelInv, Phase
  <2>2. Inert /\ toHost' = <<>>
    BY <2>1, AnswerOfAsked
  <2>3. <<Plain(next, F)>> \in Seq(Item) /\ Plain(next, F).what = next
    BY ItemTypes DEF Requests
  <2>4. toGuest' = <<Plain(next, F)>> /\ at' = "receive"
    BY <2>2, <2>3, SendToEmpty DEF Follows, Inert, guest
  <2>5. pc' = next /\ act' = act /\ ~eating'
    BY <1>2 DEF Follows, Going, ChannelInv, Phase
  <2>6. CASE next = "list"
    BY <2>2, <2>4, <2>5, <2>6 DEF Phase, Fetching
  <2>7. CASE next \in {"tmpdir", "recheck"}
    <3>1. Asked(next)'
      BY <2>2, <2>3, <2>4 DEF Asked
    <3> QED
      BY <2>5, <2>7, <3>1 DEF Phase
  <2> QED
    BY <2>6, <2>7
<1> QED
  BY <1>1, <1>2 DEF HostGoal

\* From one file to the next.
LEMMA SendFileGoal ==
    ASSUME TypeOK, ChannelInv, pc # "idle", act.kind \in {"copyto", "exec"}, SendFile,
           UNCHANGED <<guest, context, acked>>,
           quiet' => Inert /\ toHost' = <<>> /\ AllStored
    PROVE  HostGoal'
<1>1. PICK f \in left :
        /\ left' = left \ {f} /\ pc' = "copy" /\ eating' = FALSE
        /\ Send(<<Plain("copy", {f}), Plain("raw", {f})>>) /\ Going
  BY DEF SendFile
<1>2. HostInv' /\ VariablesArrive'
  BY <1>1 DEF Going, ChannelInv, HostInv, VariablesArrive
<1>3. ASSUME quiet'
      PROVE  Copying'
  <2>1. f \in Files
    BY DEF TypeOK
  <2>2. <<Plain("copy", {f}), Plain("raw", {f})>> \in Seq(Item)
    BY <2>1, ItemTypes DEF Requests
  <2>3. toGuest' = <<Plain("copy", {f}), Plain("raw", {f})>>
    BY <1>1, <1>3, <2>2, SendToEmpty DEF Inert
  <2>4. at' = "receive" /\ toHost' = <<>> /\ stored' = stored /\ act' = act
    BY <1>1, <1>3 DEF Inert, guest, Going
  <2>5. StoredBut(f)'
    BY <1>1, <1>3, <2>4 DEF StoredBut, AllStored
  <2> QED
    BY <2>1, <2>3, <2>4, <2>5 DEF Copying, Sent
<1> QED
  BY <1>1, <1>2, <1>3 DEF HostGoal, Phase


LEMMA HostCheckedGoal ==
    ASSUME TypeOK, ChannelInv, HostChecked
    PROVE  HostGoal'
<1>1. /\ pc = "check" /\ toHost # <<>> /\ UNCHANGED <<guest, context, acked>>
      /\ act.kind \in {"copyto", "copyfrom", "exec"} /\ act.files \subseteq Files
  BY ActTypes, TypeParts DEF HostChecked, Reading
<1>2. CASE Failed
  BY <1>2, FailedGoal
<1>3. CASE toHost' = Tail(toHost) /\ act.kind = "exec" /\ Follows("tmpdir", {})
  BY <1>1, <1>3, FollowsGoal
<1>4. CASE toHost' = Tail(toHost) /\ act.kind = "copyto" /\ Follows("recheck", {})
  BY <1>1, <1>4, FollowsGoal
<1>5. CASE toHost' = Tail(toHost) /\ act.kind = "copyfrom" /\ Follows("list", act.files)
  BY <1>1, <1>5, FollowsGoal
<1> QED
  BY <1>1, <1>2, <1>3, <1>4, <1>5 DEF HostChecked

LEMMA HostGotTmpDirGoal ==
    ASSUME TypeOK, ChannelInv, HostGotTmpDir
    PROVE  HostGoal'
<1>1. pc = "tmpdir" /\ toHost # <<>> /\ UNCHANGED <<guest, context, acked>> /\ act.kind = "exec"
  BY DEF HostGotTmpDir, Reading, ChannelInv, HostInv
<1>2. CASE Failed
  BY <1>2, FailedGoal
<1>3. CASE toHost' = Tail(toHost) /\ Follows("recheck", {})
  BY <1>1, <1>3, FollowsGoal
<1> QED
  BY <1>2, <1>3 DEF HostGotTmpDir

LEMMA HostRecheckedGoal ==
    ASSUME TypeOK, ChannelInv, HostRechecked
    PROVE  HostGoal'
<1>1. /\ pc = "recheck" /\ toHost # <<>> /\ UNCHANGED <<guest, context, acked>>
      /\ act.kind \in {"copyto", "exec"} /\ left = act.files
      /\ act.kind = "exec" => act.files = {Script}
      /\ StreamTypes
  BY ActTypes, TypeParts DEF HostRechecked, Reading, ChannelInv, HostInv
<1>2. CASE Failed
  BY <1>2, FailedGoal
<1>3. CASE left = {} /\ Done
  BY <1>1, <1>3, SucceededGoal DEF Done
<1>4. CASE SendFile /\ toHost' = Tail(toHost) /\ UNCHANGED <<timer, quiet>>
  <2>1. ASSUME quiet'
        PROVE  Inert /\ toHost' = <<>> /\ AllStored
    <3>1. Asked(pc)
      BY <1>1, <1>4, <2>1 DEF ChannelInv, Phase
    <3> QED
      BY <1>1, <1>4, <3>1, AnswerOfAsked DEF AllStored
  <2> QED
    BY <1>1, <1>4, <2>1, SendFileGoal
<1> QED
  BY <1>2, <1>3, <1>4 DEF HostRechecked

\* A file that was stored has left the guest idle.
LEMMA AnswerOfCopied ==
    ASSUME StreamTypes, Copying, toHost # <<>>, Success
    PROVE  Inert /\ Tail(toHost) = <<>> /\ AllStored
<1>1. Copied
  BY DEF Copying, Sent
<1> QED
  BY <1>1, FirstFacts DEF Copied, Success, Answer, StreamTypes

LEMMA HostCopiedGoal ==
    ASSUME TypeOK, ChannelInv, HostCopied
    PROVE  HostGoal'
<1>1. /\ pc = "copy" /\ toHost # <<>> /\ UNCHANGED <<guest, context, acked>>
      /\ act.kind \in {"copyto", "exec"}
      /\ StreamTypes
  BY TypeParts DEF HostCopied, Reading, ChannelInv, HostInv
<1>2. ASSUME quiet, Success
      PROVE  Inert /\ Tail(toHost) = <<>> /\ AllStored
  BY <1>1, <1>2, AnswerOfCopied DEF ChannelInv, Phase
<1>3. CASE Failed
  BY <1>3, FailedGoal
<1>4. CASE Success /\ SendFile /\ toHost' = Tail(toHost) /\ UNCHANGED <<timer, quiet>>
  BY <1>1, <1>2, <1>4, SendFileGoal
<1>5. CASE Success /\ left = {} /\ act.kind # "exec" /\ Done
  <2>1. quiet => Inert /\ act.files \subseteq stored
    BY <1>2, <1>5 DEF AllStored
  <2> QED
    BY <1>1, <1>5, <2>1, SucceededGoal DEF Done
<1>6. CASE /\ Success /\ left = {} /\ act.kind = "exec"
           /\ pc' = "run" /\ timer' = "armed"
           /\ Send(<<[Plain("execute", {}) EXCEPT !.vars = machine_vars.self]>>)
           /\ toHost' = Tail(toHost)
           /\ UNCHANGED <<left, eating, quiet>> /\ Going
  <2>1. HostInv' /\ VariablesArrive'
    BY <1>1, <1>6 DEF Going, ChannelInv, HostInv, VariablesArrive
  <2>2. ASSUME quiet'
        PROVE  Running'
    <3>1. Inert /\ toHost' = <<>> /\ act.files \subseteq stored
      BY <1>2, <1>6, <2>2 DEF AllStored
    <3>2. machine_vars.self \in VarMap
      BY DEF TypeOK
    <3> DEFINE request == [Plain("execute", {}) EXCEPT !.vars = machine_vars.self]
    <3>3. <<request>> \in Seq(Item) /\ request.what = "execute"
      BY <3>2, ItemTypes
    <3> HIDE DEF request
    <3>4. toGuest' = <<request>>
      BY <1>6, <3>1, <3>3, SendToEmpty DEF Inert, request
    <3> QED
      BY <1>1, <1>6, <3>1, <3>3, <3>4 DEF Running, Inert, guest, Going
  <2>3. quiet' => ~eating'
    BY <1>1, <1>6 DEF ChannelInv, Phase
  <2> QED
    BY <1>6, <2>1, <2>2, <2>3 DEF HostGoal, Phase
<1> QED
  BY <1>3, <1>4, <1>5, <1>6 DEF HostCopied

LEMMA GiveUpGoal ==
    ASSUME TypeOK, ChannelInv, GiveUpRecheck, UNCHANGED <<guest, context, acked>>
    PROVE  HostGoal'
<1>1. /\ pc = "recheck" /\ act.kind \in {"copyto", "exec"} /\ left = act.files
      /\ act.kind = "exec" => act.files = {Script}
      /\ StreamTypes
  BY ActTypes, TypeParts DEF GiveUpRecheck, ChannelInv, HostInv
<1>2. CASE left = {} /\ Done
  BY <1>1, <1>2, SucceededGoal DEF Done
<1>3. CASE SendFile /\ quiet' = FALSE
  BY <1>1, <1>3, SendFileGoal
<1>4. CASE Failed
  BY <1>4, FailedGoal
<1> QED
  BY <1>2, <1>3, <1>4 DEF GiveUpRecheck

LEMMA ExpireGoal ==
    ASSUME TypeOK, ChannelInv, Expire \/ TimeIsUp
    PROVE  HostGoal'
BY GiveUpGoal, FailedGoal DEF Expire, TimeIsUp


\* Reading one item of the files leaves the rest in order, even if it is the content
\* of a file that is then no longer waited for.
LEMMA StreamTail ==
    ASSUME StreamTypes, Stream, toHost # <<>>, toHost' = Tail(toHost), UNCHANGED guest,
           \/ left' = left
           \/ IsRaw(1) /\ \E f \in left : toHost[1].files = {f} /\ left' = left \ {f}
    PROVE  Stream'
<1>1. /\ Len(toHost) \in Nat /\ Len(toHost) >= 1 /\ Len(toHost') = Len(toHost) - 1
      /\ \A i \in 1 .. Len(toHost') : toHost'[i] = toHost[i + 1]
  BY FirstFacts DEF StreamTypes
<1>2. /\ todo' = todo /\ at' = at /\ out' = out
  BY DEF guest
<1>3. /\ \A w : Writes(w)' <=> Writes(w)
      /\ \A i \in 1 .. Len(toHost') :
            i + 1 \in 1 .. Len(toHost) /\ i + 1 # 1 /\ (IsRaw(i)' <=> IsRaw(i + 1))
  BY <1>1, <1>2 DEF IsRaw, Writes
<1>4. ASSUME NEW f, f \in left \ todo,
             IsRaw(1) => toHost[1].files # {f}
      PROVE  f \in left' \ todo'
  BY <1>2, <1>4
<1>5. todo' \subseteq left'
  BY <1>1, <1>2 DEF Stream, OneOf
<1>6. ASSUME at' = "write"
      PROVE  Writes("list")' \/ (Writes("raw")' /\ OneOf(out)')
  <2>1. CASE Writes("list")
    BY <1>3, <2>1
  <2>2. CASE Writes("raw")
    <3>1. PICK f \in left \ todo : out.files = {f}
      BY <1>2, <1>6, <2>2 DEF Stream, OneOf, Writes
    <3>2. IsRaw(1) => toHost[1].files # {f}
      BY <1>1, <2>2, <3>1 DEF Stream
    <3>3. f \in left' \ todo'
      BY <1>4, <3>1, <3>2
    <3> QED
      BY <1>2, <1>3, <2>2, <3>1, <3>3 DEF OneOf
  <2> QED
    BY <1>2, <1>6, <2>1, <2>2 DEF Stream
<1>7. ASSUME NEW i \in 1 .. Len(toHost')
      PROVE  /\ toHost'[i].what \in {"list", "raw"}
             /\ IsRaw(i)' => OneOf(toHost[i])' /\ (Writes("raw")' => toHost'[i].files # out'.files)
             /\ IsRaw(i)' => \A j \in 1 .. Len(toHost') :
                   IsRaw(j)' /\ i # j => toHost'[i].files # toHost'[j].files
  <2>1. toHost'[i].what \in {"list", "raw"}
    BY <1>1, <1>3 DEF Stream
  <2>2. ASSUME IsRaw(i)'
        PROVE  OneOf(toHost[i])' /\ (Writes("raw")' => toHost'[i].files # out'.files)
    <3>1. IsRaw(i + 1) /\ i + 1 \in 1 .. Len(toHost) /\ i + 1 # 1
      BY <1>3, <2>2
    <3>2. PICK f \in left \ todo : toHost[i + 1].files = {f}
      BY <3>1 DEF Stream, OneOf
    <3>3. ASSUME IsRaw(1)
          PROVE  toHost[1].files # {f}
      <4>1. 1 \in 1 .. Len(toHost)
        BY <1>1
      <4>2. toHost[i + 1].files # toHost[1].files
        BY <3>1, <3>3, <4>1 DEF Stream
      <4> QED
        BY <3>2, <4>2
    <3>4. f \in left' \ todo'
      BY <1>4, <3>2, <3>3
    <3>5. OneOf(toHost[i])'
      BY <1>1, <3>2, <3>4 DEF OneOf
    <3>6. Writes("raw") => toHost[i + 1].files # out.files
      BY <3>1 DEF Stream
    <3> QED
      BY <1>1, <1>2, <1>3, <3>5, <3>6
  <2>3. ASSUME IsRaw(i)', NEW j \in 1 .. Len(toHost'), IsRaw(j)', i # j
        PROVE  toHost'[i].files # toHost'[j].files
    <3>1. /\ IsRaw(i + 1) /\ i + 1 \in 1 .. Len(toHost)
          /\ IsRaw(j + 1) /\ j + 1 \in 1 .. Len(toHost)
          /\ i + 1 # j + 1
      BY <1>1, <1>3, <2>3
    <3>2. toHost[i + 1].files # toHost[j + 1].files
      BY <3>1 DEF Stream
    <3> QED
      BY <1>1, <3>2
  <2> QED
    BY <2>1, <2>2, <2>3
<1> QED
  BY <1>5, <1>6, <1>7 DEF Stream

LEMMA HostListedGoal ==
    ASSUME TypeOK, ChannelInv, HostListed
    PROVE  HostGoal'
<1>1. /\ pc = "list" /\ toHost # <<>> /\ UNCHANGED <<guest, context, acked>>
      /\ act.kind = "copyfrom" /\ left = act.files
      /\ StreamTypes /\ Answer = toHost[1]
  BY TypeParts, ReadTypes DEF HostListed, Reading, ChannelInv, HostInv
<1>2. ASSUME quiet
      PROVE  toGuest = <<>> /\ at \in {"receive", "write", "files"} /\ Stream /\ Listing(Answer)
  BY <1>1, <1>2 DEF ChannelInv, Phase, Fetching
<1>3. CASE /\ Success /\ pc' = "files" /\ left' = Answer.files
           /\ toHost' = Tail(toHost)
           /\ UNCHANGED <<timer, eating, toGuest, quiet>> /\ Going
  <2>1. HostInv' /\ VariablesArrive'
    BY <1>1, <1>3 DEF Going, ChannelInv, HostInv, VariablesArrive
  <2>2. ASSUME quiet'
        PROVE  Fetching'
    <3>1. left' = left
      BY <1>1, <1>2, <1>3, <2>2 DEF Listing, Success
    <3>2. Stream'
      BY <1>1, <1>2, <1>3, <2>2, <3>1, StreamTail
    <3> QED
      BY <1>1, <1>2, <1>3, <2>2, <3>1, <3>2 DEF Fetching, guest, Going
  <2> QED
    BY <1>3, <2>1, <2>2 DEF HostGoal, Phase
<1>4. CASE /\ ~(Success /\ Answer.what = "list" /\ Answer.files # {})
           /\ End(Success /\ Answer.what \in {"list", "check", "recheck", "copy"})
           /\ UNCHANGED <<got, machine_vars>>
  <2>1. CASE Success /\ Answer.what \in {"list", "check", "recheck", "copy"}
    <3>1. End(TRUE)
      BY <1>4, <2>1
    <3>2. quiet => act.files = {}
      BY <1>2, <1>4, <2>1 DEF Listing, Success
    <3> QED
      BY <1>1, <3>1, <3>2, SucceededGoal
  <2>2. CASE ~(Success /\ Answer.what \in {"list", "check", "recheck", "copy"})
    <3>1. End(FALSE)
      BY <1>4, <2>2
    <3> QED
      BY <1>4, <3>1, FailedGoal DEF Failed
  <2> QED
    BY <2>1, <2>2
<1> QED
  BY <1>3, <1>4 DEF HostListed

LEMMA HostReceivesFileGoal ==
    ASSUME TypeOK, ChannelInv, HostReceivesFile
    PROVE  HostGoal'
<1>1. /\ pc = "files" /\ toHost # <<>> /\ UNCHANGED <<guest, context, acked>>
      /\ Answer.what = "raw" /\ act.kind = "copyfrom"
      /\ StreamTypes /\ Answer = toHost[1]
  BY TypeParts, ReadTypes DEF HostReceivesFile, Reading, ChannelInv, HostInv
<1>2. ASSUME quiet
      PROVE  /\ toGuest = <<>> /\ at \in {"receive", "write", "files"} /\ Stream
             /\ act.files \subseteq got \cup left
  BY <1>1, <1>2 DEF ChannelInv, Phase, Fetching
<1>3. CASE Failed
  BY <1>3, FailedGoal
<1>4. ASSUME NEW f \in left,
             Answer.files = {f} \/ Answer.files \cap left = {},
             got' = got \cup ({f} \cap Answer.files),
             IF left = {f}
             THEN End(TRUE) /\ UNCHANGED machine_vars
             ELSE /\ left' = left \ {f} /\ toHost' = Tail(toHost)
                  /\ UNCHANGED <<pc, act, ok, timer, eating, actions, machine_vars,
                                 toGuest, quiet>>
      PROVE  HostGoal'
  <2>1. /\ Len(toHost) \in Nat /\ Len(toHost) >= 1 /\ Len(Tail(toHost)) = Len(toHost) - 1
        /\ \A i \in 1 .. Len(Tail(toHost)) : Tail(toHost)[i] = toHost[i + 1]
    BY <1>1, FirstFacts DEF StreamTypes
  <2>2. ASSUME quiet
        PROVE  Answer.files = {f} /\ f \notin todo
    <3>1. IsRaw(1) /\ 1 \in 1 .. Len(toHost)
      BY <1>1, <2>1 DEF IsRaw
    <3> QED
      BY <1>1, <1>2, <1>4, <2>2, <3>1 DEF Stream, OneOf
  <2>3. CASE left = {f}
    <3>1. End(TRUE) /\ UNCHANGED machine_vars
      BY <1>4, <2>3
    <3>2. quiet => act.files \subseteq got'
      BY <1>2, <1>4, <2>2, <2>3
    <3> QED
      BY <1>1, <3>1, <3>2, SucceededGoal
  <2>4. CASE left # {f}
    <3>1. /\ left' = left \ {f} /\ toHost' = Tail(toHost)
          /\ UNCHANGED <<pc, act, ok, timer, eating, actions, machine_vars, toGuest, quiet>>
      BY <1>4, <2>4
    <3>2. HostInv' /\ VariablesArrive'
      BY <1>1, <3>1 DEF ChannelInv, HostInv, VariablesArrive
    <3>3. ASSUME quiet
          PROVE  Stream'
      <4>1. IsRaw(1) /\ toHost[1].files = {f}
        BY <1>1, <2>2, <3>3 DEF IsRaw
      <4> QED
        BY <1>1, <1>2, <1>4, <3>1, <3>3, <4>1, StreamTail
    <3>4. ASSUME quiet
          PROVE  Fetching'
      BY <1>1, <1>2, <1>4, <2>2, <3>1, <3>3, <3>4 DEF Fetching, guest
    <3> QED
      BY <1>1, <3>1, <3>2, <3>4 DEF HostGoal, Phase
  <2> QED
    BY <2>3, <2>4
<1> QED
  BY <1>3, <1>4 DEF HostReceivesFile


LEMMA HostRanGoal ==
    ASSUME TypeOK, ChannelInv, HostRan
    PROVE  HostGoal'
<1>1. /\ pc = "run" /\ toHost # <<>> /\ UNCHANGED <<guest, context, acked>>
      /\ act.kind = "exec" /\ left = {}
      /\ StreamTypes /\ Answer = toHost[1]
      /\ Len(toHost) \in Nat /\ Len(toHost) >= 1 /\ Len(Tail(toHost)) = Len(toHost) - 1
      /\ \A i \in 1 .. Len(Tail(toHost)) : Tail(toHost)[i] = toHost[i + 1]
  BY TypeParts, ReadTypes, FirstFacts
     DEF HostRan, Reading, ChannelInv, HostInv, StreamTypes
<1>2. ASSUME quiet
      PROVE  /\ act.files \subseteq stored
             /\ toGuest = <<>> /\ at \in {"receive", "write", "run", "ending"}
             /\ at = "write" => Writes("pending") \/ (Writes("finished") /\ Carries(out))
             /\ \A i \in 1 .. Len(toHost) :
                   \/ toHost[i].what = "pending"
                   \/ toHost[i].what = "finished" /\ Carries(toHost[i]) /\ at = "receive"
             /\ ~eating
  BY <1>1, <1>2 DEF ChannelInv, Phase, Running
<1>3. CASE Failed
  BY <1>3, FailedGoal
<1>4. CASE /\ toHost' = Tail(toHost)
           /\ UNCHANGED <<pc, left, timer, eating, toGuest, quiet>> /\ Going
  <2>1. HostInv' /\ VariablesArrive'
    BY <1>1, <1>4 DEF Going, ChannelInv, HostInv, VariablesArrive
  <2>2. ASSUME quiet
        PROVE  Running'
    <3>1. /\ at' = at /\ out' = out /\ stored' = stored /\ toGuest' = <<>> /\ act' = act
          /\ acked' = acked /\ global_vars' = global_vars
      BY <1>1, <1>2, <1>4, <2>2 DEF guest, context, Going
    <3>2. ASSUME NEW i \in 1 .. Len(toHost')
          PROVE  \/ toHost'[i].what = "pending"
                 \/ toHost'[i].what = "finished" /\ Carries(toHost[i])' /\ at' = "receive"
      <4>1. i + 1 \in 1 .. Len(toHost) /\ toHost'[i] = toHost[i + 1]
        BY <1>1, <1>4
      <4>2. Carries(toHost[i + 1]) => Carries(toHost[i])'
        BY <3>1, <4>1 DEF Carries
      <4> QED
        BY <1>2, <2>2, <3>1, <4>1, <4>2
    <3>3. at' = "write" => Writes("pending")' \/ (Writes("finished")' /\ Carries(out)')
      BY <1>2, <2>2, <3>1 DEF Writes, Carries
    <3> QED
      BY <1>2, <2>2, <3>1, <3>2, <3>3 DEF Running
  <2> QED
    BY <1>1, <1>2, <1>4, <2>1, <2>2 DEF HostGoal, Phase
<1>5. CASE /\ Answer.what = "finished"
           /\ machine_vars' = [self |-> Updated("self", Names),
                               other |-> Updated("other", Answer.globals)]
           /\ End(TRUE) /\ UNCHANGED got
  <2>1. ASSUME quiet
        PROVE  Inert /\ act.files \subseteq stored /\ Carries(Answer)
    <3>1. 1 \in 1 .. Len(toHost)
      BY <1>1
    <3> QED
      BY <1>1, <1>2, <1>5, <2>1, <3>1 DEF Inert
  <2>2. HostInv'
    BY <1>5 DEF End, HostInv
  <2>3. ASSUME quiet
        PROVE  VariablesArrive'
    <3>1. acked' = acked /\ global_vars' = global_vars
      BY <1>1 DEF context
    <3>2. SUFFICES ASSUME NEW x \in Names, acked[x] # NoValue
                   PROVE  /\ machine_vars'.self[x] = acked[x]
                          /\ x \in global_vars => machine_vars'.other[x] = acked[x]
      BY <3>1 DEF VariablesArrive
    <3>3. Answer.vars[x] = acked[x] /\ (x \in global_vars => x \in Answer.globals)
      BY <2>1, <2>3, <3>2 DEF Carries
    <3>4. Updated("self", Names)[x] = acked[x]
      BY <3>2, <3>3 DEF Updated
    <3>5. x \in global_vars => Updated("other", Answer.globals)[x] = acked[x]
      BY <3>2, <3>3 DEF Updated
    <3> QED
      BY <1>5, <3>4, <3>5
  <2>4. ASSUME quiet
        PROVE  Over'
    <3>1. Inert'
      BY <1>1, <1>5, <2>1, <2>4, EndInert
    <3> QED
      BY <1>1, <1>5, <2>1, <2>4, <3>1 DEF Over, End, guest
  <2> QED
    BY <1>5, <2>2, <2>3, <2>4 DEF HostGoal, VariablesArrive, Phase, End
<1> QED
  BY <1>3, <1>4, <1>5 DEF HostRan

LEMMA HostMisreadsGoal ==
    ASSUME TypeOK, ChannelInv, HostMisreads
    PROVE  HostGoal'
<1>1. /\ pc # "idle" /\ toHost # <<>> /\ toHost' = Tail(toHost) /\ eating' = TRUE
      /\ UNCHANGED <<pc, left, toGuest, guest, context, quiet, acked>> /\ Going
      /\ StreamTypes /\ Answer = toHost[1]
      /\ Len(toHost) >= 1 /\ Len(toHost) \in Nat
  BY TypeParts, ReadTypes, FirstFacts DEF HostMisreads, StreamTypes
<1>2. HostInv' /\ VariablesArrive'
  BY <1>1 DEF Going, ChannelInv, HostInv, VariablesArrive
<1>3. ASSUME quiet
      PROVE  pc = "files"
  <2>1. SUFFICES ASSUME pc # "files", Garbled
                 PROVE  FALSE
    BY <1>3 DEF HostMisreads, ChannelInv, Phase
  <2>2. Answer.what \in {"raw", "fragment"} /\ 1 \in 1 .. Len(toHost)
    BY <1>1, <2>1 DEF Garbled
  <2>3. CASE pc \in {"check", "tmpdir", "recheck"}
    BY <1>1, <1>3, <2>2, <2>3, AnswerOfAsked DEF ChannelInv, Phase
  <2>4. CASE pc = "copy"
    BY <1>1, <1>3, <2>2, <2>4 DEF ChannelInv, Phase, Copying, Copied, Sent
  <2>5. CASE pc = "list"
    BY <1>1, <1>3, <2>2, <2>5 DEF ChannelInv, Phase, Fetching, Listing
  <2>6. CASE pc = "run"
    BY <1>1, <1>3, <2>2, <2>6 DEF ChannelInv, Phase, Running
  <2> QED
    BY <1>1, <2>1, <2>3, <2>4, <2>5, <2>6 DEF TypeOK, Requests
<1>4. ASSUME quiet
      PROVE  Fetching'
  <2>1. /\ toGuest = <<>> /\ at \in {"receive", "write", "files"} /\ Stream
        /\ act.files \subseteq got \cup left
    BY <1>1, <1>3, <1>4 DEF ChannelInv, Phase, Fetching
  <2>2. Stream'
    BY <1>1, <2>1, StreamTail
  <2> QED
    BY <1>1, <1>3, <1>4, <2>1, <2>2 DEF Fetching, guest, Going
<1> QED
  BY <1>1, <1>2, <1>3, <1>4 DEF HostGoal, Phase


\* A step of the host preserves the invariant.
LEMMA HostStepInv ==
    ASSUME TypeOK, ChannelInv, (\E a \in Actions : Begin(a)) \/ HostReads \/ Expire \/ TimeIsUp
    PROVE  ChannelInv'
<1>1. HostGoal'
  BY BeginGoal, HostCheckedGoal, HostGotTmpDirGoal, HostRecheckedGoal, HostCopiedGoal,
     HostRanGoal, HostListedGoal, HostReceivesFileGoal, HostMisreadsGoal, ExpireGoal
     DEF HostReads
<1>2. UNCHANGED <<guest, context, acked>>
  BY DEF Begin, HostReads, HostChecked, HostGotTmpDir, HostRechecked, HostCopied, HostRan,
         HostListed, HostReceivesFile, HostMisreads, Expire, TimeIsUp
<1>3. GuestInv'
  BY <1>2 DEF ChannelInv, GuestInv, Writes, guest, context
<1> QED
  BY <1>1, <1>3, HostStepTypes DEF HostGoal, ChannelInv

----------------------------------------------------------------------------
(* The request under way: steps of the guest                               *)

\* A call of the command line tool.
CallStep == (\E c \in Calls : CallTakesLock(c)) \/ CallServed

\* What the handler may do, by what it is doing.
LEMMA GuestChoices ==
    ASSUME Guest
    PROVE  \/ CallStep
           \/ GuestRestarts
           \/ /\ at = "receive" /\ toGuest # <<>>
              /\ \/ GuestAnswersCheck \/ GuestOpensFile \/ GuestMistakesContent
                 \/ GuestLists \/ GuestExecutes
           \/ /\ at = "content"
              /\ GuestStoresFile \/ GuestMistakesRequest \/ GuestFindsEnd
           \/ at = "eating" /\ (GuestEats \/ GuestFindsEnd)
           \/ at = "files" /\ GuestSendsFile
           \/ at = "write" /\ GuestWrites
           \/ at = "run" /\ (CommandOutputs \/ CommandEnds)
           \/ at = "ending" /\ GuestLocks
<1>1. \/ GuestAnswersCheck \/ GuestOpensFile \/ GuestMistakesContent \/ GuestLists
      \/ GuestExecutes
      => at = "receive" /\ toGuest # <<>>
  BY DEF GuestAnswersCheck, GuestOpensFile, GuestMistakesContent, GuestLists, GuestExecutes,
         Receives
<1>2. /\ GuestStoresFile \/ GuestMistakesRequest => at = "content"
      /\ GuestFindsEnd => at \in {"content", "eating"}
      /\ GuestEats => at = "eating"
  BY DEF GuestStoresFile, GuestMistakesRequest, GuestFindsEnd, GuestEats
<1>3. /\ GuestSendsFile => at = "files"
      /\ GuestWrites => at = "write"
      /\ CommandOutputs \/ CommandEnds => at = "run"
      /\ GuestLocks => at = "ending"
  BY DEF GuestSendsFile, GuestWrites, CommandOutputs, CommandEnds, GuestLocks
<1> QED
  BY <1>1, <1>2, <1>3 DEF Guest, CallStep

\* The guest changes nothing of the host.
LEMMA HostKept ==
    ASSUME Guest
    PROVE  UNCHANGED <<host, quiet>>
BY DEF Guest, GuestAnswersCheck, GuestOpensFile, GuestStoresFile, GuestMistakesRequest,
       GuestMistakesContent, GuestEats, GuestFindsEnd, GuestLists, GuestSendsFile,
       GuestWrites, GuestExecutes, CommandOutputs, CommandEnds, GuestLocks,
       CallTakesLock, CallServed, GuestRestarts

\* Calls change only what they share with the handler.
LEMMA CallKeeps ==
    ASSUME CallStep
    PROVE  UNCHANGED <<host, toGuest, toHost, guest, quiet>> /\ holder # "handler"
BY DEF CallStep, CallTakesLock, CallServed, TryLock, ServeCall

\* The mutex, and what is left of the files, go with what the handler does.
LEMMA GuestInvKept ==
    ASSUME TypeOK, GuestInv, Guest
    PROVE  GuestInv'
<1>1. CASE CallStep
  <2>1. UNCHANGED guest
    BY <1>1, CallKeeps
  <2>2. holder # "handler" /\ holder' # "handler" /\ acked' = ctx_vars'
    BY <1>1 DEF CallStep, CallTakesLock, CallServed, TryLock, ServeCall, GuestInv
  <2> QED
    BY <2>1, <2>2 DEF GuestInv, Writes, guest
<1>2. CASE GuestRestarts
  BY <1>2 DEF GuestRestarts, ContextRestart, GuestInv, Writes
<1>3. CASE GuestAnswersCheck
  <2>1. Plain(Request.what, {}).what = Request.what
    BY DEF Plain
  <2> QED
    BY <1>3, <2>1 DEF GuestAnswersCheck, Receives, Write, GuestInv, Writes, context
<1>4. CASE GuestOpensFile
  BY <1>4 DEF GuestOpensFile, Receives, Write, GuestInv, Writes, context, Error, Plain
<1>5. CASE GuestMistakesContent
  BY <1>5 DEF GuestMistakesContent, Receives, GuestInv, Writes, context
<1>6. CASE GuestLists
  BY <1>6 DEF GuestLists, Receives, Write, GuestInv, Writes, context, Error, Plain
<1>7. CASE GuestExecutes
  BY <1>7 DEF GuestExecutes, Receives, Unlock, GuestInv, Writes
<1>8. CASE GuestStoresFile
  BY <1>8 DEF GuestStoresFile, Write, GuestInv, Writes, context, Error, Plain
<1>9. CASE GuestMistakesRequest
  BY <1>9 DEF GuestMistakesRequest, Write, GuestInv, Writes, context, Plain
<1>10. CASE GuestFindsEnd
  BY <1>10 DEF GuestFindsEnd, Write, GuestInv, Writes, context, Error, Plain
<1>11. CASE GuestEats
  BY <1>11 DEF GuestEats, GuestInv, Writes, context, guest
<1>12. CASE GuestSendsFile
  BY <1>12 DEF GuestSendsFile, Write, GuestInv, Writes, context, Error, Plain
<1>13. CASE GuestWrites
  BY <1>13 DEF GuestWrites, GuestInv, Writes, context
<1>14. CASE CommandOutputs
  BY <1>14 DEF CommandOutputs, Write, GuestInv, Writes, context, Plain
<1>15. CASE CommandEnds
  <2>1. out'.what = "finished"
    BY <1>15 DEF CommandEnds, Error, Plain
  <2> QED
    BY <1>15, <2>1 DEF CommandEnds, GuestInv, Writes, context
<1>16. CASE GuestLocks
  <2>1. [out EXCEPT !.vars = ctx_vars, !.globals = global_vars].what = out.what
    BY DEF TypeOK, Item
  <2> QED
    BY <1>16, <2>1 DEF GuestLocks, Lock, Write, GuestInv, Writes, context
<1> QED
  BY <1>1, <1>2, <1>3, <1>4, <1>5, <1>6, <1>7, <1>8, <1>9, <1>10, <1>11, <1>12, <1>13,
     <1>14, <1>15, <1>16, GuestChoices


\* The guest writes only to a host that is there.
LEMMA HostInvKept ==
    ASSUME HostInv, Guest
    PROVE  HostInv'
<1>1. UNCHANGED <<pc, act, ok, left>>
  BY HostKept DEF host
<1>2. pc = "idle" => toHost' = toHost
  BY DEF Guest, GuestAnswersCheck, GuestOpensFile, GuestStoresFile, GuestMistakesRequest,
         GuestMistakesContent, GuestEats, GuestFindsEnd, GuestLists, GuestSendsFile,
         GuestWrites, GuestExecutes, CommandOutputs, CommandEnds, GuestLocks,
         CallTakesLock, CallServed, GuestRestarts
<1> QED
  BY <1>1, <1>2 DEF HostInv

\* A guest that waits for a request does nothing but restart.
LEMMA InertStep ==
    ASSUME GuestInv, Guest, Inert
    PROVE  GuestRestarts
<1>1. holder = "handler"
  BY DEF Inert, GuestInv, Writes
<1> QED
  BY <1>1, GuestChoices, CallKeeps DEF Inert

LEMMA RestartFacts ==
    ASSUME GuestRestarts
    PROVE  Inert' /\ toHost' = toHost /\ stored' = stored /\ todo' = {} /\ acked' = NoVars
BY DEF GuestRestarts, Inert

\* What an action achieved stays.
LEMMA OverKept ==
    ASSUME GuestInv, Over, Guest
    PROVE  Over'
<1>1. UNCHANGED <<ok, act, got>>
  BY HostKept DEF host
<1>2. Inert => Inert' /\ stored' = stored
  BY InertStep, RestartFacts
<1> QED
  BY <1>1, <1>2 DEF Over

LEMMA VariablesKept ==
    ASSUME TypeOK, ChannelInv, Guest
    PROVE  VariablesArrive'
<1>1. UNCHANGED <<ok, act, machine_vars, quiet>>
  BY HostKept DEF host
<1>2. SUFFICES ASSUME quiet, ok, act.kind = "exec"
               PROVE  VariablesArrive'
  BY <1>1 DEF VariablesArrive
<1>3. act.files # {}
  BY <1>2, ActTypes, TypeParts
<1>4. Inert
  BY <1>2, <1>3 DEF ChannelInv, HostInv, Phase, Over
<1>5. \A x \in Names : acked'[x] = NoValue
  BY <1>4, InertStep, RestartFacts DEF ChannelInv, NoVars
<1> QED
  BY <1>5 DEF VariablesArrive

\* What is asked for is answered.
LEMMA AskedKept ==
    ASSUME TypeOK, GuestInv, Guest, NEW what \in {"check", "tmpdir", "recheck"}, Asked(what)
    PROVE  Asked(what)'
<1>1. StreamTypes /\ GuestTypes
  BY TypeParts
<1>2. CASE CallStep
  BY <1>2, CallKeeps DEF Asked, Inert, guest
<1>3. CASE GuestRestarts
  BY <1>3, RestartFacts DEF Asked
<1>4. CASE Inert
  BY <1>3, <1>4, InertStep
<1>5. CASE Len(toGuest) = 1 /\ toGuest[1].what = what /\ at = "receive" /\ toHost = <<>>
  <2>1. CASE toGuest = <<>>
    BY <1>4, <1>5, <2>1 DEF Inert
  <2>2. CASE toGuest # <<>>
    <3>1. Request.what = what /\ Tail(toGuest) = <<>>
      BY <1>1, <1>5, <2>2, FirstFacts DEF StreamTypes, Request
    <3>2. GuestAnswersCheck \/ CallStep \/ GuestRestarts
      BY <1>5, <3>1, GuestChoices
         DEF GuestOpensFile, GuestMistakesContent, GuestLists, GuestExecutes, Receives
    <3>3. CASE GuestAnswersCheck
      <4>1. Plain(what, {}).what = what
        BY DEF Plain
      <4> QED
        BY <1>5, <3>1, <3>3, <4>1 DEF GuestAnswersCheck, Write, Asked
    <3> QED
      BY <1>2, <1>3, <3>2, <3>3
  <2> QED
    BY <2>1, <2>2
<1>6. CASE toGuest = <<>> /\ at = "write" /\ out.what = what /\ toHost = <<>>
  <2>1. GuestWrites \/ CallStep \/ GuestRestarts
    BY <1>6, GuestChoices
  <2>2. CASE GuestWrites
    <3>1. toHost' = Append(toHost, out) /\ at' = "receive" /\ toGuest' = <<>>
      BY <1>6, <2>2 DEF GuestWrites
    <3>2. Len(toHost') = 1 /\ toHost'[1] = out
      BY <1>1, <1>6, <3>1, LastFacts DEF StreamTypes, GuestTypes
    <3> QED
      BY <1>6, <3>1, <3>2 DEF Asked, Inert
  <2> QED
    BY <1>2, <1>3, <2>1, <2>2
<1> QED
  BY <1>4, <1>5, <1>6 DEF Asked


\* A file that is on its way arrives, is refused, or is lost with the guest.
LEMMA SentKept ==
    ASSUME TypeOK, GuestInv, Guest, NEW f \in Files, Sent(f)
    PROVE  Copying'
<1>1. StreamTypes /\ GuestTypes /\ UNCHANGED <<act, left>>
  BY TypeParts, HostKept DEF host
<1>2. CASE CallStep
  BY <1>1, <1>2, CallKeeps DEF Copying, Sent, StoredBut, guest
<1>3. CASE GuestRestarts
  BY <1>3, <1>1, RestartFacts DEF Copying, Sent
<1>4. /\ Plain("copy", {f}).what = "copy" /\ Plain("copy", {f}).files = {f}
      /\ Plain("raw", {f}).what = "raw" /\ Plain("raw", {f}).files = {f}
      /\ \A F : Plain("copy", F).what = "copy" /\ Plain("copy", F).ok
      /\ \A F : Error("copy", F).what = "copy" /\ ~Error("copy", F).ok
  BY DEF Plain, Error
<1>5. CASE /\ toGuest = <<Plain("copy", {f}), Plain("raw", {f})>> /\ StoredBut(f)
           /\ at = "receive" /\ toHost = <<>>
  <2>1. Request = Plain("copy", {f}) /\ Tail(toGuest) = <<Plain("raw", {f})>>
    BY <1>5 DEF Request
  <2>2. GuestOpensFile \/ CallStep \/ GuestRestarts
    BY <1>4, <1>5, <2>1, GuestChoices
       DEF GuestAnswersCheck, GuestMistakesContent, GuestLists, GuestExecutes, Receives
  <2>3. CASE GuestOpensFile
    <3>1. toGuest' = <<Plain("raw", {f})>> /\ toHost' = <<>> /\ Request.files = {f}
      BY <1>4, <1>5, <2>1, <2>3 DEF GuestOpensFile
    <3>2. CASE Write(Error("copy", Request.files))
      BY <1>4, <3>1, <3>2 DEF Write, Copying, Sent
    <3>3. CASE at' = "content" /\ todo' = Request.files /\ stored' = stored \ Request.files
      <4>1. StoredBut(f)'
        BY <1>1, <1>5, <3>1, <3>3 DEF StoredBut
      <4> QED
        BY <3>1, <3>3, <4>1 DEF Copying, Sent
    <3> QED
      BY <2>3, <3>2, <3>3 DEF GuestOpensFile
  <2> QED
    BY <1>2, <1>3, <2>2, <2>3
<1>6. CASE /\ toGuest = <<Plain("raw", {f})>> /\ StoredBut(f)
           /\ at = "content" /\ todo = {f} /\ toHost = <<>>
  <2>1. Request = Plain("raw", {f}) /\ Tail(toGuest) = <<>>
    BY <1>6 DEF Request
  <2>2. GuestStoresFile \/ CallStep \/ GuestRestarts
    BY <1>4, <1>6, <2>1, GuestChoices DEF GuestMistakesRequest, GuestFindsEnd
  <2>3. CASE GuestStoresFile
    <3>1. toHost' = <<>>
      BY <1>6, <2>3 DEF GuestStoresFile
    <3>2. CASE /\ Write(Plain("copy", todo))
               /\ stored' = stored \cup (todo \cap Request.files)
               /\ toGuest' = Tail(toGuest)
      <4>1. AllStored'
        BY <1>1, <1>4, <1>6, <2>1, <3>2 DEF AllStored, StoredBut
      <4> QED
        BY <1>4, <2>1, <3>1, <3>2, <4>1 DEF Write, Copying
    <3>3. CASE Write(Error("copy", todo)) /\ UNCHANGED <<stored, toGuest>>
      BY <1>4, <1>6, <3>1, <3>3 DEF Write, Copying, Sent
    <3> QED
      BY <2>3, <3>2, <3>3 DEF GuestStoresFile
  <2> QED
    BY <1>2, <1>3, <2>2, <2>3
<1>7. CASE /\ toGuest = <<Plain("raw", {f})>>
           /\ at = "write" /\ out.what = "copy" /\ ~out.ok /\ toHost = <<>>
  <2>1. GuestWrites \/ CallStep \/ GuestRestarts
    BY <1>7, GuestChoices
  <2>2. CASE GuestWrites
    <3>1. toHost' = Append(toHost, out) /\ at' = "receive" /\ toGuest' = toGuest
      BY <1>7, <2>2 DEF GuestWrites
    <3>2. Len(toHost') = 1 /\ toHost'[1] = out
      BY <1>1, <1>7, <3>1, LastFacts DEF StreamTypes, GuestTypes
    <3> QED
      BY <1>7, <3>1, <3>2 DEF Copying, Copied
  <2> QED
    BY <1>2, <1>3, <2>1, <2>2
<1> QED
  BY <1>5, <1>6, <1>7 DEF Sent

LEMMA CopyingKept ==
    ASSUME TypeOK, GuestInv, Guest, pc = "copy", Copying
    PROVE  Copying'
<1>1. StreamTypes /\ GuestTypes /\ UNCHANGED <<act, left>>
  BY TypeParts, HostKept DEF host
<1>2. CASE \E f \in Files : Sent(f)
  BY <1>2, SentKept
<1>3. CASE /\ toGuest = <<>> /\ at = "write" /\ out.what = "copy" /\ toHost = <<>>
           /\ out.ok => AllStored
  <2>1. GuestWrites \/ CallStep \/ GuestRestarts
    BY <1>3, GuestChoices
  <2>2. CASE GuestWrites
    <3>1. /\ toHost' = Append(toHost, out) /\ at' = "receive" /\ toGuest' = toGuest
          /\ stored' = stored
      BY <1>3, <2>2 DEF GuestWrites
    <3>2. Len(toHost') = 1 /\ toHost'[1] = out
      BY <1>1, <1>3, <3>1, LastFacts DEF StreamTypes, GuestTypes
    <3> QED
      BY <1>1, <1>3, <3>1, <3>2 DEF Copying, Copied, Inert, AllStored
  <2>3. CASE CallStep
    BY <1>1, <1>3, <2>3, CallKeeps DEF Copying, AllStored, guest
  <2>4. CASE GuestRestarts
    BY <1>3, <2>4, RestartFacts DEF Copying
  <2> QED
    BY <2>1, <2>2, <2>3, <2>4
<1>4. CASE Copied
  <2>1. CASE Inert
    BY <1>1, <1>4, <2>1, InertStep, RestartFacts DEF Copying, Copied, AllStored, Inert
  <2>2. CASE ~Inert
    <3>1. /\ ~toHost[1].ok /\ at \in {"receive", "eating"}
          /\ toGuest = <<>> \/ \E f \in Files : toGuest = <<Plain("raw", {f})>>
      BY <1>4, <2>2 DEF Copied
    <3>2. \/ CallStep \/ GuestRestarts
          \/ /\ toGuest # <<>> /\ toGuest' = Tail(toGuest) /\ toHost' = toHost
             /\ at' \in {"receive", "eating"}
      <4>1. ASSUME toGuest # <<>>
            PROVE  Request.what = "raw"
        BY <3>1, <4>1 DEF Request, Plain
      <4> QED
        BY <3>1, <4>1, GuestChoices
           DEF GuestAnswersCheck, GuestOpensFile, GuestMistakesContent, GuestLists,
               GuestExecutes, Receives, GuestEats, GuestFindsEnd, guest
    <3>3. CASE CallStep
      BY <1>4, <2>2, <3>3, CallKeeps DEF Copying, Copied, Inert, guest
    <3>4. CASE GuestRestarts
      BY <1>4, <3>1, <3>4, RestartFacts DEF Copying, Copied, Inert
    <3>5. CASE /\ toGuest # <<>> /\ toGuest' = Tail(toGuest) /\ toHost' = toHost
               /\ at' \in {"receive", "eating"}
      <4>1. toGuest' = <<>>
        <5>1. PICK f \in Files : toGuest = <<Plain("raw", {f})>>
          BY <3>1, <3>5
        <5>2. Len(toGuest) = 1
          BY <5>1
        <5> QED
          BY <1>1, <3>5, <5>2, FirstFacts DEF StreamTypes
      <4> QED
        BY <1>4, <3>1, <3>5, <4>1 DEF Copying, Copied
    <3> QED
      BY <3>2, <3>3, <3>4, <3>5
  <2> QED
    BY <2>1, <2>2
<1>5. CASE Inert /\ toHost = <<>>
  BY <1>5, InertStep, RestartFacts DEF Copying
<1> QED
  BY <1>2, <1>3, <1>4, <1>5 DEF Copying


\* Nothing of the files is in the stream yet.
LEMMA StreamEmpty ==
    ASSUME toHost' = <<>>, todo' \subseteq left', at' = "write" => out'.what = "list"
    PROVE  Stream'
<1>1. ~ \E i \in 1 .. Len(toHost') : TRUE
  <2>1. Len(toHost') = 0
    OBVIOUS
  <2> QED
    BY <2>1
<1> QED
  BY <1>1 DEF Stream, Writes

\* The guest lists the files.
LEMMA ListingKept ==
    ASSUME TypeOK, HostInv, GuestInv, Guest, pc = "list",
           toGuest = <<Plain("list", act.files)>>, at = "receive", toHost = <<>>
    PROVE  Fetching'
<1>1. StreamTypes /\ UNCHANGED <<pc, act, left, got>> /\ left = act.files
  BY TypeParts, HostKept DEF host, HostInv
<1>2. /\ Plain("list", act.files).what = "list" /\ Plain("list", act.files).files = act.files
      /\ Error("list", act.files).what = "list" /\ ~Error("list", act.files).ok
  BY DEF Plain, Error
<1>3. Request = Plain("list", act.files) /\ Tail(toGuest) = <<>>
  BY DEF Request
<1>4. GuestLists \/ CallStep \/ GuestRestarts
  BY <1>2, <1>3, GuestChoices
     DEF GuestOpensFile, GuestMistakesContent, GuestAnswersCheck, GuestExecutes, Receives
<1>5. CASE GuestLists
  <2>1. /\ at' = "write" /\ out'.what = "list" /\ todo' \subseteq left' /\ toGuest' = <<>>
        /\ toHost' = <<>>
        /\ out'.ok => out'.files = act.files
    <3>1. CASE Write(Plain("list", Request.files)) /\ todo' = Request.files
      BY <1>1, <1>2, <1>3, <1>5, <3>1 DEF GuestLists, Write
    <3>2. CASE Write(Error("list", Request.files)) /\ UNCHANGED todo
      BY <1>1, <1>2, <1>3, <1>5, <3>2 DEF GuestLists, Write, GuestInv
    <3> QED
      BY <1>5, <3>1, <3>2 DEF GuestLists
  <2>2. Stream'
    BY <2>1, StreamEmpty
  <2>3. Listing(out)' /\ pc' = "list"
    BY <1>1, <2>1 DEF Listing
  <2> QED
    BY <2>1, <2>2, <2>3 DEF Fetching
<1>6. CASE CallStep
  BY <1>6, CallKeeps DEF Fetching, guest, host
<1>7. CASE GuestRestarts
  <2>1. toGuest' = <<>> /\ at' = "receive" /\ toHost' = <<>> /\ todo' = {}
    BY <1>7, RestartFacts DEF Inert
  <2>2. Stream'
    BY <2>1, StreamEmpty
  <2> QED
    BY <1>1, <2>1, <2>2 DEF Fetching
<1> QED
  BY <1>4, <1>5, <1>6, <1>7

\* What the guest has still to send shrinks, and what it writes next is none of the
\* files that are in the stream.
LEMMA StreamKept ==
    ASSUME Stream, toHost' = toHost, left' = left, todo' \subseteq todo,
           at' = "write" =>
              \/ Writes("list")'
              \/ Writes("raw")' /\ \E f \in todo \ todo' : out'.files = {f}
    PROVE  Stream'
<1>1. \A i \in 1 .. Len(toHost) : IsRaw(i)' <=> IsRaw(i)
  BY DEF IsRaw
<1>2. todo' \subseteq left' /\ todo \subseteq left
  BY DEF Stream
<1>3. at' = "write" => Writes("list")' \/ (Writes("raw")' /\ OneOf(out)')
  BY <1>2 DEF OneOf
<1>4. ASSUME NEW i \in 1 .. Len(toHost'), IsRaw(i)'
      PROVE  OneOf(toHost[i])' /\ (Writes("raw")' => toHost'[i].files # out'.files)
  <2>1. PICK g \in left \ todo : toHost[i].files = {g}
    BY <1>1, <1>4 DEF Stream, OneOf
  <2>2. OneOf(toHost[i])'
    BY <2>1 DEF OneOf
  <2>3. ASSUME Writes("raw")'
        PROVE  toHost'[i].files # out'.files
    <3>1. PICK f \in todo \ todo' : out'.files = {f}
      BY <2>3 DEF Writes
    <3> QED
      BY <2>1, <3>1
  <2> QED
    BY <2>2, <2>3
<1> QED
  BY <1>1, <1>2, <1>3, <1>4 DEF Stream

\* What the guest has written is the last in the stream.
LEMMA StreamWritten ==
    ASSUME StreamTypes, GuestTypes, Stream, at = "write", toHost' = Append(toHost, out),
           at' # "write", UNCHANGED <<left, todo, out>>
    PROVE  Stream'
<1>1. /\ Len(toHost) \in Nat /\ Len(toHost') = Len(toHost) + 1
      /\ \A i \in 1 .. Len(toHost) : toHost'[i] = toHost[i]
      /\ toHost'[Len(toHost) + 1] = out
  BY LastFacts DEF StreamTypes, GuestTypes
<1>2. out.what \in {"list", "raw"} /\ (out.what = "raw" => OneOf(out) /\ Writes("raw"))
  BY DEF Stream, Writes
<1>3. todo' \subseteq left' /\ ~Writes("raw")'
  BY DEF Stream, Writes
<1>4. ASSUME NEW i \in 1 .. Len(toHost')
      PROVE  toHost'[i].what \in {"list", "raw"} /\ (IsRaw(i)' => OneOf(toHost[i])')
  <2>1. CASE i \in 1 .. Len(toHost)
    BY <1>1, <2>1 DEF Stream, IsRaw, OneOf
  <2>2. CASE i = Len(toHost) + 1
    BY <1>1, <1>2, <2>2 DEF IsRaw, OneOf
  <2> QED
    BY <1>1, <2>1, <2>2
<1>5. ASSUME NEW i \in 1 .. Len(toHost'), IsRaw(i)',
             NEW j \in 1 .. Len(toHost'), IsRaw(j)', i # j
      PROVE  toHost'[i].files # toHost'[j].files
  <2>1. CASE i \in 1 .. Len(toHost) /\ j \in 1 .. Len(toHost)
    <3>1. IsRaw(i) /\ IsRaw(j)
      BY <1>1, <1>5, <2>1 DEF IsRaw
    <3> QED
      BY <1>1, <1>5, <2>1, <3>1 DEF Stream
  <2>2. CASE i \in 1 .. Len(toHost) /\ j = Len(toHost) + 1
    <3>1. IsRaw(i) /\ Writes("raw")
      BY <1>1, <1>2, <1>5, <2>2 DEF IsRaw
    <3> QED
      BY <1>1, <2>2, <3>1 DEF Stream
  <2>3. CASE j \in 1 .. Len(toHost) /\ i = Len(toHost) + 1
    <3>1. IsRaw(j) /\ Writes("raw")
      BY <1>1, <1>2, <1>5, <2>3 DEF IsRaw
    <3> QED
      BY <1>1, <2>3, <3>1 DEF Stream
  <2> QED
    BY <1>1, <1>5, <2>1, <2>2, <2>3
<1> QED
  BY <1>3, <1>4, <1>5 DEF Stream, Writes


LEMMA FetchingKept ==
    ASSUME TypeOK, HostInv, GuestInv, Guest, pc \in {"list", "files"}, Fetching
    PROVE  Fetching'
<1>1. StreamTypes /\ GuestTypes /\ UNCHANGED <<pc, act, left, got>>
  BY TypeParts, HostKept DEF host
<1>2. CASE /\ pc = "list" /\ toGuest = <<Plain("list", act.files)>>
           /\ at = "receive" /\ toHost = <<>>
  BY <1>2, ListingKept
<1>3. CASE /\ toGuest = <<>> /\ at \in {"receive", "write", "files"}
           /\ Stream
           /\ IF pc = "files"
              THEN act.files \subseteq got \cup left
              ELSE IF toHost = <<>>
              THEN at # "files" /\ (at = "write" => Listing(out))
              ELSE Listing(toHost[1])
  <2>1. CallStep \/ GuestRestarts \/ GuestSendsFile \/ GuestWrites
    BY <1>3, GuestChoices
  <2>2. CASE CallStep
    BY <1>1, <1>3, <2>2, CallKeeps DEF Fetching, Stream, IsRaw, OneOf, Writes, Listing, guest
  <2>3. CASE GuestRestarts
    <3>1. toGuest' = <<>> /\ at' = "receive" /\ toHost' = toHost /\ todo' = {}
      BY <2>3, RestartFacts DEF Inert
    <3>2. Stream'
      BY <1>1, <1>3, <3>1, StreamKept
    <3> QED
      BY <1>1, <1>3, <3>1, <3>2 DEF Fetching, Listing
  <2>4. CASE GuestSendsFile
    <3>1. PICK f \in todo :
            \/ Write(Plain("raw", {f})) /\ todo' = todo \ {f}
            \/ f \in Bad /\ Write(Error("list", todo)) /\ todo' = {}
      BY <2>4 DEF GuestSendsFile
    <3>2. /\ Plain("raw", {f}).what = "raw" /\ Plain("raw", {f}).files = {f}
          /\ Error("list", todo).what = "list"
      BY DEF Plain, Error
    <3>3. at = "files" /\ at' = "write" /\ toGuest' = <<>> /\ toHost' = toHost
      BY <1>3, <2>4, <3>1 DEF GuestSendsFile, Write
    <3>4. /\ todo' \subseteq todo
          /\ \/ Writes("list")'
             \/ Writes("raw")' /\ \E g \in todo \ todo' : out'.files = {g}
      BY <3>1, <3>2 DEF Write, Writes
    <3>5. Stream'
      BY <1>1, <1>3, <3>3, <3>4, StreamKept
    <3> QED
      BY <1>1, <1>3, <3>3, <3>5 DEF Fetching, Listing
  <2>5. CASE GuestWrites
    <3>1. /\ at = "write" /\ toHost' = Append(toHost, out) /\ UNCHANGED <<todo, out>>
          /\ toGuest' = <<>> /\ at' \in {"files", "receive"}
      <4>1. out.what # "pending"
        BY <1>3, <2>5 DEF GuestWrites, Stream, Writes
      <4> QED
        BY <1>3, <2>5, <4>1 DEF GuestWrites
    <3>2. Stream'
      BY <1>1, <1>3, <3>1, StreamWritten
    <3>3. toHost' # <<>>
      BY <1>1, <3>1, LastFacts DEF StreamTypes, GuestTypes
    <3>4. ASSUME pc = "list"
          PROVE  Listing(toHost[1])'
      <4>1. CASE toHost = <<>>
        <5>1. toHost'[1] = out /\ Listing(out)
          BY <1>1, <1>3, <3>1, <3>4, <4>1, LastFacts DEF StreamTypes, GuestTypes
        <5> QED
          BY <1>1, <5>1 DEF Listing
      <4>2. CASE toHost # <<>>
        <5>1. toHost'[1] = toHost[1] /\ Listing(toHost[1])
          BY <1>1, <1>3, <3>1, <3>4, <4>2, LastFacts, FirstFacts DEF StreamTypes, GuestTypes
        <5> QED
          BY <1>1, <5>1 DEF Listing
      <4> QED
        BY <4>1, <4>2
    <3> QED
      BY <1>1, <1>3, <3>1, <3>2, <3>3, <3>4 DEF Fetching
  <2> QED
    BY <2>1, <2>2, <2>3, <2>4, <2>5
<1> QED
  BY <1>2, <1>3 DEF Fetching

\* The command is run and its variables are returned.
LEMMA RunningKept ==
    ASSUME TypeOK, GuestInv, Guest, pc = "run", Running
    PROVE  Running'
<1>1. StreamTypes /\ GuestTypes /\ act' = act
  BY TypeParts, HostKept DEF host
<1>2. CASE GuestRestarts
  <2>1. /\ toGuest' = <<>> /\ at' = "receive" /\ toHost' = toHost /\ stored' = stored
        /\ acked' = NoVars
    BY <1>2, RestartFacts DEF Inert
  <2>2. \A i \in 1 .. Len(toHost) : toHost[i].what \in {"pending", "finished"}
    <3>1. CASE toHost = <<>>
      BY <3>1
    <3>2. CASE toHost # <<>>
      BY <3>2 DEF Running
    <3> QED
      BY <3>1, <3>2
  <2>3. \A item : Carries(item)'
    BY <2>1 DEF Carries, NoVars
  <2> QED
    BY <1>1, <2>1, <2>2, <2>3 DEF Running
<1>3. CASE /\ Len(toGuest) = 1 /\ toGuest[1].what = "execute"
           /\ at = "receive" /\ toHost = <<>>
  <2>1. toGuest # <<>>
    BY <1>3
  <2>2. Request.what = "execute" /\ Tail(toGuest) = <<>>
    BY <1>1, <1>3, <2>1, FirstFacts DEF StreamTypes, Request
  <2>3. GuestExecutes \/ CallStep \/ GuestRestarts
    BY <1>3, <2>2, GuestChoices
       DEF GuestOpensFile, GuestMistakesContent, GuestAnswersCheck, GuestLists, Receives
  <2>4. CASE GuestExecutes
    <3>1. toGuest' = <<>> /\ at' = "run" /\ toHost' = <<>> /\ stored' = stored
      BY <1>3, <2>2, <2>4 DEF GuestExecutes
    <3>2. ~ \E i \in 1 .. Len(toHost') : TRUE
      <4>1. Len(toHost') = 0
        BY <3>1
      <4> QED
        BY <4>1
    <3> QED
      BY <1>1, <3>1, <3>2 DEF Running
  <2>5. CASE CallStep
    BY <1>1, <1>3, <2>5, CallKeeps DEF Running, guest
  <2> QED
    BY <1>2, <2>3, <2>4, <2>5
<1>4. CASE /\ toGuest = <<>> /\ at \in {"receive", "write", "run", "ending"}
           /\ at = "write" => Writes("pending") \/ (Writes("finished") /\ Carries(out))
           /\ \A i \in 1 .. Len(toHost) :
                 \/ toHost[i].what = "pending"
                 \/ toHost[i].what = "finished" /\ Carries(toHost[i]) /\ at = "receive"
  <2>1. \/ CallStep \/ GuestRestarts \/ GuestWrites \/ CommandOutputs \/ CommandEnds
        \/ GuestLocks
    BY <1>4, GuestChoices
  <2>2. CASE CallStep
    <3>1. UNCHANGED <<toGuest, toHost, guest>> /\ holder # "handler"
      BY <2>2, CallKeeps
    <3>2. at \in {"run", "ending"} \/ Writes("pending")
      BY <3>1 DEF GuestInv
    <3> QED
      BY <1>1, <1>4, <3>1, <3>2 DEF Running, Writes, guest
  <2>3. CASE GuestWrites
    <3>1. /\ Len(toHost) \in Nat /\ Len(toHost') = Len(toHost) + 1
          /\ \A i \in 1 .. Len(toHost) : toHost'[i] = toHost[i]
          /\ toHost'[Len(toHost) + 1] = out
      BY <1>1, <2>3, LastFacts DEF GuestWrites, StreamTypes, GuestTypes
    <3>2. /\ at = "write" /\ toGuest' = <<>> /\ stored' = stored
          /\ acked' = acked /\ global_vars' = global_vars
          /\ out.what = "pending" => at' = "run"
          /\ out.what = "finished" => at' = "receive"
      BY <1>4, <2>3 DEF GuestWrites, context
    <3>3. out.what = "pending" \/ (out.what = "finished" /\ Carries(out))
      BY <1>4, <3>2 DEF Writes
    <3>4. ASSUME NEW i \in 1 .. Len(toHost')
          PROVE  \/ toHost'[i].what = "pending"
                 \/ toHost'[i].what = "finished" /\ Carries(toHost[i])' /\ at' = "receive"
      <4>1. CASE i \in 1 .. Len(toHost)
        BY <1>4, <3>1, <3>2, <4>1
      <4>2. CASE i = Len(toHost) + 1
        BY <3>1, <3>2, <3>3, <4>2 DEF Carries
      <4> QED
        BY <3>1, <4>1, <4>2
    <3> QED
      BY <1>1, <3>2, <3>3, <3>4 DEF Running
  <2>4. CASE CommandOutputs
    <3>1. Plain("pending", {}).what = "pending"
      BY DEF Plain
    <3> QED
      BY <1>1, <1>4, <2>4, <3>1 DEF CommandOutputs, Write, Writes, Running
  <2>5. CASE CommandEnds
    BY <1>1, <1>4, <2>5 DEF CommandEnds, Running
  <2>6. CASE GuestLocks
    <3>1. /\ out'.what = "finished" /\ out'.vars = ctx_vars /\ out'.globals = global_vars
          /\ at' = "write"
      BY <2>6 DEF GuestLocks, Write, GuestInv, TypeOK, Item
    <3>2. acked' = ctx_vars /\ global_vars' = global_vars
      BY <2>6 DEF GuestLocks, Lock, GuestInv
    <3>3. Carries(out)'
      BY <3>1, <3>2 DEF Carries
    <3> QED
      BY <1>1, <1>4, <2>6, <3>1, <3>3 DEF GuestLocks, Writes, Running
  <2> QED
    BY <1>2, <2>1, <2>2, <2>3, <2>4, <2>5, <2>6
<1> QED
  BY <1>3, <1>4 DEF Running

\* A step of the guest preserves the invariant.
LEMMA GuestStepInv ==
    ASSUME TypeOK, ChannelInv, Guest
    PROVE  ChannelInv'
<1>1. UNCHANGED <<pc, quiet, eating>>
  BY HostKept DEF host
<1>2. TypeOK' /\ HostInv' /\ GuestInv' /\ VariablesArrive'
  BY GuestStepTypes, HostInvKept, GuestInvKept, VariablesKept DEF ChannelInv
<1>3. ASSUME quiet
      PROVE  Phase'
  <2>1. Phase
    BY <1>3 DEF ChannelInv
  <2>2. CASE pc = "idle"
    BY <1>1, <2>1, <2>2, OverKept DEF Phase, ChannelInv
  <2>3. CASE pc \in {"check", "tmpdir", "recheck"}
    BY <1>1, <2>1, <2>3, AskedKept DEF Phase, ChannelInv
  <2>4. CASE pc = "copy"
    BY <1>1, <2>1, <2>4, CopyingKept DEF Phase, ChannelInv
  <2>5. CASE pc \in {"list", "files"}
    BY <1>1, <2>1, <2>5, FetchingKept DEF Phase, ChannelInv
  <2>6. CASE pc = "run"
    BY <1>1, <2>1, <2>6, RunningKept DEF Phase, ChannelInv
  <2> QED
    BY <2>2, <2>3, <2>4, <2>5, <2>6 DEF TypeOK, Requests
<1> QED
  BY <1>1, <1>2, <1>3 DEF ChannelInv


----------------------------------------------------------------------------
(* The theorems                                                            *)

LEMMA InitInv == Init => ChannelInv
<1>1. SUFFICES ASSUME Init
               PROVE  ChannelInv
  OBVIOUS
<1>2. TypeOK
  BY <1>1, InitTypes
<1>3. HostInv /\ GuestInv /\ VariablesArrive
  BY <1>1 DEF Init, ContextInit, HostInv, GuestInv, Writes, VariablesArrive
<1>4. Phase
  BY <1>1 DEF Init, Phase, Over
<1> QED
  BY <1>2, <1>3, <1>4 DEF ChannelInv

\* Whatever the guest does, and whenever it crashes or a time is up, as long as
\* nothing was in the way of an action there is one request or answer under way.
THEOREM ChannelConsistent == Spec => []ChannelInv
<1>1. ChannelInv /\ [Next]_vars => ChannelInv'
  <2>1. ASSUME ChannelInv
        PROVE  TypeOK
    BY <2>1 DEF ChannelInv
  <2>2. ASSUME ChannelInv, UNCHANGED vars
        PROVE  ChannelInv'
    <3>1. TypeOK'
      BY <2>2 DEF vars, host, guest, context, ChannelInv, TypeOK, ContextTypeOK
    <3>2. HostInv' /\ GuestInv' /\ VariablesArrive'
      BY <2>2 DEF vars, host, guest, context, ChannelInv, HostInv, GuestInv, Writes,
                  VariablesArrive
    <3>3. ASSUME quiet
          PROVE  Phase'
      <4>1. Phase /\ UNCHANGED vars
        BY <2>2, <3>3 DEF ChannelInv
      <4>2. Over' <=> Over
        BY <4>1 DEF vars, host, guest, Over, Inert
      <4>3. \A what : Asked(what)' <=> Asked(what)
        BY <4>1 DEF vars, host, guest, Asked, Inert
      <4>4. Copying' <=> Copying
        BY <4>1 DEF vars, host, guest, Copying, Sent, StoredBut, Copied, AllStored, Inert
      <4>5. Fetching' <=> Fetching
        BY <4>1 DEF vars, host, guest, Fetching, Stream, IsRaw, OneOf, Writes, Listing
      <4>6. Running' <=> Running
        BY <4>1 DEF vars, host, guest, context, Running, Writes, Carries
      <4> QED
        BY <4>1, <4>2, <4>3, <4>4, <4>5, <4>6 DEF vars, host, Phase
    <3> QED
      BY <2>2, <3>1, <3>2, <3>3 DEF ChannelInv, vars
  <2> QED
    BY <2>1, <2>2, HostStepInv, GuestStepInv DEF Next
<1> QED
  BY <1>1, InitInv, PTL DEF Spec

\* An answer is read as the answer to the request it answers.
THEOREM AnswersAreOwn == Spec => []AnswerIsOwn
<1>1. ChannelInv => AnswerIsOwn
  <2>1. SUFFICES ASSUME ChannelInv, quiet, toHost # <<>>
                 PROVE  Answer.what \in Awaited
    BY DEF AnswerIsOwn
  <2>2. /\ Phase /\ StreamTypes /\ Answer = toHost[1] /\ 1 \in 1 .. Len(toHost)
        /\ pc # "idle"
    BY <2>1, TypeParts, FirstFacts DEF ChannelInv, HostInv, StreamTypes, Answer
  <2>3. CASE pc \in {"check", "tmpdir", "recheck"}
    BY <2>1, <2>2, <2>3, AnswerOfAsked DEF Phase, Awaited
  <2>4. CASE pc = "copy"
    BY <2>1, <2>2, <2>4 DEF Phase, Copying, Copied, Sent, Awaited
  <2>5. CASE pc \in {"list", "files"}
    BY <2>1, <2>2, <2>5 DEF Phase, Fetching, Stream, Listing, Awaited
  <2>6. CASE pc = "run"
    BY <2>1, <2>2, <2>6 DEF Phase, Running, Awaited
  <2> QED
    BY <2>1, <2>2, <2>3, <2>4, <2>5, <2>6 DEF ChannelInv, TypeOK, Requests
<1> QED
  BY <1>1, ChannelConsistent, PTL

\* What has been copied is whole.
THEOREM CopiesArriveWhole == Spec => []CopiesAreWhole
<1>1. ChannelInv => CopiesAreWhole
  BY DEF ChannelInv, HostInv, Phase, Over, CopiesAreWhole
<1> QED
  BY <1>1, ChannelConsistent, PTL

\* The variables of a command that succeeded are those of the machine.
THEOREM VariablesReturn == Spec => []VariablesArrive
BY ChannelConsistent, PTL DEF ChannelInv

=============================================================================
