----------------------------- MODULE ExecContext ----------------------------
(***************************************************************************)
(* The variables of a running command in the guest additions service.  Two *)
(* threads share them: the handler of the host's requests, which owns the  *)
(* mutex except while a command runs, and the handler of                   *)
(* testo-guest-additions-cli, which only tries to lock it.                 *)
(* Source: testo_guest_additions/src/MessageHandler.cpp, MainLinux.cpp.    *)
(***************************************************************************)
CONSTANTS
    Names,    \* names of variables
    Values,   \* their values
    NoValue   \* the variable is not there

ASSUME NoValueAssumption == NoValue \notin Values

VARIABLES
    holder,       \* who has locked the mutex: "handler", "cli" or "nobody"
    ctx_vars,     \* ExecuteContext::vars
    global_vars,  \* ExecuteContext::global_vars
    call          \* the call of the command line tool that has the lock

context == <<holder, ctx_vars, global_vars, call>>

VarMap == [Names -> Values \cup {NoValue}]
NoVars == [x \in Names |-> NoValue]

\* set_var, or get_var if there is no value.
Calls == [name : Names, value : Values \cup {NoValue}, global : BOOLEAN]
NoCall == [name |-> {}, value |-> NoValue, global |-> FALSE]

ContextInit ==
    /\ holder = "handler"
    /\ ctx_vars = NoVars /\ global_vars = {}
    /\ call = NoCall

\* ExecuteContext::unlock: before the command is started.
Unlock(given) ==
    /\ holder = "handler"
    /\ holder' = "nobody"
    /\ ctx_vars' = given
    /\ global_vars' = {}
    /\ UNCHANGED call

\* ExecuteContext::lock: when it has ended, as soon as no call has the lock.
Lock ==
    /\ holder = "nobody"
    /\ holder' = "handler"
    /\ UNCHANGED <<ctx_vars, global_vars, call>>

\* (mutant) The outcome of try_lock is not looked at.
LockAnyway(c) ==
    /\ call = NoCall
    /\ holder' = "cli"
    /\ call' = c
    /\ UNCHANGED <<ctx_vars, global_vars>>

\* Any process of the guest may call the tool, calls are served one at a time.
\* Without the lock the call is answered with an error and nothing changes.
TryLock(c) ==
    /\ holder = "nobody"
    /\ holder' = "cli"
    /\ call' = c
    /\ UNCHANGED <<ctx_vars, global_vars>>

ServeCall ==
    /\ holder = "cli"
    /\ IF call.value = NoValue
       THEN UNCHANGED <<ctx_vars, global_vars>>
       ELSE /\ ctx_vars' = [ctx_vars EXCEPT ![call.name] = call.value]
            /\ global_vars' = IF call.global THEN global_vars \cup {call.name} ELSE global_vars
    /\ holder' = "nobody"
    /\ call' = NoCall

\* (mutant) A call outlives the service.
RestartKeepingCall ==
    /\ holder' = "handler"
    /\ ctx_vars' = NoVars /\ global_vars' = {}
    /\ UNCHANGED call

\* The service is started again.
ContextRestart ==
    /\ holder' = "handler"
    /\ ctx_vars' = NoVars /\ global_vars' = {}
    /\ call' = NoCall

ContextTypeOK ==
    /\ holder \in {"handler", "cli", "nobody"}
    /\ ctx_vars \in VarMap /\ global_vars \subseteq Names
    /\ IF holder = "cli" THEN call \in Calls ELSE call = NoCall

Session == INSTANCE VarSession WITH
    open <- holder # "handler", value <- ctx_vars, spread <- global_vars

=============================================================================
