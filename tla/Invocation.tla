----------------------------- MODULE Invocation -----------------------------
(***************************************************************************)
(* How the margin program marks the CPI it is making, so that an adapter   *)
(* can tell that it was called directly by the margin program on behalf of *)
(* a given margin account.                                                 *)
(*                                                                         *)
(* Every margin account carries `invocation.caller_heights`, a bit set of  *)
(* call-stack heights. `adapter::invoke` inserts the current height before *)
(* the CPI and removes it after, then applies the adapter's return data.   *)
(* An adapter writes that data with `write_adapter_result`, which first    *)
(* checks that the frame just below its own is marked in the account.      *)
(*                                                                         *)
(* The call stack, the reentrancy rule (a program may only be re-entered   *)
(* by calling itself), the return-data register and the rollback of a      *)
(* failed transaction belong to the Solana runtime (external).             *)
(***************************************************************************)
EXTENDS Integers, FiniteSets

CONSTANTS
    Accounts,       \* margin accounts
    Margin,         \* the margin program
    Adapters,       \* programs that have an adapter config
    Others,         \* any other program: wallets' proxies, token program...
    MaxHeight       \* runtime bound on the call stack

ASSUME InvocationAssumption ==
    /\ MaxHeight \in 1 .. 7
    /\ Margin \notin Others

Programs == {Margin} \cup Adapters \cup Others

NoAccount == "none"

\* The return data register when nothing is in it.
NoData == [by |-> Margin, for |-> NoAccount]

ASSUME NoAccountAssumption == NoAccount \notin Accounts

Heights == 1 .. MaxHeight

VARIABLES
    height,         \* sys().get_stack_height(); 0 between instructions
    program,        \* program[h]: the program of the frame at height h
    invoking,       \* invoking[h]: the account frame h is in invoke() for
    caller_heights, \* caller_heights[a]: Invocation.caller_heights of a
    return_data,    \* the return data register: who set it, for which account
    saved           \* caller_heights as committed by the last transaction

vars == <<height, program, invoking, caller_heights, return_data, saved>>

ReturnData == [by : Programs, for : Accounts \cup {NoAccount}]

TypeOK ==
    /\ height \in 0 .. MaxHeight
    /\ program \in [Heights -> Programs]
    /\ invoking \in [Heights -> Accounts \cup {NoAccount}]
    /\ caller_heights \in [Accounts -> SUBSET (0 .. 7)]
    /\ return_data \in ReturnData
    /\ saved \in [Accounts -> SUBSET (0 .. 7)]

Init ==
    /\ height = 0
    /\ program = [h \in Heights |-> Margin]
    /\ invoking = [h \in Heights |-> NoAccount]
    /\ caller_heights = [a \in Accounts |-> {}]
    /\ return_data = NoData
    /\ saved = [a \in Accounts |-> {}]

-----------------------------------------------------------------------------
(* util.rs: struct Invocation over BitSet(u8).                             *)

\* BitSet::insert panics when the bit does not fit the byte.
Fits(n) == n <= 7

\* Invocation::start at stack height h, in the account's set s.
Start(s, h) == s \cup {h}

\* Slip: the mark is not cleared after the CPI.
End_keeps(s, h) == s

\* Invocation::end at stack height h.
End(s, h) == s \ {h}

\* Slip: any ancestor that marked the account will do.
DirectlyInvoked_anywhere(a, h) == \E n \in caller_heights[a] : n < h

\* Invocation::directly_invoked, seen from stack height h.
DirectlyInvoked(a, h) == h # 0 /\ (h - 1) \in caller_heights[a]

-----------------------------------------------------------------------------
(* The runtime's side of a call (external).                                *)

\* A program already on the stack may be entered again only from itself.
MayEnter(p) ==
    \/ \A h \in 1 .. height : program[h] # p
    \/ height > 0 /\ program[height] = p

\* Push a frame for p; the runtime empties the return data on entry.
Push(p) ==
    /\ height < MaxHeight
    /\ MayEnter(p)
    /\ height' = height + 1
    /\ program' = [program EXCEPT ![height + 1] = p]
    /\ return_data' = NoData

\* An instruction of a transaction enters at height 1.
TopLevel(p) ==
    /\ height = 0
    /\ Push(p)
    /\ UNCHANGED <<invoking, caller_heights, saved>>

\* A plain CPI of a program (also of the margin program, to the token
\* program for instance): nothing is marked.
PlainCpi(p) ==
    /\ height > 0
    /\ program[height] # Margin \/ p \in Others
    /\ Push(p)
    /\ UNCHANGED <<invoking, caller_heights, saved>>

\* The transaction succeeds: its writes are kept.
Commit ==
    /\ height = 0
    /\ saved' = caller_heights
    /\ return_data' = NoData
    /\ UNCHANGED <<height, program, invoking, caller_heights>>

\* An error or a panic anywhere, in any frame: a CPI error cannot be caught,
\* the whole transaction is undone.
Abort ==
    /\ height' = 0
    /\ invoking' = [h \in Heights |-> NoAccount]
    /\ caller_heights' = saved
    /\ return_data' = NoData
    /\ UNCHANGED <<program, saved>>

-----------------------------------------------------------------------------
(* The margin program and the adapters.                                    *)

\* adapter::invoke on account a, up to the CPI: mark the height, then call.
\* adapter_program may be any program with an adapter config, the margin
\* program itself included.
Invoke(a, p) ==
    /\ height > 0
    /\ program[height] = Margin
    /\ Fits(height)
    /\ caller_heights' = [caller_heights EXCEPT ![a] = Start(@, height)]
    /\ invoking' = [invoking EXCEPT ![height] = a]
    /\ Push(p)
    /\ UNCHANGED saved

\* write_adapter_result(a): refused unless a is directly invoked.
WriteAdapterResult(a) ==
    /\ height > 0
    /\ DirectlyInvoked(a, height)
    /\ return_data' = [by |-> program[height], for |-> a]
    /\ UNCHANGED <<height, program, invoking, caller_heights, saved>>

\* The account the frame below the running one is in invoke() for.
CallerInvoking == IF height > 1 THEN invoking[height - 1] ELSE NoAccount

\* The frame on top returns to a caller that is not inside invoke().
Return ==
    /\ height > 0
    /\ CallerInvoking = NoAccount
    /\ height' = height - 1
    /\ UNCHANGED <<program, invoking, caller_heights, return_data, saved>>

\* handle_adapter_result takes the return data when the invoked adapter is
\* the program that set it.
ResultTaken ==
    /\ return_data.for # NoAccount
    /\ return_data.by = program[height]

\* The adapter returns into adapter::invoke, which unmarks the height,
\* applies the result and clears the return data.
ReturnToInvoke ==
    /\ CallerInvoking # NoAccount
    /\ caller_heights' = [caller_heights EXCEPT
                            ![CallerInvoking] = End(@, height - 1)]
    /\ invoking' = [invoking EXCEPT ![height - 1] = NoAccount]
    /\ height' = height - 1
    /\ return_data' = NoData
    /\ UNCHANGED <<program, saved>>

Next ==
    \/ \E p \in Programs : TopLevel(p) \/ PlainCpi(p)
    \/ \E a \in Accounts, p \in Adapters : Invoke(a, p)
    \/ \E a \in Accounts : WriteAdapterResult(a)
    \/ Return \/ ReturnToInvoke
    \/ Commit \/ Abort

Spec == Init /\ [][Next]_vars

-----------------------------------------------------------------------------
(* Properties.                                                             *)

\* Frames above the top hold no invocation, and only the frames below the
\* top can be inside adapter::invoke.
OnlyCallersInvoke ==
    \A h \in Heights : invoking[h] # NoAccount =>
        h < height /\ program[h] = Margin

\* The bit set of an account holds exactly the heights of the frames that
\* are inside adapter::invoke for it.
MarksAreCallers ==
    \A a \in Accounts :
        caller_heights[a] = {h \in Heights : invoking[h] = a}

\* verify_directly_invoked is exact: whatever the nesting, it accepts in the
\* running frame if and only if the frame just below it is the margin
\* program inside adapter::invoke for that very account.
DirectlyInvokedIsExact ==
    \A a \in Accounts :
        DirectlyInvoked(a, height) <=>
            /\ height > 1
            /\ program[height - 1] = Margin
            /\ invoking[height - 1] = a

\* "Must normally be zeroed, except during an invocation" (account.rs:53):
\* no mark survives an instruction or a rolled back transaction.
ZeroedOutsideInvocation ==
    /\ height = 0 => \A a \in Accounts : caller_heights[a] = {}
    /\ \A a \in Accounts : saved[a] = {}

\* A result is only ever applied to the account it was written for: data
\* written for one account, or left over from an earlier CPI of the same
\* adapter, never reaches another account's positions.
ResultReachesItsAccount ==
    [][ReturnToInvoke /\ ResultTaken =>
          return_data.for = CallerInvoking]_vars

\* Return data is pending only in the frame that wrote it, on top of the
\* invoke() it was written for: a return takes it or leaves none.
DataIsPending ==
    return_data.for # NoAccount => CallerInvoking = return_data.for

\* Everything the safety of the marks rests on, as one inductive invariant.
MarksInv ==
    /\ TypeOK
    /\ OnlyCallersInvoke
    /\ MarksAreCallers
    /\ \A a \in Accounts : saved[a] = {}

=============================================================================
