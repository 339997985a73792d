---------------------------- MODULE ActiveProvider ----------------------------
(***************************************************************************)
(* The package's one piece of mutable global state (provider.go): the      *)
(* atomic pointer activeProvider, replaced by SetProvider and loaded once  *)
(* by every generator call.                                                *)
(*                                                                         *)
(* Two kinds of activity share it.  A scope is one activation of a         *)
(* function that replaces the provider for its duration, the way the       *)
(* README and the tests do,                                                *)
(*     previous := SetProvider(p); defer SetProvider(previous)             *)
(* or just sets it.  A caller is a goroutine inside a generator, which     *)
(* loads the provider and then draws one or more words from it (rejection  *)
(* loops decide how many).  Nothing orders the two but the atomic pointer. *)
(***************************************************************************)
EXTENDS Integers, Sequences, FiniteSets, SequencesExt

CONSTANTS
  Scopes,
  Callers,
  Providers,        \* what can be installed, DefaultProvider among them
  DefaultProvider,
  Nil,              \* the nil interface, accepted by SetProvider
  MaxSets,          \* bound: SetProvider calls in a behaviour
  MaxDraws          \* bound: words one generator call draws

ASSUME ProvidersAssumption ==
  /\ DefaultProvider \in Providers
  /\ Nil \notin Providers

ASSUME BoundsAssumption ==
  /\ MaxSets \in Nat
  /\ MaxDraws \in Nat \ {0}

VARIABLES
  active,      \* *activeProvider
  place,       \* per scope: "out", "opening", "inside", "closing", "setting"
  arg,         \* per scope: the provider its SetProvider call is installing
  prev,        \* per scope: its local variable previous
  call,        \* per caller: "out", "entered" (not loaded yet) or "drawing"
  snapshot,    \* per caller: the provider currentProvider() returned
  used,        \* per caller: the provider each word of this call came from
  installed,   \* history: every provider ever active, in order
  returned,    \* history: what each SetProvider returned, in order
  open,        \* history: the scopes inside, in the order they opened
  base,        \* history: the provider set while no scope was open
  nested,      \* history: scopes have closed in the reverse order of opening
  window       \* history, per caller: the providers active during this call

settings == <<active, place, arg, prev, installed, returned, open, base, nested>>
calls == <<call, snapshot, used>>
activeVars == <<settings, calls, window>>

-------------------------------------------------------------------------------
(* SetProvider                                                             *)

(* Defect: nil is installed as it is.                                      *)
ResolveKeepsNil(p) == p

(* A nil provider restores DefaultProvider.                                *)
Resolve(p) == IF p = Nil THEN DefaultProvider ELSE p

(* Defect: SetProvider returns what it installed.                          *)
ResultIsNew(s) == arg[s]

(* What SetProvider returns if it swaps now.                               *)
Result(s) == active

(* Defect: the old pointer is loaded and the new one stored afterwards, so *)
(* another call may have stored in between.                                *)
LoadThenStore(s) ==
  /\ active' = arg[s]
  /\ installed' = Append(installed, arg[s])
  /\ \E k \in DOMAIN installed :
       k + 1 >= Len(installed) /\ returned' = Append(returned, installed[k])
  /\ window' = [c \in Callers |->
                  window[c] \union (IF call[c] = "out" THEN {} ELSE {arg[s]})]

(* activeProvider.Swap(&provider), one atomic instruction.                 *)
Swap(s) ==
  /\ active' = arg[s]
  /\ installed' = Append(installed, arg[s])
  /\ returned' = Append(returned, Result(s))
  /\ window' = [c \in Callers |->
                  window[c] \union (IF call[c] = "out" THEN {} ELSE {arg[s]})]

SetsBegun == Len(returned) +
             Cardinality({s \in Scopes : place[s] \in {"opening", "setting"}}) +
             Cardinality({s \in Scopes :
                            place[s] \in {"opening", "inside", "closing"}})

(* Begin SetProvider(p) in scope s.  The bound leaves room for the call    *)
(* that closes the scope.                                                  *)
Begin(s, p, to) ==
  /\ arg' = [arg EXCEPT ![s] = Resolve(p)]
  /\ place' = [place EXCEPT ![s] = to]
  /\ UNCHANGED <<active, prev, installed, returned, open, base, nested, calls, window>>

Open(s, p) ==
  /\ place[s] = "out"
  /\ SetsBegun + 2 <= MaxSets
  /\ Begin(s, p, "opening")

Set(s, p) ==
  /\ place[s] = "out"
  /\ SetsBegun + 1 <= MaxSets
  /\ Begin(s, p, "setting")

(* The deferred SetProvider(previous).                                     *)
Close(s) ==
  /\ place[s] = "inside"
  /\ Begin(s, prev[s], "closing")

OpenSwaps(s) ==
  /\ place[s] = "opening"
  /\ Swap(s)
  /\ place' = [place EXCEPT ![s] = "inside"]
  /\ prev' = [prev EXCEPT ![s] = Result(s)]
  /\ open' = Append(open, s)
  /\ UNCHANGED <<arg, base, nested, calls>>

SetSwaps(s) ==
  /\ place[s] = "setting"
  /\ Swap(s)
  /\ place' = [place EXCEPT ![s] = "out"]
  /\ base' = IF open = <<>> THEN arg[s] ELSE base
  /\ UNCHANGED <<arg, prev, open, nested, calls>>

(* Closing anything but the most recently opened scope breaks the nesting. *)
CloseSwaps(s) ==
  /\ place[s] = "closing"
  /\ Swap(s)
  /\ place' = [place EXCEPT ![s] = "out"]
  /\ \E k \in DOMAIN open :
       /\ open[k] = s
       /\ open' = RemoveAt(open, k)
       /\ nested' = (nested /\ k = Len(open))
  /\ UNCHANGED <<arg, prev, base, calls>>

-------------------------------------------------------------------------------
(* Generator calls                                                         *)

Enter(c) ==
  /\ call[c] = "out"
  /\ call' = [call EXCEPT ![c] = "entered"]
  /\ used' = [used EXCEPT ![c] = <<>>]
  /\ window' = [window EXCEPT ![c] = {active}]
  /\ UNCHANGED <<settings, snapshot>>

(* p := currentProvider()                                                  *)
Load(c) ==
  /\ call[c] = "entered"
  /\ call' = [call EXCEPT ![c] = "drawing"]
  /\ snapshot' = [snapshot EXCEPT ![c] = active]
  /\ UNCHANGED <<settings, used, window>>

(* Defect: every draw asks for the active provider again.                  *)
DrawFromActive(c) ==
  /\ call[c] = "drawing"
  /\ Len(used[c]) < MaxDraws
  /\ used' = [used EXCEPT ![c] = Append(@, active)]
  /\ UNCHANGED <<settings, call, snapshot, window>>

(* p.Sum64(), the first or a further one of the call.                      *)
Draw(c) ==
  /\ call[c] = "drawing"
  /\ Len(used[c]) < MaxDraws
  /\ used' = [used EXCEPT ![c] = Append(@, snapshot[c])]
  /\ UNCHANGED <<settings, call, snapshot, window>>

Return(c) ==
  /\ call[c] = "drawing"
  /\ used[c] # <<>>
  /\ call' = [call EXCEPT ![c] = "out"]
  /\ UNCHANGED <<settings, snapshot, used, window>>

-------------------------------------------------------------------------------

ActiveInit ==
  /\ active = DefaultProvider
  /\ place = [s \in Scopes |-> "out"]
  /\ arg = [s \in Scopes |-> DefaultProvider]
  /\ prev = [s \in Scopes |-> DefaultProvider]
  /\ call = [c \in Callers |-> "out"]
  /\ snapshot = [c \in Callers |-> DefaultProvider]
  /\ used = [c \in Callers |-> <<>>]
  /\ installed = <<DefaultProvider>>
  /\ returned = <<>>
  /\ open = <<>>
  /\ base = DefaultProvider
  /\ nested = TRUE
  /\ window = [c \in Callers |-> {}]

ActiveNext ==
  \/ \E s \in Scopes :
       \/ \E p \in Providers \union {Nil} : Open(s, p) \/ Set(s, p)
       \/ Close(s)
       \/ OpenSwaps(s)
       \/ SetSwaps(s)
       \/ CloseSwaps(s)
  \/ \E c \in Callers : Enter(c) \/ Load(c) \/ Draw(c) \/ Return(c)

ActiveSpec == ActiveInit /\ [][ActiveNext]_activeVars

-------------------------------------------------------------------------------

ActiveTypeOK ==
  /\ active \in Providers
  /\ place \in [Scopes -> {"out", "opening", "inside", "closing", "setting"}]
  /\ arg \in [Scopes -> Providers]
  /\ prev \in [Scopes -> Providers]
  /\ call \in [Callers -> {"out", "entered", "drawing"}]
  /\ snapshot \in [Callers -> Providers]
  /\ used \in [Callers -> Seq(Providers)]
  /\ installed \in Seq(Providers)
  /\ returned \in Seq(Providers)
  /\ open \in Seq(Scopes)
  /\ base \in Providers
  /\ nested \in BOOLEAN
  /\ window \in [Callers -> SUBSET Providers]

(* SetProvider "atomically swaps it and returns the prior provider": the   *)
(* k-th call to take effect returns exactly the provider the (k-1)-th      *)
(* installed.  Concurrent calls lose no provider and return none twice.    *)
SwapChain ==
  /\ Len(installed) = Len(returned) + 1
  /\ \A k \in DOMAIN returned : returned[k] = installed[k]
  /\ active = installed[Len(installed)]

(* A generator call is served by one provider from its first word to its   *)
(* last, and by one that was active while the call ran, though SetProvider *)
(* replaces the provider in the middle of it.                              *)
OneProviderPerCall ==
  \A c \in Callers :
    call[c] # "out" =>
      \A i, j \in DOMAIN used[c] :
        used[c][i] = used[c][j] /\ used[c][i] \in window[c]

(* Scopes that close in the reverse order of opening leave the provider    *)
(* as it was set outside of any scope, whatever is set inside them.        *)
NestedScopesRestore ==
  nested /\ open = <<>> => active = base
================================================================================
