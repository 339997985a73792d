------------------------------- MODULE RPACache -------------------------------
(***************************************************************************)
(* bluetoothHash (hardware.go), called by many goroutines: one shared      *)
(* pointer caches the cipher of the most recently used key, and scratch    *)
(* buffers come from a sync.Pool.  Nothing is locked: every access to      *)
(* shared state is a step of its own.                                      *)
(***************************************************************************)
EXTENDS Naturals, FiniteSets

CONSTANTS
  Procs,    \* goroutines
  Keys,     \* identity resolving keys
  Prands,   \* the random parts they are hashed with
  Buffers,  \* the addresses a scratch buffer may be allocated at
  None      \* nil, zero bytes, no buffer, no result

(* An allocation always finds an address.                                  *)
ASSUME HeapAssumption ==
  /\ IsFiniteSet(Procs) /\ IsFiniteSet(Buffers)
  /\ Cardinality(Procs) <= Cardinality(Buffers)

VARIABLES
  stmt,      \* per goroutine: the statement it is about to execute
  irk,       \* its arguments
  prand,
  cipher,    \* the cipher it uses
  buf,       \* the buffer it holds
  hash,      \* what it is about to return
  rpaCache,  \* atomic.Pointer[rpaCipher]
  pool,      \* rpaScratch: the buffers that lie in it
  memory,    \* the two halves of every buffer
  alone,     \* history: no call with another key overlapped this call
  recent     \* history: the key of the newest such call, if none began since

hashVars == <<stmt, irk, prand, cipher, buf, hash, rpaCache, pool, memory, alone, recent>>

(* aes.NewCipher and the rpaCipher that remembers its key.                 *)
rpaCipher(k) == [irk |-> k, block |-> k]

(* What a cipher makes of a block: equal only for equal keys and inputs.   *)
Encrypted(block, r) == [key |-> block, prand |-> r]

ASSUME DistinctAssumption ==
  /\ None \notin Keys \union Prands \union Buffers
  /\ None \notin {rpaCipher(k) : k \in Keys}

Zeroed == [in |-> None, out |-> None]

-------------------------------------------------------------------------------

HashInit ==
  /\ stmt = [p \in Procs |-> "idle"]
  /\ irk = [p \in Procs |-> None]
  /\ prand = [p \in Procs |-> None]
  /\ cipher = [p \in Procs |-> None]
  /\ buf = [p \in Procs |-> None]
  /\ hash = [p \in Procs |-> None]
  /\ rpaCache = None
  /\ pool = {}
  /\ memory = [b \in Buffers |-> Zeroed]
  /\ alone = [p \in Procs |-> FALSE]
  /\ recent = None

Step(p, from, to) == stmt[p] = from /\ stmt' = [stmt EXCEPT ![p] = to]

Running(k) == {q \in Procs : stmt[q] # "idle" /\ irk[q] = k}

BeginHash(p, k, r) ==
  /\ Step(p, "idle", "load")
  /\ irk' = [irk EXCEPT ![p] = k]
  /\ prand' = [prand EXCEPT ![p] = r]
  /\ alone' = [q \in Procs |->
                 IF q = p THEN \A o \in Keys \ {k} : Running(o) = {}
                 ELSE alone[q] /\ (stmt[q] = "idle" \/ irk[q] = k)]
  /\ recent' = IF recent = k THEN k ELSE None
  /\ UNCHANGED <<cipher, buf, hash, rpaCache, pool, memory>>

(* Defect: any cached cipher is used.                                      *)
AnyCached(cached, k) == cached # None

(* Defect: a missing cipher is taken for a match.                          *)
NilIsCached(cached, k) == cached = None \/ cached.irk = k

(* The negation of  c == nil || c.irk != key                               *)
Cached(cached, k) == cached # None /\ cached.irk = k

Load(p) ==
  /\ \/ Cached(rpaCache, irk[p]) /\ Step(p, "load", "get")
     \/ ~Cached(rpaCache, irk[p]) /\ Step(p, "load", "store")
  /\ cipher' = [cipher EXCEPT ![p] = rpaCache]
  /\ UNCHANGED <<irk, prand, buf, hash, rpaCache, pool, memory, alone, recent>>

(* Defect: the new cipher is used but not cached.                          *)
StoreNothing(p) ==
  /\ Step(p, "store", "get")
  /\ cipher' = [cipher EXCEPT ![p] = rpaCipher(irk[p])]
  /\ rpaCache' = rpaCache
  /\ UNCHANGED <<irk, prand, buf, hash, pool, memory, alone, recent>>

(* The new cipher replaces whatever is cached by now.                      *)
Store(p) ==
  /\ Step(p, "store", "get")
  /\ cipher' = [cipher EXCEPT ![p] = rpaCipher(irk[p])]
  /\ rpaCache' = cipher'[p]
  /\ UNCHANGED <<irk, prand, buf, hash, pool, memory, alone, recent>>

Held == {buf[q] : q \in Procs} \ {None}

(* Defect: Get leaves the buffer in the pool.                              *)
GetShared(p) ==
  /\ Step(p, "get", "prepare")
  /\ \/ \E b \in pool : buf' = [buf EXCEPT ![p] = b] /\ UNCHANGED pool
     \/ \E b \in Buffers \ (pool \union Held) :
          /\ buf' = [buf EXCEPT ![p] = b]
          /\ UNCHANGED pool
  /\ UNCHANGED <<irk, prand, cipher, hash, rpaCache, memory, alone, recent>>

(* A buffer from the pool, as its last user left it, or a new one; the     *)
(* pool may well hold one that Get does not find.                          *)
Get(p) ==
  /\ Step(p, "get", "prepare")
  /\ \/ \E b \in pool :
          /\ buf' = [buf EXCEPT ![p] = b]
          /\ pool' = pool \ {b}
     \/ \E b \in Buffers \ (pool \union Held) :
          /\ buf' = [buf EXCEPT ![p] = b]
          /\ UNCHANGED pool
  /\ UNCHANGED <<irk, prand, cipher, hash, rpaCache, memory, alone, recent>>

(* clear(buf[:16]) and the three bytes of prand.                           *)
Prepare(p) ==
  /\ Step(p, "prepare", "encrypt")
  /\ memory' = [memory EXCEPT ![buf[p]].in = prand[p]]
  /\ UNCHANGED <<irk, prand, cipher, buf, hash, rpaCache, pool, alone, recent>>

Encrypt(p) ==
  /\ Step(p, "encrypt", "read")
  /\ memory' = [memory EXCEPT ![buf[p]].out = Encrypted(cipher[p].block, memory[buf[p]].in)]
  /\ UNCHANGED <<irk, prand, cipher, buf, hash, rpaCache, pool, alone, recent>>

(* The return value is computed before the deferred Put.                   *)
Read(p) ==
  /\ Step(p, "read", "put")
  /\ hash' = [hash EXCEPT ![p] = memory[buf[p]].out]
  /\ UNCHANGED <<irk, prand, cipher, buf, rpaCache, pool, memory, alone, recent>>

(* The deferred Put, and the return.                                       *)
Put(p) ==
  /\ Step(p, "put", "idle")
  /\ pool' = pool \union {buf[p]}
  /\ buf' = [buf EXCEPT ![p] = None]
  /\ recent' = IF alone[p] THEN irk[p] ELSE recent
  /\ irk' = [irk EXCEPT ![p] = None]
  /\ prand' = [prand EXCEPT ![p] = None]
  /\ cipher' = [cipher EXCEPT ![p] = None]
  /\ hash' = [hash EXCEPT ![p] = None]
  /\ alone' = [alone EXCEPT ![p] = FALSE]
  /\ UNCHANGED <<rpaCache, memory>>

(* The garbage collector empties pools as it likes; what is allocated at   *)
(* the address later is zero.                                              *)
Collect ==
  /\ \E b \in pool :
       /\ pool' = pool \ {b}
       /\ memory' = [memory EXCEPT ![b] = Zeroed]
  /\ UNCHANGED <<stmt, irk, prand, cipher, buf, hash, rpaCache, alone, recent>>

HashNext ==
  \/ \E p \in Procs, k \in Keys, r \in Prands : BeginHash(p, k, r)
  \/ \E p \in Procs : \/ Load(p) \/ Store(p) \/ Get(p) \/ Prepare(p)
                      \/ Encrypt(p) \/ Read(p) \/ Put(p)
  \/ Collect

HashSpec == HashInit /\ [][HashNext]_hashVars

-------------------------------------------------------------------------------

Ciphers == {rpaCipher(k) : k \in Keys}

Blocks == [key : Keys, prand : Prands]

(* Every variable has its type; whoever works on a buffer has one, and     *)
(* nobody encrypts with a missing cipher.                                  *)
TypeOK ==
  /\ stmt \in [Procs -> {"idle", "load", "store", "get", "prepare", "encrypt",
                       "read", "put"}]
  /\ irk \in [Procs -> Keys \union {None}]
  /\ prand \in [Procs -> Prands \union {None}]
  /\ cipher \in [Procs -> Ciphers \union {None}]
  /\ buf \in [Procs -> Buffers \union {None}]
  /\ hash \in [Procs -> Blocks \union {None}]
  /\ rpaCache \in Ciphers \union {None}
  /\ pool \subseteq Buffers
  /\ memory \in [Buffers -> [in : Prands \union {None}, out : Blocks \union {None}]]
  /\ alone \in [Procs -> BOOLEAN]
  /\ recent \in Keys \union {None}
  /\ \A p \in Procs : stmt[p] \in {"prepare", "encrypt", "read", "put"} <=> buf[p] # None
  /\ \A p \in Procs : stmt[p] \in {"get", "prepare", "encrypt"} => cipher[p] # None

(* "bluetoothHash returns ah(irk, prand)": the hash of the caller's own    *)
(* key and random part, whatever other calls cache or scribble meanwhile.  *)
HashIsOwn ==
  \A p \in Procs : stmt[p] = "put" => hash[p] = Encrypted(irk[p], prand[p])

(* A scratch buffer is one goroutine's or the pool's.                      *)
BuffersExclusive ==
  /\ \A p, q \in Procs : p # q /\ buf[p] # None => buf[p] # buf[q]
  /\ \A p \in Procs : buf[p] \notin pool

(* "rpaCipher caches the AES block for the most recently used IRK so       *)
(* repeated resolvable private addresses for one key allocate nothing":    *)
(* once a call returned that no call with another key overlapped, its key  *)
(* stays cached until a call with another key begins.                      *)
RecentKeyCached == recent # None => Cached(rpaCache, recent)
================================================================================
