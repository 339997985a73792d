# A verification project for randomizer

`randomizer` is a Go package of stateless generators - integers, words,
network addresses, telecom identifiers - over one replaceable source of random
words, the active `Provider`. This directory holds TLA+ models of the parts
where it can go wrong without a test noticing, the TLC runs that check them on
small instances, and proofs of their main properties for all instances.

## Inventory

| Component | State | Operations | Meets others through | What is hard | What makes it correct |
|---|---|---|---|---|---|
| Active provider (`provider.go`) | `activeProvider`, an atomic pointer | `SetProvider`, `currentProvider`, `Read` | every generator loads it once per call | swaps concurrent with calls and with each other; scopes that restore | a swap returns its predecessor's provider; one provider per call; nested scopes restore |
| Seeded provider (`provider.go`) | one atomic counter | `Sum`, `Sum32`, `Sum64`, `Read` | generators of all goroutines at once | a `Read` of several words is overtaken between words; wrap-around | one reproducible stream, no word lost or used twice, bytes from own words |
| `hashPool` (`hashpool.go`) | the same counter, a `sync.Pool` of hashes | the same, `Get`, `Put` | the same; a nil receiver works too | the same; hashes shared by misuse | the same; a hash is one user's or the pool's |
| Runtime provider | none | the Go runtime's generator | default provider | nothing | words are arbitrary |
| Reader provider | the caller's reader | `Read`, `Sum*` | a shared `io.Reader` | short reads, errors within a word, interleaved reads | a word is complete or an error is raised |
| Bounded integers (`number.go`) | none between calls | `boundedFrom`, `Int`, `Uint`, `IntInterval`, `UintInterval` | draws from the provider; used by all address and word generators | rejection loop, signs, wrap-around, narrow types | exact uniformity; exactly the interval |
| Words (`word.go`) | `batchSpecs`, `alphabets`, constant tables | `String`, `Bytes`, `Append`, `Custom*` | bounded draw, provider | many digits from one word, judged only after they are written | no adjacent duplicates, uniform, a rejected word leaves nothing |
| Resolvable private addresses (`hardware.go`) | `rpaCache`, `rpaScratch` | `bluetoothHash` | called by `Hardware` in any goroutine | an unlocked cache and pooled scratch buffers | the hash of the caller's own key; no shared buffer; the cache serves repeats |
| Hardware addresses (`hardware.go`, `network.go`) | none | `Hardware` | provider, OUI table, `bluetoothHash` | reserved values, bits used twice, `dst` overlapping inputs | the bit rules of each kind |
| IP addresses (`ip.go`, `netaddr.go`) | none | `IP`, `Addr`, `IPv6EUI64` | provider, bounded draw | two candidates per word, redraws, reserved blocks, a MAC inside `dst` | in a block of its kind and in no reserved one; the first usable candidate |
| CIDR blocks (`cidr.go`, `netaddr.go`) | none | `CIDR`, `Prefix`, `IPInCIDR`, `AddrIn` | provider; the caller's network | boundary lengths, odd masks, the network's IP as `dst` | canonical prefixes; an address inside its prefix |
| Values (`value.go`) | none | `Value` | bounded draw | skipped and reserved numbers | exactly the documented range |
| Telecom (`telecom.go`) | none | `String`, `Append` | bounded draw | digit groups, Luhn check digit | valid check digit and layout |
| OUI table (`oui_table.go`, `internal/ouigen`) | generated constant | the generator command | `realOUI` | file and network I/O | - |

`PROJECT.json` lists for each component whether it is modelled, and every
hazard with its line and the properties aimed at it.

## Modules

    WordStream   abstract: one stream of words, each handed to somebody
      ^ implemented by
    SharedCounter -> ProviderProofs             MCSharedCounter, SharedCounter.cfg
    ActiveProvider -> ProviderProofs            MCActiveProvider, ActiveProvider.cfg
    Mul64
      ^ extended by
    Bounded -> SamplingProofs                   MCBounded, Bounded.cfg
    WordFill -> SamplingProofs                  MCWordFill, WordFill.cfg,
                                                WordFillWeights.cfg
    RPACache -> HardwareProofs                  MCRPACache, RPACache.cfg
    ReaderProvider -> ReaderProviderProofs      MCReaderProvider, ReaderProvider.cfg
    CIDR -> CIDRProofs                          MCCIDR, CIDR.cfg
    Octets
      ^ extended by
    Hardware -> HardwareProofs                  MCHardware, Hardware.cfg
    Network -> NetworkProofs                    MCNetwork, Network.cfg,
                                                NetworkIANA.cfg
    Telecom -> TelecomProofs                    MCTelecom, Telecom.cfg

An operator whose comment begins with "Defect:" is not part of a model: it is
the form a plausible bug would give the definition that follows it, kept to
show that the properties would notice.

### SharedCounter

`uint64Provider`, and the same path of `hashPool`. `state.Add(gamma)` is the
only access to shared memory, hence the only step goroutines can interleave
at: `Sum` (here `SumBytes`), `Sum64` and `Sum32` are one step, a `Read` is begun (`Read`), fills whole
words (`FillWord`), then the tail (`FillTail`), and returns (`ReadReturns`). A
byte is the pair of its word and its place in it. The avalanche is a constant,
any injective function; gamma is any full-period increment.

`DrawsFollowStream` is the reproducibility the doc comment promises;
`NoWordTwice` says no word serves two callers within a period; `ResultsMatchDraws` says whose words, in which order and which end of
them, a result consists of; `ImplementsStream` is the refinement of
`WordStream`, mapping the log of draws to the words handed out. No liveness is
stated: a `Read` counts down a buffer and waits for nobody.

### ActiveProvider

`SetProvider` resolves nil (`Open`, `Set`, `Close`) and then swaps in one
atomic instruction (`OpenSwaps`, `SetSwaps`, `CloseSwaps`). Two uses are
modelled: setting a provider, and the documented scope
`previous := SetProvider(p); defer SetProvider(previous)`. A generator call is
`Enter`, `Load` (`currentProvider()`), one or more `Draw`, and `Return`; how
many words it draws is up to its rejection loops and here arbitrary.

`SwapChain` says concurrent calls lose no provider and return none twice.
`OneProviderPerCall` says a call in the middle of which the provider is
replaced goes on with the one it loaded, which was active during the call.
`NestedScopesRestore` is the scope discipline: if scopes have closed in
reverse order, then outside of all scopes the provider is the one last set
there. If they have not - parallel tests that replace the provider - nothing
restores it; the model has these behaviours and the code promises nothing for
them.

### Mul64 and Bounded

`Mul64` is `bits.Mul64` and the tests of Lemire's method on words below `W`.
`Bounded` has a state for each point where the code draws: the first word
(`Draw`), the slow path's further words (`Redraw`), its end (`Accept`). Integer
types are given by their number of values; conversions wrap as Go's do.

`WordsUniform` is exactness: each of the n values has `W \div n` accepted
words, and the fast path takes no word the loop would reject.
`IntervalCovered` says the values reached from the n draws are the interval's,
all of them and no others. `ResultFromAcceptedWord` relates the result to the
last word drawn. `DrawTerminates` assumes that the call is scheduled (weak
fairness) and that the provider sooner or later yields an accepted word
(strong fairness of `Redraw` with one). The second is a demand on providers: a
random one meets it, one that repeats a rejected word for ever does not, and
then the code does not return either.

### WordFill

`appendCustom` refuses or starts (`Refuse`, `Start`). `fillBatchedNoRepeat`
draws the first symbol (`First`), then per random word: remembers where it is
(`DrawWord`), peels digits one at a time (`Digit`), and takes everything back
(`RejectWord`) or goes on (`AcceptWord`). `fillWideNoRepeat` is `WideFirst` and
`WideNext`. `batchSpecs` is computed as `newBatchSpec` does. The built-in
alphabets, which skip `appendCustom`'s checks, are dictionaries of different
symbols and pass them.

`NoAdjacentDuplicates` holds at every step, not only at the end, and includes
that the word is complete. `RejectionRestores`: whenever a word is drawn, the
sampler stands where the last accepted word left it - compared with `kept`, a
copy of the sampler made at that time - and remembers the symbol it wrote last.
`BatchUniform`, for dictionaries without repetition: from wherever a word is
drawn, all continuations are reached, each by the same number of words.
`Terminates` assumes a scheduled sampler and a provider that sooner or later
delivers a word that is accepted and adds a symbol.

The run `word_weights` shows where a comment in `word.go` says more than the code
does: with a dictionary that repeats a byte, a skipped digit lengthens
the batch and changes the threshold the whole word is judged by, so positions
are not equally likely ("leaving every other position equally likely",
`word.go:229`); the bias is below the share of rejected words.
By the way, and without a run: "the largest k with n^k <= 2^64" (`word.go:64`) is
not what is taken when n^k is 2^64 itself (`Fitting` has `< W`); this costs a digit
per word and no uniformity.

### RPACache

`bluetoothHash`: `Load` the cached cipher and compare its key, `Store` a new
one on a mismatch, `Get` a buffer (from the pool, or a new one even if the
pool has some), `Prepare`, `Encrypt`, `Read` the hash, and the deferred `Put`.
Any number of goroutines interleave at every access. `Collect` is the garbage
collector emptying the pool. AES is external: a block cipher's output is
represented by its key and input.

`HashIsOwn` is the function's contract under concurrency. `BuffersExclusive` is
what it rests on. `RecentKeyCached` is the purpose of the cache: after a call
that no call with another key overlapped, its key is cached until a call with
another key begins, so repeats build no cipher.

### ReaderProvider

Goroutines share one `io.Reader`. A byte is its position in the reader's
stream, so that who got which byte is all there is to see. One step of `Serve`
is one call of the reader: some of the bytes asked for or none, with or without
an error. `io.ReadFull` goes on until its buffer is full (`Filled`) or an error
came (`Failed`). A call is begun by `Read`, `Sum`, `Sum32`, `Sum64` or
`FillRandomBytes`, takes its words in `Deliver`, and ends in `Return`, in
`ReadFails` or, where `Sum*` panics, in `WordPanics`.

`BytesOnceInOrder`: no byte is given out twice, and the bytes of a call are in
stream order, though they need not be contiguous. `WholeOrError`: a value made
of fewer bytes than it needs is never returned. `AloneIsContiguous` holds a call
that overlaps no other to the next bytes of the stream, and a slice filled word
by word to the same bytes as one that is read. `CallEnds` assumes that a
goroutine in a call is scheduled and that the reader does not return nothing and
no error to it for ever; `io.Reader` discourages that, and `io.ReadFull` loops
on it.

### CIDR

Words and addresses at their real width, as functions from bit numbers to bits.
`Generate` and `DrawPrefix` are `CIDR` and `Prefix`, `Start`, `First`, `Second`
and `Return` are `IPInCIDR` and `AddrIn`, `Refuse` their refusals. `net` is the
network the program has: one it generated, or one a caller made, with any mask.
An address may be drawn over the network's own IP (`inPlace`); then each of its
two halves changes `net`, and the second is computed from what the first left.

`PrefixCanonical` compares a generated network with its definition, bit by bit;
`AddrInside` an address with the network it was drawn in, or as much of the
address as is written; `InPlaceKeepsNet` says that drawing in place changes host
bits only. The last is for networks whose mask and IP have the same length: the
address of an IPv4 network with a 16-byte IP is written to the first four of the
sixteen bytes, and the IP is then no IPv4 address any more.

### Octets, Hardware, Network and Telecom

`Octets` has what these share: words as eight bytes, the bounded draw on them,
`fixedBytes`, and memory as a function from addresses to bytes, in which `dst`
and an input may overlap.

`Hardware` is `Network.Hardware`: `Begin` refuses bad options (an empty `IRK`, for
one, which is not a nil one), `Draw` takes a
word, and either redraws (`Rejects`) or writes the address; the two kinds made
from a MAC draw nothing (`FromMACAddress`). `KindRules` is the table of kinds in
the doc comments, on what was finally returned. `EUI64OfMAC` is for a MAC at any
distance from `dst` at which the code reads it before it overwrites it; the
distances in between give another result, and the code does not say which
distances are allowed. `ExtensionFree` is about `realOUI`'s "leaving the low
bits independent for the extension": `EUI64RealOUI` uses bits 32 to 39 of a word
both for the index and for the extension, and each index still goes with each
extension because 279, the number of OUIs, is odd. `Terminates` assumes a provider
that sooner or later yields a word that is not rejected.

`Network` is `IP`, `Addr`, `IPv6EUI64` and `Value`. A word offers one or two
candidates (`Candidates`), the first that its kind accepts (`Accepts`) is kept;
an IPv6 address needs two. `InDocumentedBlocks` checks results, bit by bit,
against the blocks of their kind; those an `IPv4Public` address avoids are the
table of RFC 6890 and multicast (`ReservedIPv4`), those of `IPv6Public` the ones
`ip.go:272-277` lists. `FirstUsable` says that public addresses and AS numbers are
the first candidates that are not reserved in this sense, so that nothing is
passed over and no word too many drawn. `RangeExact` is about the maps from
bounded values to numbers: exactly the range, each number once; of the two kinds
beyond 16 bits, MPLS labels and private 32-bit AS numbers, only the first and the
last value are compared with the ends of the range. `InterfaceIDOfMAC` is for a MAC
that does not lie in `dst`, which is filled before the MAC is read; what the
identifier of a MAC in `dst` is, the code does not say, and only the prefix is
checked then.

The run `public_ipv4` shows where comments say more than the code does:
`IPv4Public` is "outside IANA special-purpose ranges" (`ip.go:22`; also `ip.go:230`
and the repository's `README.md:150`), but the IANA registry also has
192.31.196.0/24, 192.52.193.0/24 and 192.175.48.0/24 (`LaterIPv4`: RFC 7535, 7450
and 7534), and addresses in them are returned. They are later than RFC 6890, which
the comments refer to, and the registry has them as globally reachable; but their
IPv6 counterparts, no different in this, are excluded.

`Telecom` is `Append`: a call that is not refused works off a list of parts
(`Parts`), given ones (`Given`), ones from the bounded draw (`Choose`) and runs of
random digits (`DrawDigits`); the check digit is appended over the others.
`LuhnValid` is the definition of ISO/IEC 7812 on the whole identifier,
`LayoutOrRefused` its length, prefix and alphabet, or `dst` as it was. That words
from 18e18 on are redrawn, so that digits are uniform, is modelled but no property:
it is about how many of 2^64 words give each value.

## Runs and bounds

| Run | Instance | Why it is enough |
|---|---|---|
| `shared_counter` | 2 goroutines, 3 calls, 3-bit counter, 2-byte words, reads of 0, 4 and 5 bytes, all 8 seeds | reads of two words and of two words and a tail interleave with each other; the counter wraps within a run; more goroutines add no step the code can tell apart |
| `active_provider` | 2 scopes, 1 caller, 3 providers and nil, 5 `SetProvider` calls, 2 draws per call | two nested or overlapping scopes and a set between them need 5 swaps; a call needs 2 draws to mix providers; callers do not affect each other |
| `bounded` | 5-bit words, types of 8 and 32 values, all pairs of bounds, all words | a type narrower than the word and one as wide; every n below 32 |
| `word_fill` | 6-bit words, 9 dictionaries of 0 to 5 bytes, lengths -1, 1, 2 and 4 | base 3 has rejected words, base 2 and 1 the extremes of batch size; repeated bytes; length 4 needs a full and a cut-off batch |
| `rpa_cache` | 3 goroutines, 2 keys, 2 random parts, 3 buffers, up to symmetry | two goroutines race for the cache while a third hits or replaces it; there is a buffer for each |
| `reader_provider` | 2 goroutines, 2 calls, 2-byte words with 1-byte halves, slices of 0 and 3 bytes | a word needs two reads, which another call can come between; a slice has a word and a tail |
| `cidr` | 3 words, 15 lengths from 0 to 255, 14 networks of callers | full width; every length where a byte, a half or an address begins or ends, and beyond; masks that are no prefix, lengths that do not match |
| `hardware` | 15 words, 279 OUIs, every kind, a MAC at every distance from -6 to 8 | words rejected by some kind and words one bit from those; all overlaps |
| `network` | every kind; 17 words for an IPv6 kind, 66 to 83 for others, 3 draws a call; a MAC before, in and after `dst` | halves in, at the ends of, and next to each reserved block; three draws reject twice |
| `telecom` | every kind with options at and beyond their limits, 6 words, 5 draws a call | words below and at 18e18, and one the bounded draw rejects; country codes of one to three digits |
| `word_weights` | 8-bit words, dictionary `aabc` | the smallest words with a long enough batch |
| `public_ipv4` | the words of `network`, `IPv4Public` only | an address in each of the blocks registered after RFC 6890 |

Bounds in the guards are `MaxCalls` (SharedCounter), `MaxSets` and `MaxDraws`
(ActiveProvider), `MaxCalls` (ReaderProvider) and `MaxDraws` (Network, Telecom);
the other models are finite as they are. Symmetry is used in
`rpa_cache` only, which has no liveness property. No run turns off the
deadlock check; a behaviour that is over, or has reached its bound, goes on with
`Finished`.

## Proofs

What TLC checks on an instance is proved with TLAPS for every value of the
constants under the `ASSUME`s of the modules, which the runs evaluate.

- `ProviderProofs`, of `SharedCounter`: `DrawsFollowStream` is inductive on its own; `TypeOK`
  with it. `NoWordTwice` follows because two equal words would be equal counter
  values (the avalanche is injective), hence a multiple of gamma that is 0
  below the period. `ImplementsStream` maps each step to a `Take` or a stutter.
  `ResultsMatchDraws` needs `CutInv`: a call's bytes are cut in order from the
  words it drew (`CutFrom`), and while a `Read` has bytes left to write, what it
  wrote is whole words (`ReadInv`). What others draw in between is in the log but
  not in the call's share of it.
  Of `ActiveProvider`: `SwapChain` is inductive with the types.
  `OneProviderPerCall` needs that the loaded provider is in the window of the
  call and is what all draws used. `NestedScopesRestore` needs an invariant
  about every level of the stack of open scopes: what each scope will restore
  is what was active below it.
- `SamplingProofs`, of `Bounded`: for n below `W` the products of the words
  with n are multiples of n, and the accepted ones of a value v fill a window of
  `W \div n` of them above `v*W + W % n` (`AcceptedIsInterval`); so `WordsUniform`
  holds for every n. `IntervalCovered` undoes the sign flips modulo `W`. These are
  statements about 64-bit words: `W` is any even number.
  Of `WordFill`: the invariant says that the sampler is `Filled` (what is
  written is from the dictionary, without adjacent duplicates, and `last` is the
  newest) and, during a batch, that it `Continues` the copy `kept` to which
  `saved` is the way back. `RejectionRestores` alone is not inductive: nothing in
  it says that a batch leaves earlier symbols alone. `TypeOK` adds that the product
  is the power of the base with as many factors as digits were peeled (`Counted`),
  and `newBatchSpec` chooses no power that does not fit (`BatchFits`).
  `BatchUniform` is about one batch and needs no more than that invariant. Peeling
  digit after digit multiplies the word by the product of the bases
  (`HiLoCompose`): after k digits the low half is that of `x * n^k` (`ReadDigits`).
  So the whole batch is one bounded draw with n^m: the final test rejects exactly
  the words that draw rejects (`RunIs`), two words write the same symbols if and
  only if the high halves agree (`SameTexts`; `SkipPastIs` and a dictionary
  without repetition make each digit a symbol and different digits different
  symbols), and each of the n^m high halves has `W \div n^m` accepted words
  (`AcceptedCount`, `EqualShares`).
- `ReaderProviderProofs`: `ReaderInv` says of every byte in a buffer or a result
  that the reader is beyond it, that no two places have the same, and that those
  of one place are in the reader's order (`Separate`); of a call in progress how
  many whole words it has (`Progress`), which is what makes a value whole; and of
  a call that nobody overlaps that its bytes are those from its beginning to where
  the reader is now (`Contiguous`). A short read or an error may come at any step.
  `BytesOnceInOrder` alone is not inductive: it does not say that the reader is
  beyond every byte it has given.
- `CIDRProofs`: for any words and any network a caller can pass. The lemmas are
  about the operators: whole bytes and the rest of one are the bits below the
  length (`WholeBytesAndRest`), so a masked address is canonical
  (`MaskHostBitsKeepsPrefix`, `FillPrefixCanonical`); the shifted masks are those
  of the length (`AddrInMaskIsPrefix`); `base & mask | x &^ mask` is inside
  (`HostBitsInside`). The invariant adds to the three properties that the network
  is well-formed (`Shape`), which words are drawn when (`Prefixing`, `Drawing`),
  and that the second half of an address drawn in place still starts from the
  network that was passed (`Passed`, `Drawing`); without that `AddrInside` is not
  inductive.
- `HardwareProofs`: `HardwareInv` says that memory is what it was until the
  address is written, that the OUI is one of the table also after redraws, and
  that an address was made from a word its kind does not reject (`Made`). The
  rest is about operators: each kind's address keeps its kind's rule
  (`AddressIsGood`); the bytes `HardwareMACPrefix` leaves are the prefix's, a mixed
  one and random ones (`PrefixBytes`), and the mixed one has the bits of either
  (`MixBits`); of `putModifiedEUI64`'s three copies none disturbs a later one
  unless the MAC begins 5 bytes before to 1 byte after `dst` (`EncapsulateBytes`).
  `ExtensionFreeHolds` has the hypothesis that the table has an odd number of
  entries - `realOUIs` has 279 - and is false without it: an odd multiple of a
  power of 2 changes that bit and none below it, so each bit of the extension can
  be set in turn without changing the index (`MeetsTwice`).
  `HardwareAssumption` gives the types of the constants, `MemoryAssumption` says
  that `dst`, a fresh slice, and the MAC or prefix passed lie in memory: Go has no
  slice that does not. Of `RPACache`: `Progress` is what a call has established at each statement;
  its facts about a buffer's contents are stable because of `BuffersExclusive`.
  `Undisturbed` carries `RecentKeyCached`: while a call is alone nobody can
  replace what it cached.
- `NetworkProofs`: `NetInv` says that every part kept was accepted by its kind
  and that the result is the `Outcome` of the parts. The reserved blocks are
  prefixes of bit strings; `InIs` turns membership in one into conditions on
  bytes (`TopIs`: the top k bits of a byte are it without its lowest 8-k), and then
  `PublicIPv4Is`, `PublicIPv6Is` and `PublicASNIs` show what the code's comparisons
  accept. `InDocumentedBlocks` follows for every word and these blocks. `FirstUsable` needs in
  addition, for each part, that all candidates tried before it were refused
  (`TriedMore`, `FirstInv`). `RangeExact` is, but for the two kinds
  beyond 16 bits, the inverse of each shift (`ShiftedKinds`) and of the gap in the public AS numbers (`SkipsGap`).
  `InterfaceIDOfMAC` uses the lemmas about `putModifiedEUI64`, here for a `dst`
  with a prefix before it.
- `TelecomProofs`: the invariant says for each kind which digits are in `dst`
  after each part and which parts are still to come (`EquipmentStep`, `CardStep`,
  `MobileStep`); a chosen entry is one of its table because the byte product of
  `Octets` is the product (`BoundedValueIs`), and each run of digits has digits
  (`DigitsAre`). `LuhnValid` is `LuhnCloses`: whatever the payload, the check digit
  makes the sum a multiple of ten - the payload's digits are doubled from the
  right end of the payload, which is the second place of the whole.
  `LayoutOrRefused` needs that the code refuses exactly what is not a valid request
  (`RefusesIs`). `TelecomAssumption` says that the tables have at least one row, and
  no more than fit a 32-bit bound, and how long their entries are.

A statement about every value of a recursive function is proved by
well-foundedness of `<` on the naturals, written out as a fact about the set
of numbers that have the property (`Reached`); that such a function exists and
satisfies its defining equation, the same way (`Recursion`).

Only model-checked: liveness (`DrawTerminates`, `Terminates`, `CallEnds`), which
is out of the prover's reach. Every invariant and action property of a passing run
is a theorem. The theorems are about the models; that `OUIOf`, in byte steps, is
the remainder of a 32-bit number, for example, is how the model represents numbers
and not a theorem.

## Not modelled

- `hashPool`'s `Get` and `Put`, a pool no provider call uses, and its nil receiver,
  which works on a counter of its own;
- a dictionary that lies in the spare capacity of `dst` (`word.go:206`), of which the
  code does not say what should come of it;
- parallel scopes that do not nest (`README.md:339`), for which the code promises
  nothing;
- the runtime provider (calls of the Go runtime), floating point, the OUI table
  (generated data) and the command that generates it (file and network I/O around
  a filter).
