---------------------------- MODULE ContentPlane ----------------------------
(***************************************************************************)
(* The content plane of the overlay (src/net/relay/content): contents are  *)
(* cut into blocks, every block encrypted deterministically with the key   *)
(* of its group and named by a keyed hash of the bytes that are stored;    *)
(* nodes keep blocks in a bounded store, learn which peers hold which      *)
(* blocks, and put a content together block by block: from the store, then *)
(* from peers of their group and key epoch.                                *)
(*                                                                         *)
(* A key is a group and an epoch; stored bytes are [key, plain]; a name is *)
(* [by, of].  Blocks have the size one.  The channel that goes directly to *)
(* a peer always declines (it has no data plane yet), so a peer is asked   *)
(* over the relay.                                                         *)
(***************************************************************************)
EXTENDS Integers, Sequences, FiniteSets, SequencesExt, Functions

CONSTANTS
  Nodes,
  Readers,      \* nodes that fetch contents, a subset
  Group,        \* [Nodes -> group]
  Contents,     \* sequences of plain blocks
  Capacity,     \* blocks a store holds
  HasDisk,      \* the stores keep a copy of their blocks on disk
  Grace,        \* epochs before the current one that are still decrypted
  MaxEpoch,     \* bound: key epochs
  MaxFaults     \* bound: wrong answers, spoilt files, crashes

VARIABLES
  epoch,        \* [Nodes -> epoch of the key the node was started with]
  mem,          \* [Nodes -> stored blocks, the least recently used first]
  disk,         \* [Nodes -> [names -> bytes]]
  peers,        \* [Nodes -> declarations [name, epoch, holds]]
  plans,        \* history: the plans made, [names, content]
  fetch,        \* [Nodes -> the content being fetched]
  result,       \* [Nodes -> the last fetch: [content, parts] ]
  faults

vars == <<epoch, mem, disk, peers, plans, fetch, result, faults>>

Key(n) == <<Group[n], epoch[n]>>

\* encryptBlock is deterministic: the same block under the same key gives the
\* same bytes.
Encrypt(k, p) == [key |-> k, plain |-> p]
Junk == [key |-> <<"", 0>>, plain |-> "junk"]
Empty == [key |-> <<"", 0>>, plain |-> "empty"]

\* blockIdOf: a hash of the bytes as they are stored, keyed by the current key.
BlockId(k, bytes) == [by |-> k, of |-> bytes]

\* decodeBlock: the current key, then those of the epochs still in the window.
Decodes(n, bytes) ==
  bytes.key[1] = Group[n] /\ bytes.key[2] \in epoch[n] - Grace .. epoch[n]

\* planContent: the names of the blocks of a content, in order.
Plan(n, c) == [i \in DOMAIN c |-> BlockId(Key(n), Encrypt(Key(n), c[i]))]

(* --- The store. --- *)

Holds(n, id) == id.by = Key(n) /\ id.of \in Range(mem[n])
OnDisk(n, id) == HasDisk /\ id \in DOMAIN disk[n]

\* has: the files that were cut to nothing do not count.
Has(n, id) == Holds(n, id) \/ (OnDisk(n, id) /\ disk[n][id] # Empty)

Touch(store, bytes) == Append(SelectSeq(store, LAMBDA b : b # bytes), bytes)

\* evictIfNeeded
Kept(store) == SubSeq(store, IF Len(store) > Capacity THEN Len(store) - Capacity + 1 ELSE 1, Len(store))

\* mutant
VerifiedNever(n, id, bytes) == bytes # Empty

\* The name is computed again from the bytes, before they are stored and after
\* they are read, from the disk or from a peer.
Verified(n, id, bytes) == BlockId(Key(n), bytes) = id

\* The files after the store became "store": those of evicted blocks are cut.
Files(n, files, store) ==
  [id \in DOMAIN files |->
     IF id.by = Key(n) /\ id.of \in Range(mem[n]) \ Range(store) THEN Empty ELSE files[id]]

With(files, id, bytes) == [i \in DOMAIN files \cup {id} |-> IF i = id THEN bytes ELSE files[i]]

\* Several blocks put one after the other.
PutAll(store, blocks) == FoldLeft(LAMBDA s, b : Kept(Touch(s, b)), store, blocks)

-----------------------------------------------------------------------------

NoFetch == [of |-> <<>>]
NoResult == [content |-> <<>>, parts |-> <<>>]

Init ==
  /\ epoch = [n \in Nodes |-> 1]
  /\ mem = [n \in Nodes |-> <<>>]
  /\ disk = [n \in Nodes |-> <<>>]
  /\ peers = [n \in Nodes |-> {}]
  /\ plans = {}
  /\ fetch = [n \in Nodes |-> NoFetch]
  /\ result = [n \in Nodes |-> NoResult]
  /\ faults = 0

\* putContent: all blocks of a content, cut, encrypted and stored.
PutContent(n, c) ==
  LET blocks == [i \in DOMAIN c |-> Encrypt(Key(n), c[i])]
      store == PutAll(mem[n], blocks)
      written == FoldLeft(LAMBDA f, b : With(f, BlockId(Key(n), b), b), disk[n], blocks)
  IN  /\ mem' = [mem EXCEPT ![n] = store]
      /\ disk' = IF HasDisk THEN [disk EXCEPT ![n] =
                      [id \in DOMAIN written |->
                         IF id.by = Key(n) /\ id.of \in (Range(mem[n]) \cup Range(blocks)) \ Range(store)
                         THEN Empty ELSE written[id]]]
                 ELSE disk
      /\ plans' = plans \cup {[names |-> Plan(n, c), content |-> c]}
      /\ UNCHANGED <<epoch, peers, fetch, result, faults>>

\* addPeer and withdraw, told by whoever watches the peers.
AddPeer(n, m) ==
  /\ m # n
  /\ LET holds == {p.names[i] : <<p, i>> \in {<<q, j>> \in plans \X (1 .. 3) : j \in DOMAIN q.names}}
         decl == [name |-> m, epoch |-> epoch[m], holds |-> {id \in holds : Has(m, id)}]
     IN  peers' = [peers EXCEPT ![n] = {d \in @ : d.name # m} \cup {decl}]
  /\ UNCHANGED <<epoch, mem, disk, plans, fetch, result, faults>>

Withdraw(n, d) ==
  /\ peers' = [peers EXCEPT ![n] = @ \ {d}]
  /\ UNCHANGED <<epoch, mem, disk, plans, fetch, result, faults>>

\* candidates: peers of the same group and epoch that declared the block.
Candidates(n, id) ==
  {d.name : d \in {e \in peers[n] :
     Group[e.name] = Group[n] /\ e.epoch = epoch[n] /\ id \in e.holds}}

(* --- fetchContent: block after block, tier after tier. --- *)

Wanted(n) == fetch[n].of.names[Len(fetch[n].parts) + 1]

FetchContent(n, plan) ==
  /\ fetch[n] = NoFetch
  /\ fetch' = [fetch EXCEPT ![n] = [of |-> plan, parts |-> <<>>, tier |-> "local", asks |-> {}]]
  /\ result' = [result EXCEPT ![n] = NoResult]
  /\ UNCHANGED <<epoch, mem, disk, peers, plans, faults>>

\* A block was obtained: the next one, or the whole content.
Obtains(n, bytes) ==
  LET parts == Append(fetch[n].parts, bytes.plain)
  IN  IF Len(parts) = Len(fetch[n].of.names)
      THEN /\ fetch' = [fetch EXCEPT ![n] = NoFetch]
           /\ result' = [result EXCEPT ![n] = [content |-> fetch[n].of.content, parts |-> parts]]
      ELSE /\ fetch' = [fetch EXCEPT ![n].parts = parts, ![n].tier = "local"]
           /\ UNCHANGED result

Misses(n) ==
  /\ fetch' = [fetch EXCEPT ![n].tier = "peers", ![n].asks = Candidates(n, Wanted(n))]
  /\ UNCHANGED result

\* The store: from memory, else from the file, which comes back into memory.
FromStore(n) ==
  /\ fetch[n] # NoFetch /\ fetch[n].tier = "local"
  /\ LET id == Wanted(n)
         file == disk[n][id]
         store == Kept(Touch(mem[n], IF Holds(n, id) THEN id.of ELSE file))
     IN  \/ /\ Holds(n, id)
            /\ mem' = [mem EXCEPT ![n] = store]
            /\ Obtains(n, id.of)
            /\ UNCHANGED disk
         \/ /\ ~Holds(n, id) /\ OnDisk(n, id) /\ Verified(n, id, file)
            /\ mem' = [mem EXCEPT ![n] = store]
            /\ disk' = [disk EXCEPT ![n] = Files(n, @, store)]
            /\ IF Decodes(n, file) THEN Obtains(n, file) ELSE Misses(n)
         \/ /\ ~Holds(n, id) /\ OnDisk(n, id) /\ ~Verified(n, id, file)
            /\ disk' = [disk EXCEPT ![n] = With(@, id, Empty)]
            /\ Misses(n)
            /\ UNCHANGED mem
         \/ /\ ~Holds(n, id) /\ ~OnDisk(n, id)
            /\ Misses(n)
            /\ UNCHANGED <<mem, disk>>
  /\ UNCHANGED <<epoch, peers, plans, faults>>

\* What a peer answers: the block if it has it; or, being out of order, the
\* bytes of another block, or bytes of no block.
Answers(m, id) ==
  {id.of} \cup {Junk} \cup UNION {{p.names[i].of : i \in DOMAIN p.names} : p \in plans}

FromPeer(n, m) ==
  /\ fetch[n] # NoFetch /\ fetch[n].tier = "peers" /\ m \in fetch[n].asks
  /\ \E bytes \in Answers(m, Wanted(n)) :
       /\ IF bytes = Wanted(n).of /\ Has(m, Wanted(n))
          THEN UNCHANGED faults
          ELSE bytes # Wanted(n).of /\ faults < MaxFaults /\ faults' = faults + 1
       /\ IF Verified(n, Wanted(n), bytes) /\ Decodes(n, bytes)
          THEN Obtains(n, bytes)
          ELSE fetch' = [fetch EXCEPT ![n].asks = @ \ {m}] /\ UNCHANGED result
  /\ UNCHANGED <<epoch, mem, disk, peers, plans>>

\* A peer that has not got it, or fails.
PeerDeclines(n, m) ==
  /\ fetch[n] # NoFetch /\ fetch[n].tier = "peers" /\ m \in fetch[n].asks
  /\ fetch' = [fetch EXCEPT ![n].asks = @ \ {m}]
  /\ UNCHANGED <<epoch, mem, disk, peers, plans, result, faults>>

\* No tier has the block: no content, rather than half of it.
GivesUp(n) ==
  /\ fetch[n] # NoFetch /\ fetch[n].tier = "peers" /\ fetch[n].asks = {}
  /\ fetch' = [fetch EXCEPT ![n] = NoFetch]
  /\ result' = [result EXCEPT ![n] = NoResult]
  /\ UNCHANGED <<epoch, mem, disk, peers, plans, faults>>

(* --- The world. --- *)

\* A node ends and starts again, with the key that is in its file by then.
Restart(n) ==
  /\ epoch' \in {[epoch EXCEPT ![n] = e] : e \in epoch[n] .. MaxEpoch}
  /\ faults < MaxFaults /\ faults' = faults + 1
  /\ mem' = [mem EXCEPT ![n] = <<>>] /\ peers' = [peers EXCEPT ![n] = {}]
  /\ fetch' = [fetch EXCEPT ![n] = NoFetch] /\ result' = [result EXCEPT ![n] = NoResult]
  /\ UNCHANGED <<disk, plans>>

FileSpoilt(n) ==
  /\ faults < MaxFaults /\ faults' = faults + 1
  /\ \E id \in DOMAIN disk[n] :
       /\ disk[n][id] # Empty
       /\ disk' = [disk EXCEPT ![n][id] = Junk]
  /\ UNCHANGED <<epoch, mem, peers, plans, fetch, result>>

Works(n) == FromStore(n) \/ GivesUp(n) \/ \E m \in Nodes : FromPeer(n, m) \/ PeerDeclines(n, m)

Next ==
  \E n \in Nodes :
    \/ Works(n) \/ Restart(n) \/ FileSpoilt(n)
    \/ \E c \in Contents : PutContent(n, c)
    \/ n \in Readers /\ \E p \in plans : FetchContent(n, p)
    \/ n \in Readers /\ \E m \in Nodes : AddPeer(n, m)
    \/ \E d \in peers[n] : Withdraw(n, d)

Spec == Init /\ [][Next]_vars

\* Every channel answers or fails.
FairSpec == Spec /\ \A n \in Nodes : WF_vars(Works(n))

-----------------------------------------------------------------------------
(* Properties.                                                             *)

\* A store stays within its bound and keeps every block once; what it holds is
\* under the current key.
TypeOK ==
  \A n \in Nodes :
    /\ Len(mem[n]) <= Capacity
    /\ Cardinality(Range(mem[n])) = Len(mem[n])
    /\ \A b \in Range(mem[n]) : b.key = Key(n)

\* A content that was put together is the one its plan was made for: whatever
\* peers answer, files contain and keys are exchanged in between, and never half.
RightContent == \A n \in Nodes : result[n].parts = result[n].content

\* Every fetch ends.
FetchEnds == \A n \in Nodes : []<>(fetch[n] = NoFetch)
=============================================================================
