-------------------------------- MODULE Model --------------------------------
(***************************************************************************)
(* The weights of the network, src/src/kittens.c: kittens_create() opens   *)
(* the model file, reads the architecture and binds the tensors it must    *)
(* have; named() loads the others when they are first asked for;           *)
(* kittens_destroy() gives everything back.  F32 weights are pointers into *)
(* the mapping, F16 weights are converted into an arena.                   *)
(*                                                                         *)
(* A second client takes the rest of the reader's interface: it loads      *)
(* tensors by region and releases the mapping while it does.               *)
(***************************************************************************)
EXTENDS GgufReader

CONSTANTS
  Clients,    \* "kittens", "region"
  VocabKey, PositionKey,   \* vocab_size, and the keys that may be missing
  Required,   \* the names bind_weights() needs, in order
  Optional    \* the names named() is asked for

ASSUME RequiredAssumption == Required \in Seq(0 .. Word - 1)

VARIABLES
  client,
  ctx,        \* "none", "opening", "arenas", "binding", "ready", "destroying"
  arenas,     \* how many of the two arenas exist
  arch,       \* the architecture: vocabulary size and positions
  weights,    \* the weights bound, as [name, index, type, at, spread]
  cache,      \* ctx->cache, the same
  calls       \* what the last gguf_load_tensor() gave its caller

modelVars == <<client, ctx, arenas, arch, weights, cache, calls>>
vars == <<ggufVars, modelVars>>

NoCall == [tensor |-> 0, size |-> 0, body |-> "none"]

Init ==
  /\ GgufInit
  /\ client \in Clients
  /\ ctx = "none" /\ arenas = 0
  /\ arch = <<0, 0>>
  /\ weights = <<>> /\ cache = <<>>
  /\ calls = NoCall

-----------------------------------------------------------------------------
(* kittens_create().                                                       *)

(* The context is allocated, or there is none.                             *)
Create ==
  /\ client = "kittens" /\ ctx = "none"
  /\ \E f \in Files : MmapFile(f)
  /\ ctx' = IF place' = "closed" THEN "destroying" ELSE "opening"
  /\ UNCHANGED <<client, arenas, arch, weights, cache, calls>>

Opening ==
  /\ OpenStep
  /\ ctx' = IF ctx = "opening" /\ place' = "closed" THEN "destroying" ELSE ctx
  /\ UNCHANGED <<client, arenas, arch, weights, cache, calls>>

MakeArenas ==
  /\ ctx = "opening" /\ place = "open"
  /\ \/ ctx' = "arenas" /\ arenas' = 2 /\ UNCHANGED ggufVars
     \/ Abort /\ UNCHANGED <<ctx, arenas>>
  /\ UNCHANGED <<client, arch, weights, cache, calls>>

(* Only the vocabulary size is required; a key that is missing takes the   *)
(* value of the key read before it, which is still in the variable.        *)
LoadArch ==
  LET value(key, other) ==
        LET k == FirstOf(g.kvs, key)
        IN  IF k # 0 /\ g.kvs[k].type = U32 THEN Cell(g.kvs[k].raw) ELSE other
      vocab == value(VocabKey, NULL)
  IN  /\ ctx = "arenas"
      /\ IF vocab = NULL
         THEN ctx' = "destroying" /\ UNCHANGED arch
         ELSE /\ ctx' = "binding"
              /\ arch' = <<vocab, value(PositionKey, vocab)>>
      /\ UNCHANGED <<ggufVars, client, arenas, weights, cache, calls>>

(* The cells a tensor's shape reaches over: a float takes two, a half one, *)
(* another type none.  The shape the network is given is the whole one;    *)
(* the size that is checked is a product of words, which wraps.            *)
Extent(shape, d) == IF d \in DOMAIN shape THEN shape[d] ELSE 1
Elements(shape) ==
  ((Extent(shape, 1) * Extent(shape, 2)) * Extent(shape, 3)) * Extent(shape, 4)
Per(type) == CASE type = F32 -> 2 [] type = F16 -> 1 [] OTHER -> 0
Spread(t) == Elements(t.shape) * Per(t.type)
SizeOf(t) == Spread(t) % Word

Weight(name, j) ==
  [name |-> name, index |-> j, type |-> g.tensors[j].type,
   at |-> g.data + g.tensors[j].offset, spread |-> Spread(g.tensors[j])]

(* kt_load_tensor(): the first tensor of the name, if its extent fits.  An *)
(* unsupported type is an assertion.                                       *)
Loadable(name) ==
  LET j == FirstOf(g.tensors, name)
  IN  j # 0 /\ Fits(g.tensors[j], SizeOf(g.tensors[j]))
Supported(name) == g.tensors[FirstOf(g.tensors, name)].type \in {F32, F16}

(* bind_req() of the next name; bind_weights() goes on to the last one.    *)
BindWeight ==
  LET name == Required[Len(weights) + 1]
  IN  /\ ctx = "binding" /\ place = "open" /\ Len(weights) < Len(Required)
      /\ IF Loadable(name) /\ Supported(name)
         THEN /\ weights' = Append(weights, Weight(name, FirstOf(g.tensors, name)))
              /\ UNCHANGED ggufVars
         ELSE Abort /\ UNCHANGED weights
      /\ UNCHANGED <<client, ctx, arenas, arch, cache, calls>>

(* A bug: the last weight is forgotten.                                    *)
CreatedEarly ==
  /\ ctx = "binding" /\ Len(weights) = Len(Required) - 1
  /\ ctx' = "ready"
  /\ UNCHANGED <<ggufVars, client, arenas, arch, weights, cache, calls>>

(* A bug: the mapping is released once the weights are bound.              *)
CreatedReleases ==
  /\ ctx = "binding" /\ Len(weights) = Len(Required)
  /\ ctx' = "ready"
  /\ g' = [g EXCEPT !.mapped = FALSE, !.bytes = 0]
  /\ UNCHANGED <<file, place, cur, client, arenas, arch, weights, cache, calls>>

Created ==
  /\ ctx = "binding" /\ Len(weights) = Len(Required)
  /\ ctx' = "ready"
  /\ UNCHANGED <<ggufVars, client, arenas, arch, weights, cache, calls>>

Cached(name) == \E j \in DOMAIN cache : cache[j].name = name

(* named(): a tensor the file lacks is NULL each time it is asked for.     *)
Named(name) ==
  /\ ctx = "ready" /\ place = "open"
  /\ ~Cached(name) /\ Loadable(name)
  /\ IF Supported(name)
     THEN /\ cache' = Append(cache, Weight(name, FirstOf(g.tensors, name)))
          /\ UNCHANGED ggufVars
     ELSE Abort /\ UNCHANGED cache
  /\ UNCHANGED <<client, ctx, arenas, arch, weights, calls>>

(* kittens_destroy(), of a context that failed to start as well.           *)
Destroy ==
  /\ ctx \in {"ready", "destroying"} /\ place # "aborted"
  /\ ctx' = "none"
  /\ arenas' = 0
  /\ weights' = <<>> /\ cache' = <<>> /\ arch' = <<0, 0>>
  /\ Close
  /\ UNCHANGED <<client, calls>>

-----------------------------------------------------------------------------
(* The client that loads by region.                                        *)

Open ==
  /\ client = "region" /\ place = "closed"
  /\ \E f \in Files : MmapFile(f)
  /\ calls' = NoCall
  /\ UNCHANGED <<client, ctx, arenas, arch, weights, cache>>

(* A bug: the extent is not looked at.                                     *)
DeliverUnchecked(j, body) ==
  calls' = [tensor |-> j, size |-> SizeOf(g.tensors[j]), body |-> body]

(* gguf_load_tensor(): the callback gets the tensor's cells, or nothing.   *)
Deliver(j, body) ==
  LET size == SizeOf(g.tensors[j])
  IN  calls' = IF Fits(g.tensors[j], size)
               THEN [tensor |-> j, size |-> size, body |-> body]
               ELSE [tensor |-> j, size |-> size, body |-> "skipped"]

(* GGUF_SRC_SHARED; GGUF_SRC_REGION maps the file a second time, and falls *)
(* back on the shared mapping when that fails.                             *)
LoadTensor ==
  /\ client = "region" /\ place = "open"
  /\ \E j \in DOMAIN g.tensors, body \in {"shared", "region"} : Deliver(j, body)
  /\ UNCHANGED <<ggufVars, client, ctx, arenas, arch, weights, cache>>

Release ==
  /\ client = "region" /\ ReleaseMmap
  /\ calls' = NoCall
  /\ UNCHANGED <<client, ctx, arenas, arch, weights, cache>>

CloseFile ==
  /\ client = "region" /\ place = "open" /\ Close
  /\ calls' = NoCall
  /\ UNCHANGED <<client, ctx, arenas, arch, weights, cache>>

Next ==
  \/ Create \/ Opening \/ MakeArenas \/ LoadArch \/ BindWeight \/ Created
  \/ \E name \in Optional : Named(name)
  \/ Destroy
  \/ Open \/ LoadTensor \/ Release \/ CloseFile

Spec == Init /\ [][Next]_vars

-----------------------------------------------------------------------------
TypeOK ==
  /\ place \in {"closed", "header", "kvs", "kv", "bad", "tensors", "tensor", "open", "aborted"}
  /\ ctx \in {"none", "opening", "arenas", "binding", "ready", "destroying"}
  /\ arenas \in {0, 2}
  /\ cur.at \in 0 .. Word - 1
  /\ Len(weights) <= Len(Required)
  /\ ctx = "ready" => Len(weights) = Len(Required)

(* As long as a context lives its weights can be read over their whole     *)
(* shape: those that point into the mapping lie in it and it is there,     *)
(* those that were converted were read inside it and have their arena.     *)
(* The exception is a tensor whose shape reaches over 2^64 bytes or more:  *)
(* its size wraps, passes the check, and the shape is used as it is        *)
(* (kittens.c:155-160, 123-134).                                           *)
WeightsHeld ==
  place # "aborted" =>
    \A list \in {weights, cache} : \A j \in DOMAIN list :
      /\ list[j].spread < Word => list[j].at + list[j].spread <= g.bytes
      /\ IF list[j].type = F32 THEN g.mapped ELSE arenas = 2

(* kittens_create() that returns NULL, wherever it failed, gguf_open()     *)
(* that fails, and kittens_destroy() leave nothing behind.                 *)
NothingLeft ==
  /\ ClosedHoldsNothing
  /\ ctx = "none" /\ client = "kittens" => place \in {"closed", "aborted"} /\ arenas = 0

(* A callback is only ever given cells of the file that are mapped.        *)
DeliveredInside ==
  calls.body \in {"shared", "region"} =>
    /\ g.data + g.tensors[calls.tensor].offset + calls.size <= Len(file)
    /\ calls.body = "shared" => g.mapped

(* "data_offset [...] Recorded so region mmap survives gguf_release_mmap"  *)
(* (gguf_reader.c:101): a tensor that fits the file is delivered by        *)
(* region, whether the mapping is still there or not.                      *)
RegionSurvivesRelease ==
  calls.tensor # 0 /\ g.data + g.tensors[calls.tensor].offset + calls.size <= Len(file)
    => calls.body # "skipped"

=============================================================================
