------------------------- MODULE ChunkStreamProofs -------------------------
(***************************************************************************)
(* Proofs about the conversion of one chunk after the other: for any        *)
(* number of blocks, any rates and any files, and wherever an allocation   *)
(* fails, the conversion frees what it has allocated, once, and keeps the   *)
(* result alone.                                                            *)
(***************************************************************************)
EXTENDS ChunkStream, TLAPS

Pointer == Block \cup {ORIG, NULL}

\* The variables that may hold memory at each step.  At the others current is
\* the pointer prev was given, which must not be freed by that name.
Holders(label) ==
    CASE label = "toFloat"       -> {"prev"}
      [] label \in {"toStereo", "toRate", "freePrev", "freeFailed"} -> {"prev", "current"}
      [] label = "splitLeft"     -> {"prev"}
      [] label = "resampleLeft"  -> {"prev", "orig_l"}
      [] label = "dropLeft"      -> {"prev", "orig_l", "dest_l"}
      [] label = "splitRight"    -> {"prev", "dest_l"}
      [] label = "resampleRight" -> {"prev", "dest_l", "orig_r"}
      [] label = "dropRight"     -> {"prev", "dest_l", "orig_r", "dest_r"}
      [] label = "merge"         -> {"prev", "dest_l", "dest_r"}
      [] label = "dropBoth"      -> {"prev", "dest_l", "dest_r", "current"}
      [] label = "ok"            -> {"current"}
      [] OTHER                   -> {}

\* What is allocated is what the variables H point to, each to its own.
Owned(H, ptr, blocks) ==
    /\ blocks \subseteq Block
    /\ \A b \in Block : b \in blocks <=> \E v \in H : ptr[v] = b
    /\ \A u, v \in H : u # v /\ ptr[u] = ptr[v] => ptr[u] \notin Block

Resampling == {"splitLeft", "resampleLeft", "dropLeft", "splitRight", "resampleRight",
               "dropRight", "merge", "dropBoth"}

\* Only prev may be the caller's memory, and only where it is still the input.
Aliasing ==
    /\ var \in [Local -> Pointer]
    /\ pc # "idle" => var["orig"] = ORIG
    /\ \A v \in Holders(pc) : v # "prev" => var[v] # ORIG
    /\ pc \in {"toFloat", "toStereo"} => var["prev"] = ORIG
    /\ pc \in {"toStereo", "toRate", "freePrev", "ok"} => var["current"] \in Block
    /\ pc \in Resampling \cup {"freeFailed"} => var["prev"] \in Block
    /\ pc = "freeFailed" => var["current"] = NULL

\* The inductive invariant.
Ownership == ~misfreed /\ Aliasing /\ Owned(Holders(pc), var, live)

-----------------------------------------------------------------------------
(* Facts about memory                                                      *)

\* New memory, or NULL, for a variable that held nothing.
LEMMA NewOwned ==
  ASSUME NEW v \in Local, NEW d, NEW mid \in [Local -> Pointer], NEW H \in SUBSET Local,
         v \notin H, Owned(H, mid, live), New(v, d, mid)
  PROVE  /\ var' \in [Local -> Pointer]
         /\ var'[v] \in Block \cup {NULL}
         /\ \A u \in Local : u # v => var'[u] = mid[u]
         /\ Owned(H \cup {v}, var', live')
  <1>0. NULL \notin Block /\ ORIG \notin Block
    BY StdAudFmtAssumption
  <1>1. ASSUME NEW b \in Block, b \notin live, live' = live \cup {b},
               var' = [mid EXCEPT ![v] = b]
        PROVE  Owned(H \cup {v}, var', live') /\ var' \in [Local -> Pointer]
               /\ var'[v] = b /\ \A u \in Local : u # v => var'[u] = mid[u]
    <2>1. var' \in [Local -> Pointer] /\ var'[v] = b /\ \A u \in Local : u # v => var'[u] = mid[u]
      BY <1>1 DEF Pointer
    <2>2. \A u \in H : var'[u] = mid[u] /\ mid[u] # b
      BY <1>1, <2>1 DEF Owned
    <2>. QED BY <1>1, <2>1, <2>2 DEF Owned
  <1>2. ASSUME live' = live, var' = [mid EXCEPT ![v] = NULL]
        PROVE  Owned(H \cup {v}, var', live') /\ var' \in [Local -> Pointer]
               /\ var'[v] = NULL /\ \A u \in Local : u # v => var'[u] = mid[u]
    <2>1. var' \in [Local -> Pointer] /\ var'[v] = NULL /\ \A u \in Local : u # v => var'[u] = mid[u]
      BY <1>2 DEF Pointer
    <2>. QED BY <1>0, <1>2, <2>1 DEF Owned
  <1>. QED BY <1>1, <1>2 DEF New

\* Freeing variables that hold memory of their own is right, and what the other
\* variables hold stays; those that are freed may go on as NULL.
LEMMA FreeOwned ==
  ASSUME var \in [Local -> Pointer], NEW H \in SUBSET Local, NEW vs \in SUBSET H,
         Owned(H, var, live), \A v \in vs : var[v] # ORIG, FreeMemory(vs)
  PROVE  /\ ~misfreed => ~misfreed'
         /\ Owned(H \ vs, var, live')
         /\ Nulled(vs) \in [Local -> Pointer]
         /\ \A v \in Local : Nulled(vs)[v] = IF v \in vs THEN NULL ELSE var[v]
         /\ \A G \in SUBSET H : H \ vs \subseteq G => Owned(G, Nulled(vs), live')
  <1>0. NULL \notin Block /\ ORIG \notin Block
    BY StdAudFmtAssumption
  <1>1. \A v \in vs : var[v] # NULL => var[v] \in live
    BY DEF Owned, Pointer
  <1>2. \A u, v \in vs : u # v /\ var[u] = var[v] => var[u] = NULL
    BY DEF Owned, Pointer
  <1>3. ~Misfrees(vs)
    BY <1>1, <1>2 DEF Misfrees, Pointers
  <1>4. live' = live \ Pointers(vs) /\ live' \subseteq Block
    BY DEF FreeMemory, Owned
  <1>5. \A b \in Block : b \in live' <=> \E v \in H \ vs : var[v] = b
    BY <1>0, <1>4 DEF Owned, Pointers
  <1>6. Owned(H \ vs, var, live')
    BY <1>4, <1>5 DEF Owned
  <1>7. /\ Nulled(vs) \in [Local -> Pointer]
        /\ \A v \in Local : Nulled(vs)[v] = IF v \in vs THEN NULL ELSE var[v]
    BY DEF Nulled, Pointer
  <1>8. ASSUME NEW G \in SUBSET H, H \ vs \subseteq G
        PROVE  Owned(G, Nulled(vs), live')
    <2>1. \A v \in G : Nulled(vs)[v] = IF v \in vs THEN NULL ELSE var[v]
      BY <1>7
    <2>. QED BY <1>0, <1>6, <1>8, <2>1 DEF Owned
  <1>. QED BY <1>3, <1>6, <1>7, <1>8 DEF FreeMemory

-----------------------------------------------------------------------------
(* The steps                                                               *)

LEMMA OwnershipInit == Init => Ownership
  BY DEF Init, ConversionInit, Ownership, Aliasing, Owned, Holders, Pointer, Resampling

\* An allocation within the resampling, into a variable that held nothing.
LEMMA ResamplingAllocates ==
  ASSUME Ownership, pc \in Resampling, NEW v \in Local \ {"orig", "prev"}, NEW d,
         v \notin Holders(pc), New(v, d, var), pc' \in Resampling,
         Holders(pc') = Holders(pc) \cup {v}, misfreed' = misfreed
  PROVE  Ownership'
  <1>0. NULL \notin Block /\ ORIG \notin Block /\ NULL # ORIG
    BY StdAudFmtAssumption
  <1>1. Holders(pc) \in SUBSET Local /\ "prev" \in Local /\ "orig" \in Local
    BY DEF Holders, Local, Resampling
  <1>2. var \in [Local -> Pointer] /\ Owned(Holders(pc), var, live) /\ ~misfreed
    BY DEF Ownership, Aliasing
  <1>3. /\ var' \in [Local -> Pointer]
        /\ var'[v] \in Block \cup {NULL}
        /\ \A u \in Local : u # v => var'[u] = var[u]
        /\ Owned(Holders(pc'), var', live')
    BY <1>1, <1>2, NewOwned
  <1>4. var["orig"] = ORIG /\ var["prev"] \in Block
        /\ \A u \in Holders(pc) : u # "prev" => var[u] # ORIG
    BY DEF Ownership, Aliasing, Resampling
  <1>5. var'["orig"] = ORIG /\ var'["prev"] \in Block
    BY <1>1, <1>3, <1>4
  <1>6. \A u \in Holders(pc') : u # "prev" => var'[u] # ORIG
    BY <1>0, <1>1, <1>3, <1>4
  <1>7. pc' \notin {"toFloat", "toStereo", "toRate", "freePrev", "ok", "freeFailed"}
    BY DEF Resampling
  <1>8. Aliasing'
    BY <1>3, <1>5, <1>6, <1>7 DEF Aliasing, Pointer
  <1>. QED BY <1>2, <1>3, <1>8 DEF Ownership

\* Freeing variables within the resampling.
LEMMA ResamplingFrees ==
  ASSUME Ownership, pc \in Resampling, NEW vs \in SUBSET (Holders(pc) \ {"prev"}), Free(vs),
         Holders(pc') \subseteq Holders(pc), Holders(pc) \ vs \subseteq Holders(pc'),
         \/ pc' \in Resampling
         \/ pc' = "freePrev" /\ var["current"] # NULL /\ "current" \in Holders(pc) \ vs
         \/ pc' = "freeFailed" /\ var["current"] = NULL
  PROVE  Ownership'
  <1>0. NULL \notin Block /\ ORIG \notin Block /\ NULL # ORIG
    BY StdAudFmtAssumption
  <1>1. /\ Holders(pc) \in SUBSET Local /\ vs \in SUBSET Holders(pc)
        /\ "prev" \in Local /\ "orig" \in Local /\ "current" \in Local
        /\ "orig" \notin Holders(pc)
    BY DEF Holders, Local, Resampling
  <1>2. var \in [Local -> Pointer] /\ Owned(Holders(pc), var, live) /\ ~misfreed
    BY DEF Ownership, Aliasing
  <1>3. var["orig"] = ORIG /\ var["prev"] \in Block
        /\ \A u \in Holders(pc) : u # "prev" => var[u] # ORIG
    BY DEF Ownership, Aliasing, Resampling
  <1>4. \A u \in vs : var[u] # ORIG
    BY <1>3
  <1>5. /\ ~misfreed'
        /\ var' \in [Local -> Pointer]
        /\ \A u \in Local : var'[u] = IF u \in vs THEN NULL ELSE var[u]
        /\ Owned(Holders(pc'), var', live')
    BY <1>1, <1>2, <1>4, FreeOwned DEF Free
  <1>6. var'["orig"] = ORIG /\ var'["prev"] \in Block
    BY <1>1, <1>3, <1>5
  <1>7. \A u \in Holders(pc') : u # "prev" => var'[u] # ORIG
    BY <1>0, <1>1, <1>3, <1>5
  <1>8. pc' = "freePrev" => var'["current"] \in Block
    BY <1>1, <1>2, <1>3, <1>5 DEF Pointer, Resampling
  <1>9. pc' = "freeFailed" => var'["current"] = NULL
    BY <1>1, <1>5 DEF Resampling
  <1>10. pc' \notin {"toFloat", "toStereo", "toRate", "ok"}
    BY DEF Resampling
  <1>11. Aliasing'
    BY <1>5, <1>6, <1>7, <1>8, <1>9, <1>10 DEF Aliasing, Pointer
  <1>. QED BY <1>5, <1>11 DEF Ownership

\* The two channels, merged.
LEMMA ResamplingSteps ==
  ASSUME Ownership, LeftChannel \/ RightChannel \/ Merge \/ DropBoth
  PROVE  Ownership'
  <1>. USE DEF Resampling, Holders, Local
  <1>1. CASE SplitChannel("splitLeft", "orig_l", 0, "resampleLeft")
    <2>. DEFINE d == Split(Content("prev"), StdChannels, 0)
    <2>1. pc = "splitLeft" /\ pc' = "resampleLeft" /\ misfreed' = misfreed /\ New("orig_l", d, var)
      BY <1>1 DEF SplitChannel, Goto
    <2>. QED BY <2>1, ResamplingAllocates
  <1>2. CASE ResampleChannel("resampleLeft", "orig_l", "dest_l", "dropLeft")
    <2>. DEFINE d == ToSamplerateMono(Content("orig_l"), header.SampleRate, StdRate)
    <2>1. pc = "resampleLeft" /\ pc' = "dropLeft" /\ misfreed' = misfreed /\ New("dest_l", d, var)
      BY <1>2 DEF ResampleChannel, Goto
    <2>. QED BY <2>1, ResamplingAllocates
  <1>3. CASE DropChannel("dropLeft", "orig_l", "dest_l", {}, "splitRight")
    <2>. DEFINE vs == IF var["orig_l"] = NULL \/ var["dest_l"] = NULL
                      THEN {"orig_l", "dest_l"} \cup {} ELSE {"orig_l"}
    <2>1. pc = "dropLeft" /\ pc' = "splitRight" /\ Free(vs)
      BY <1>3 DEF DropChannel, Goto
    <2>2. vs \in SUBSET {"orig_l", "dest_l"} /\ "orig_l" \in vs
      OBVIOUS
    <2>. HIDE DEF vs
    <2>. QED BY <2>1, <2>2, ResamplingFrees
  <1>4. CASE SplitChannel("splitRight", "orig_r", 1, "resampleRight")
    <2>. DEFINE d == Split(Content("prev"), StdChannels, 1)
    <2>1. pc = "splitRight" /\ pc' = "resampleRight" /\ misfreed' = misfreed /\ New("orig_r", d, var)
      BY <1>4 DEF SplitChannel, Goto
    <2>. QED BY <2>1, ResamplingAllocates
  <1>5. CASE ResampleChannel("resampleRight", "orig_r", "dest_r", "dropRight")
    <2>. DEFINE d == ToSamplerateMono(Content("orig_r"), header.SampleRate, StdRate)
    <2>1. pc = "resampleRight" /\ pc' = "dropRight" /\ misfreed' = misfreed /\ New("dest_r", d, var)
      BY <1>5 DEF ResampleChannel, Goto
    <2>. QED BY <2>1, ResamplingAllocates
  <1>6. CASE DropChannel("dropRight", "orig_r", "dest_r", {"dest_l"}, "merge")
    <2>. DEFINE vs == IF var["orig_r"] = NULL \/ var["dest_r"] = NULL
                      THEN {"orig_r", "dest_r"} \cup {"dest_l"} ELSE {"orig_r"}
    <2>1. pc = "dropRight" /\ pc' = "merge" /\ Free(vs)
      BY <1>6 DEF DropChannel, Goto
    <2>2. vs \in SUBSET {"orig_r", "dest_r", "dest_l"} /\ "orig_r" \in vs
      OBVIOUS
    <2>. HIDE DEF vs
    <2>. QED BY <2>1, <2>2, ResamplingFrees
  <1>7. CASE Merge
    <2>. DEFINE d == MergeToStereo(Content("dest_l"), Content("dest_r"))
    <2>1. pc = "merge" /\ pc' = "dropBoth" /\ misfreed' = misfreed /\ New("current", d, var)
      BY <1>7 DEF Merge, Goto
    <2>. QED BY <2>1, ResamplingAllocates
  <1>8. CASE DropBoth
    <2>1. /\ pc = "dropBoth" /\ Free({"dest_l", "dest_r"})
          /\ pc' = IF var["current"] = NULL THEN "freeFailed" ELSE "freePrev"
      BY <1>8 DEF DropBoth, Goto
    <2>2. Holders(pc) = {"prev", "dest_l", "dest_r", "current"}
          /\ Holders(pc') = {"prev", "current"}
      BY <2>1
    <2>. QED BY <2>1, <2>2, ResamplingFrees
  <1>. QED BY <1>1, <1>2, <1>3, <1>4, <1>5, <1>6, <1>7, <1>8 DEF LeftChannel, RightChannel

\* What comes before the resampling, and its end.
LEMMA OtherSteps ==
  ASSUME Ownership, ToFloat \/ ToStereo \/ IsStereo \/ IsStdRate \/ ToRate \/ FreePrev
  PROVE  Ownership'
  <1>0. /\ NULL \notin Block /\ ORIG \notin Block /\ NULL # ORIG
        /\ {"orig", "prev", "current"} \subseteq Local
    BY StdAudFmtAssumption DEF Local
  <1>1. /\ var \in [Local -> Pointer] /\ ~misfreed
        /\ pc # "idle" => var["orig"] = ORIG
        /\ Owned(Holders(pc), var, live)
    BY DEF Ownership, Aliasing
  <1>2. CASE ToFloat
    <2>. DEFINE d == ToF32(Content("orig"), header.BitsPerSample)
    <2>1. pc = "toFloat" /\ misfreed' = misfreed /\ New("current", d, var)
          /\ pc' = IF var'["current"] = NULL THEN "failed" ELSE "toStereo"
      BY <1>2 DEF ToFloat, Goto
    <2>2. Owned({"prev"}, var, live) /\ var["prev"] = ORIG /\ var["orig"] = ORIG
      BY <2>1, <1>1 DEF Holders, Ownership, Aliasing
    <2>. DEFINE H == {"prev"}
    <2>3. H \in SUBSET Local /\ "current" \in Local /\ "current" \notin H /\ Owned(H, var, live)
      BY <1>0, <2>2
    <2>. HIDE DEF d, H
    <2>4. /\ var' \in [Local -> Pointer] /\ var'["current"] \in Block \cup {NULL}
          /\ \A u \in Local : u # "current" => var'[u] = var[u]
          /\ Owned(H \cup {"current"}, var', live')
      BY <1>1, <2>1, <2>3, NewOwned
    <2>5. /\ var' \in [Local -> Pointer] /\ var'["current"] \in Block \cup {NULL}
          /\ var'["prev"] = ORIG /\ var'["orig"] = ORIG
          /\ Owned({"prev"} \cup {"current"}, var', live')
      BY <1>0, <2>2, <2>4 DEF H
    <2>6. CASE var'["current"] = NULL
      BY <1>0, <1>1, <2>1, <2>5, <2>6 DEF Ownership, Aliasing, Holders, Owned, Resampling
    <2>7. CASE var'["current"] # NULL
      BY <1>0, <1>1, <2>1, <2>5, <2>7 DEF Ownership, Aliasing, Holders, Resampling
    <2>. QED BY <2>6, <2>7
  <1>3. CASE ToStereo
    <2>. DEFINE mid == [var EXCEPT !["prev"] = var["current"]]
                d   == MonoToXChannels(Content("current"), StdChannels)
    <2>1. pc = "toStereo" /\ misfreed' = misfreed /\ New("current", d, mid)
          /\ pc' = IF var'["current"] = NULL THEN "freeFailed" ELSE "toRate"
      BY <1>3 DEF ToStereo, Goto
    <2>2. Owned({"prev", "current"}, var, live) /\ var["prev"] = ORIG /\ var["orig"] = ORIG
          /\ var["current"] \in Block
      BY <2>1, <1>1 DEF Holders, Ownership, Aliasing
    <2>3. mid \in [Local -> Pointer] /\ mid["prev"] = var["current"] /\ mid["orig"] = ORIG
      BY <1>0, <1>1, <2>2 DEF Pointer
    <2>4. Owned({"prev"}, mid, live)
      BY <1>0, <2>2, <2>3 DEF Owned
    <2>. HIDE DEF d, mid
    <2>5. /\ var' \in [Local -> Pointer] /\ var'["current"] \in Block \cup {NULL}
          /\ var'["prev"] \in Block /\ var'["orig"] = ORIG
          /\ Owned({"prev"} \cup {"current"}, var', live')
      BY <1>0, <2>1, <2>2, <2>3, <2>4, NewOwned
    <2>. QED BY <1>0, <1>1, <2>1, <2>5 DEF Ownership, Aliasing, Holders, Resampling
  <1>4. CASE IsStereo
    BY <1>4 DEF IsStereo, Goto, Ownership, Aliasing, Holders, Resampling
  <1>5. CASE IsStdRate
    BY <1>5 DEF IsStdRate, Goto, Ownership, Aliasing, Holders, Resampling
  <1>6. ASSUME pc \in {"toRate", "freePrev", "freeFailed"}, FreeMemory(PrevIfOurs)
        PROVE  /\ ~misfreed'
               /\ Owned({"current"}, var, live')
               /\ Nulled(PrevIfOurs) \in [Local -> Pointer]
               /\ Nulled(PrevIfOurs)["orig"] = ORIG
               /\ Nulled(PrevIfOurs)["current"] = var["current"]
               /\ Owned({"current"}, Nulled(PrevIfOurs), live')
    <2>1. Owned({"prev", "current"}, var, live) /\ var["orig"] = ORIG
      BY <1>1, <1>6 DEF Holders
    <2>2. CASE var["prev"] = ORIG
      <3>1. PrevIfOurs = {} /\ Owned({"current"}, var, live)
        BY <1>0, <2>1, <2>2 DEF PrevIfOurs, Owned
      <3>. QED BY <1>0, <1>1, <1>6, <2>1, <3>1, FreeOwned
    <2>3. CASE var["prev"] # ORIG
      <3>1. PrevIfOurs = {"prev"} /\ {"prev", "current"} \ {"prev"} = {"current"}
        BY <2>1, <2>3 DEF PrevIfOurs
      <3>. QED BY <1>0, <1>1, <1>6, <2>1, <2>3, <3>1, FreeOwned
    <2>. QED BY <2>2, <2>3
  <1>7. CASE ToRate
    <2>1. pc = "toRate" /\ pc' = "splitLeft" /\ FreeMemory(PrevIfOurs)
          /\ var' = [var EXCEPT !["prev"] = var["current"]]
      BY <1>7 DEF ToRate, Goto
    <2>2. ~misfreed' /\ Owned({"current"}, var, live') /\ var["current"] \in Block
          /\ var["orig"] = ORIG
      BY <1>1, <1>6, <2>1 DEF Ownership, Aliasing
    <2>3. var' \in [Local -> Pointer] /\ var'["prev"] = var["current"] /\ var'["orig"] = ORIG
      BY <1>0, <1>1, <2>1, <2>2 DEF Pointer
    <2>4. Owned({"prev"}, var', live')
      BY <2>2, <2>3 DEF Owned
    <2>. QED BY <2>1, <2>2, <2>3, <2>4 DEF Ownership, Aliasing, Holders, Resampling
  <1>8. CASE FreePrev
    <2>1. pc \in {"freePrev", "freeFailed"} /\ FreeMemory(PrevIfOurs) /\ var' = Nulled(PrevIfOurs)
          /\ pc' = IF pc = "freePrev" THEN "ok" ELSE "failed"
      BY <1>8 DEF FreePrev, Free, Goto
    <2>2. /\ ~misfreed' /\ var' \in [Local -> Pointer] /\ var'["orig"] = ORIG
          /\ var'["current"] = var["current"] /\ Owned({"current"}, var', live')
      BY <1>6, <2>1
    <2>3. CASE pc = "freePrev"
      <3>1. var["current"] \in Block
        BY <2>3 DEF Ownership, Aliasing
      <3>. QED BY <1>0, <2>1, <2>2, <2>3, <3>1 DEF Ownership, Aliasing, Holders, Resampling
    <2>4. CASE pc = "freeFailed"
      <3>1. var["current"] = NULL
        BY <2>4 DEF Ownership, Aliasing
      <3>. QED BY <1>0, <2>1, <2>2, <2>4, <3>1 DEF Ownership, Aliasing, Holders, Owned, Resampling
    <2>. QED BY <2>1, <2>3, <2>4
  <1>. QED BY <1>2, <1>3, <1>4, <1>5, <1>7, <1>8

\* The caller: a conversion starts with nothing allocated and ends with its
\* result freed.
LEMMA CallerSteps ==
  ASSUME Ownership,
         \/ WAV_EOF \/ WAV_UnequalRead \/ WAV_Read \/ FLAC_EOF \/ FLAC_Read
         \/ Deliver \/ ConversionError
  PROVE  Ownership'
  <1>0. /\ NULL \notin Block /\ ORIG \notin Block /\ NULL # ORIG
        /\ {"orig", "prev", "current"} \subseteq Local
    BY StdAudFmtAssumption DEF Local
  <1>1. ASSUME UNCHANGED conversionVars PROVE Ownership'
    BY <1>1 DEF conversionVars, Ownership, Aliasing
  <1>2. CASE WAV_EOF \/ WAV_UnequalRead \/ FLAC_EOF
    BY <1>1, <1>2 DEF WAV_EOF, WAV_UnequalRead, FLAC_EOF, GiveUp
  <1>3. ASSUME NEW input, pc = "idle", Convert(input) PROVE Ownership'
    <2>1. /\ pc' = "toFloat" /\ live' = live /\ misfreed' = misfreed
          /\ var' = [v \in Local |-> IF v \in {"orig", "prev"} THEN ORIG ELSE NULL]
      BY <1>3 DEF Convert, Goto
    <2>2. var' \in [Local -> Pointer] /\ var'["orig"] = ORIG /\ var'["prev"] = ORIG
      BY <1>0, <2>1 DEF Pointer
    <2>3. Owned({"prev"}, var', live')
      BY <1>0, <1>3, <2>1, <2>2 DEF Ownership, Owned, Holders
    <2>. QED BY <2>1, <2>2, <2>3 DEF Ownership, Aliasing, Holders, Resampling
  <1>4. CASE WAV_Read \/ FLAC_Read
    BY <1>3, <1>4 DEF WAV_Read, FLAC_Read, Loading, HaveRead
  <1>5. CASE Deliver
    <2>1. pc = "ok" /\ pc' = "idle" /\ Free({"current"})
      BY <1>5 DEF Deliver, Goto
    <2>2. Owned({"current"}, var, live) /\ var["current"] # ORIG /\ var \in [Local -> Pointer]
          /\ ~misfreed
      BY <2>1 DEF Ownership, Aliasing, Holders
    <2>. DEFINE H == {"current"}
    <2>3. /\ H \in SUBSET Local /\ H \in SUBSET H /\ {} \in SUBSET H /\ H \ H \subseteq {}
          /\ Owned(H, var, live) /\ \A v \in H : var[v] # ORIG
          /\ FreeMemory(H) /\ var' = Nulled(H)
      BY <1>0, <2>1, <2>2 DEF Free
    <2>. HIDE DEF H
    <2>4. ~misfreed' /\ var' \in [Local -> Pointer] /\ Owned({}, var', live')
      BY <2>2, <2>3, FreeOwned
    <2>. QED BY <2>1, <2>4 DEF Ownership, Aliasing, Holders, Resampling
  <1>6. CASE ConversionError
    BY <1>6 DEF ConversionError, Goto, Ownership, Aliasing, Holders, Resampling
  <1>. QED BY <1>2, <1>4, <1>5, <1>6

LEMMA OwnershipNext == Ownership /\ [Next]_vars => Ownership'
  <1>. SUFFICES ASSUME Ownership, [Next]_vars PROVE Ownership'
    OBVIOUS
  <1>1. CASE UNCHANGED vars
    BY <1>1 DEF vars, conversionVars, Ownership, Aliasing
  <1>2. CASE Convey
    BY <1>2, ResamplingSteps, OtherSteps DEF Convey, Conversion
  <1>. QED BY <1>1, <1>2, CallerSteps DEF Next, Retired

\* The invariant holds in every reachable state.
THEOREM OwnershipHolds == Spec => []Ownership
  BY OwnershipInit, OwnershipNext, PTL DEF Spec

\* Whatever allocation fails, in whatever chunk of whatever file, a conversion
\* frees nothing twice, nothing it has not allocated, and never the input.
THEOREM FreesOwnOnly == Spec => []FreesOnlyItsOwn
  <1>1. Ownership => FreesOnlyItsOwn
    BY DEF Ownership, FreesOnlyItsOwn
  <1>. QED BY <1>1, OwnershipHolds, PTL

\* A conversion leaves its result allocated and nothing else, and nothing at all
\* when it fails or once the result has been delivered.
THEOREM NoBlockLeaks == Spec => []LeaksNothing
  <1>1. Ownership => LeaksNothing
    <2>. SUFFICES ASSUME Ownership PROVE LeaksNothing
      OBVIOUS
    <2>1. Owned(Holders(pc), var, live) /\ NULL \notin Block
      BY StdAudFmtAssumption DEF Ownership
    <2>2. CASE pc = "ok"
      <3>1. var["current"] \in Block /\ Owned({"current"}, var, live)
        BY <2>1, <2>2 DEF Ownership, Aliasing, Holders
      <3>. QED BY <2>1, <2>2, <3>1 DEF Owned, LeaksNothing
    <2>3. CASE pc \in {"failed", "idle"}
      <3>1. Owned({}, var, live)
        BY <2>1, <2>3 DEF Holders
      <3>. QED BY <2>3, <3>1 DEF Owned, LeaksNothing
    <2>. QED BY <2>2, <2>3 DEF LeaksNothing
  <1>. QED BY <1>1, OwnershipHolds, PTL
=============================================================================
