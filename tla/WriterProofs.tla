----------------------------- MODULE WriterProofs -----------------------------
(***************************************************************************)
(* Theorems about the writer, for every choice of the constants: any       *)
(* number of ids, contents, records, messages and I/O errors.              *)
(*                                                                         *)
(* The inductive invariant has a part for the id registries, whose steps   *)
(* come first, and a part for the stream, which is shown to be kept by     *)
(* each outcome of each helper (FinishChunk, StartChunk, ...) and then     *)
(* lifted to the calls made of them.                                       *)
(***************************************************************************)
EXTENDS WriterProperties, SequenceFacts, WellFoundedInduction, TLAPS

-------------------------------------------------------------------------------
(* The id registries: both ways of registering an id keep a registry       *)
(* consistent, so the expect() calls on the id maps of write.rs cannot     *)
(* fire.  The lemmas hold for every MaxId and for both overflow modes.     *)

\* The free id the search loop stops at is free and in range.
LEMMA MinIsFree ==
    ASSUME NEW S \in SUBSET Nat, S # {}
    PROVE  Min(S) \in S
  <1>1. PICK n \in S : \A m \in S : ~(<<m, n>> \in OpToRel(<, Nat))
    <2>. DEFINE R == OpToRel(<, Nat)
    <2>1. IsWellFoundedOn(R, Nat)
      BY NatLessThanWellFounded
    <2>. HIDE DEF R
    <2>2. \E n \in S : \A m \in S : ~(<<m, n>> \in R)
      BY <2>1, WFMin
    <2>. QED  BY <2>2 DEF R
  <1>2. \A m \in S : ~(m < n)
    BY <1>1 DEF OpToRel
  <1>3. \A m \in S : n <= m
    BY <1>2
  <1>. QED  BY <1>3 DEF Min

\* A registry that was just created is consistent.
LEMMA EmptyConsistent ==
    ASSUME NEW contents
    PROVE  RegistryType(EmptyRegistry, contents) /\ RegistryConsistent(EmptyRegistry)
  BY MaxIdAssumption
  DEF RegistryType, EmptyRegistry, RegistryConsistent, CanonicalInjective,
      CanonicalIsOwnAlias, AliasesResolve, CanonicalIds, Ids

\* What both maps have in common with an earlier registry decides the meaning
\* of the earlier ids.
Extends(old, new) ==
    /\ \A i \in DOMAIN old.all : i \in DOMAIN new.all /\ new.all[i] = old.all[i]
    /\ \A c \in DOMAIN old.canonical :
         c \in DOMAIN new.canonical /\ new.canonical[c] = old.canonical[c]

\* A registry that only grew gives every id and every content the meaning it had.
LEMMA ExtendsKeepsMeaning ==
    ASSUME NEW old, NEW new, RegistryConsistent(old), RegistryConsistent(new),
           Extends(old, new)
    PROVE  MeaningKept(old, new)
  <1>. SUFFICES ASSUME NEW i \in DOMAIN old.all
                PROVE  /\ i \in DOMAIN new.all
                       /\ ContentFor(new, i) = ContentFor(old, i)
    BY DEF MeaningKept
  <1>1. i \in DOMAIN new.all /\ new.all[i] = old.all[i]
    BY DEF Extends
  <1>2. PICK c \in DOMAIN old.canonical : old.canonical[c] = old.all[i]
    BY DEF RegistryConsistent, AliasesResolve, CanonicalIds
  <1>3. ContentFor(old, i) = c
    BY <1>2 DEF ContentFor, ContentOf, RegistryConsistent, CanonicalInjective
  <1>4. c \in DOMAIN new.canonical /\ new.canonical[c] = new.all[i]
    BY <1>1, <1>2 DEF Extends
  <1>5. ContentFor(new, i) = c
    BY <1>4 DEF ContentFor, ContentOf, RegistryConsistent, CanonicalInjective
  <1>. QED  BY <1>1, <1>3, <1>5

\* Giving fresh content an id that no written id and no content uses.
LEMMA ClaimConsistent ==
    ASSUME NEW contents, NEW reg, RegistryType(reg, contents), RegistryConsistent(reg),
           NEW content \in contents, content \notin DOMAIN reg.canonical,
           NEW id \in Ids, id \notin DOMAIN reg.all
    PROVE  /\ RegistryType(Claim(reg, content, id), contents)
           /\ RegistryConsistent(Claim(reg, content, id))
           /\ id \notin CanonicalIds(reg)
  <1>. DEFINE new == Claim(reg, content, id)
  <1>1. /\ DOMAIN new = {"canonical", "all", "next"}
        /\ new.canonical = Put(reg.canonical, content, id)
        /\ new.all = Put(reg.all, id, id)
        /\ new.next = reg.next
    BY DEF Claim, RegistryType
  <1>2. /\ DOMAIN new.canonical = DOMAIN reg.canonical \cup {content}
        /\ new.canonical[content] = id
        /\ \A c \in DOMAIN reg.canonical : new.canonical[c] = reg.canonical[c]
    BY <1>1 DEF Put
  <1>3. /\ DOMAIN new.all = DOMAIN reg.all \cup {id}
        /\ new.all[id] = id
        /\ \A i \in DOMAIN reg.all : new.all[i] = reg.all[i]
    BY <1>1 DEF Put
  <1>4. id \notin CanonicalIds(reg)
    BY DEF RegistryConsistent, CanonicalIsOwnAlias, CanonicalIds
  <1>. HIDE DEF new
  <1>5. RegistryType(new, contents)
    BY <1>1, <1>2, <1>3 DEF RegistryType
  <1>6. CanonicalInjective(new)
    BY <1>2, <1>4 DEF CanonicalInjective, RegistryConsistent, CanonicalIds
  <1>7. CanonicalIsOwnAlias(new)
    BY <1>2, <1>3 DEF CanonicalIsOwnAlias, RegistryConsistent
  <1>8. AliasesResolve(new)
    BY <1>2, <1>3 DEF AliasesResolve, RegistryConsistent, CanonicalIds
  <1>. QED  BY <1>4, <1>5, <1>6, <1>7, <1>8 DEF RegistryConsistent, new

\* Claiming a free id for a new content adds that pair and changes no other.
LEMMA ClaimExtends ==
    ASSUME NEW contents, NEW reg, RegistryType(reg, contents),
           NEW content, content \notin DOMAIN reg.canonical,
           NEW id, id \notin DOMAIN reg.all
    PROVE  /\ Extends(reg, Claim(reg, content, id))
           /\ DOMAIN Claim(reg, content, id).all = DOMAIN reg.all \cup {id}
           /\ DOMAIN Claim(reg, content, id).canonical =
                DOMAIN reg.canonical \cup {content}
  <1>1. /\ Claim(reg, content, id).canonical = Put(reg.canonical, content, id)
        /\ Claim(reg, content, id).all = Put(reg.all, id, id)
    BY DEF Claim, RegistryType
  <1>. QED  BY <1>1 DEF Extends, Put

\* Changing only the next id to try.
LEMMA NextIrrelevant ==
    ASSUME NEW contents, NEW reg, RegistryType(reg, contents), RegistryConsistent(reg),
           NEW n \in Ids
    PROVE  /\ RegistryType([reg EXCEPT !.next = n], contents)
           /\ RegistryConsistent([reg EXCEPT !.next = n])
  <1>1. /\ DOMAIN [reg EXCEPT !.next = n] = {"canonical", "all", "next"}
        /\ [reg EXCEPT !.next = n].canonical = reg.canonical
        /\ [reg EXCEPT !.next = n].all = reg.all
        /\ [reg EXCEPT !.next = n].next = n
    BY DEF RegistryType
  <1>. QED  BY <1>1 DEF RegistryType, RegistryConsistent, CanonicalInjective,
                        CanonicalIsOwnAlias, AliasesResolve, CanonicalIds

\* The next id after an id is a 16-bit id, the wrap at the end of the range included.
LEMMA BumpInRange == ASSUME NEW id \in Ids PROVE Bump(id) \in Ids
  BY MaxIdAssumption DEF Bump, Ids

\* add_schema / add_channel keep a registry consistent and never run into the
\* expect() of insert_no_overwrite; a new id is one that nothing used before.
THEOREM AddConsistent ==
    ASSUME NEW contents, NEW reg, RegistryType(reg, contents), RegistryConsistent(reg),
           NEW content \in contents
    PROVE  LET a == Add(reg, content)
           IN /\ RegistryType(a.reg, contents) /\ RegistryConsistent(a.reg)
              /\ a.verdict \in {"known", "TooMany", "panic_overflow", "new"}
              /\ Extends(reg, a.reg)
              /\ DOMAIN a.reg.canonical \subseteq DOMAIN reg.canonical \cup {content}
              /\ a.verdict = "new" => a.id \in Ids /\ a.id \notin DOMAIN reg.all
  <1>. DEFINE free == FreeIds(reg)
              id == Min(free)
  <1>1. CASE content \in DOMAIN reg.canonical
    <2>1. Add(reg, content) = [reg |-> reg, verdict |-> "known",
                               id |-> reg.canonical[content]]
      BY <1>1 DEF Add
    <2>. QED  BY <2>1 DEF Extends
  <1>2. CASE content \notin DOMAIN reg.canonical /\ free = {}
    <2>. DEFINE new == [reg EXCEPT !.next = MaxId]
    <2>1. Add(reg, content) = [reg |-> new, verdict |-> "TooMany", id |-> 0]
      BY <1>2 DEF Add
    <2>2. MaxId \in Ids
      BY MaxIdAssumption DEF Ids
    <2>3. new.all = reg.all /\ new.canonical = reg.canonical
      BY DEF RegistryType
    <2>4. RegistryType(new, contents) /\ RegistryConsistent(new)
      BY <2>2, NextIrrelevant
    <2>. HIDE DEF new
    <2>. QED  BY <2>1, <2>3, <2>4 DEF Extends
  <1>3. CASE content \notin DOMAIN reg.canonical /\ free # {}
    <2>1. id \in free /\ id \in Ids /\ id \notin DOMAIN reg.all
      <3>1. free \in SUBSET Nat /\ free \subseteq Ids
        BY MaxIdAssumption DEF FreeIds, RegistryType, Ids
      <3>2. id \in free
        BY <1>3, <3>1, MinIsFree
      <3>. QED  BY <3>1, <3>2 DEF FreeIds
    <2>2. CASE id = MaxId /\ OverflowChecks
      <3>. DEFINE new == [reg EXCEPT !.next = id]
      <3>1. Add(reg, content) = [reg |-> new, verdict |-> "panic_overflow",
                                 id |-> 0]
        BY <1>3, <2>2 DEF Add
      <3>2. new.all = reg.all /\ new.canonical = reg.canonical
        BY DEF RegistryType
      <3>. HIDE DEF id
      <3>3. RegistryType(new, contents) /\ RegistryConsistent(new)
        BY <2>1, NextIrrelevant
      <3>. HIDE DEF new
      <3>. QED  BY <3>1, <3>2, <3>3 DEF Extends
    <2>3. CASE ~(id = MaxId /\ OverflowChecks)
      <3>. DEFINE mid == Claim(reg, content, id)
                  new == [mid EXCEPT !.next = Bump(id)]
      <3>1. /\ RegistryType(mid, contents) /\ RegistryConsistent(mid)
            /\ id \notin CanonicalIds(reg)
        BY <1>3, <2>1, ClaimConsistent
      <3>2. Add(reg, content) = [reg |-> new, verdict |-> "new", id |-> id]
        BY <1>3, <2>3, <3>1 DEF Add
      <3>3. /\ Extends(reg, mid)
            /\ DOMAIN mid.canonical = DOMAIN reg.canonical \cup {content}
        BY <1>3, <2>1, ClaimExtends
      <3>. HIDE DEF mid, id
      <3>4. new.all = mid.all /\ new.canonical = mid.canonical
        BY <3>1 DEF RegistryType
      <3>5. RegistryType(new, contents) /\ RegistryConsistent(new)
        BY <3>1, <2>1, BumpInRange, NextIrrelevant
      <3>. HIDE DEF new
      <3>. QED  BY <2>1, <3>2, <3>3, <3>4, <3>5 DEF Extends
    <2>. QED  BY <2>2, <2>3
  <1>. QED  BY <1>1, <1>2, <1>3

\* The same for the path through write(), where the caller chose the id.
THEOREM RegisterAsConsistent ==
    ASSUME NEW contents, NEW reg, RegistryType(reg, contents), RegistryConsistent(reg),
           NEW content \in contents, NEW id \in Ids
    PROVE  LET a == RegisterAs(reg, id, content)
           IN /\ RegistryType(a.reg, contents) /\ RegistryConsistent(a.reg)
              /\ a.verdict \in {"known", "Conflict", "panic_occupied", "new"}
              /\ Extends(reg, a.reg)
              /\ a.verdict \in {"known", "new"} => id \in DOMAIN a.reg.all
              /\ DOMAIN a.reg.canonical \subseteq DOMAIN reg.canonical \cup {content}
              /\ a.verdict \notin {"known", "new"} => a.reg = reg
  <1>1. CASE id \in DOMAIN reg.all
    BY <1>1 DEF RegisterAs, Extends
  <1>2. CASE id \notin DOMAIN reg.all /\ content \in DOMAIN reg.canonical
    <2>. DEFINE new == Alias(reg, id, content)
    <2>1. RegisterAs(reg, id, content) =
            [reg |-> new, verdict |-> "new", id |-> id]
      BY <1>2 DEF RegisterAs
    <2>2. /\ DOMAIN new = {"canonical", "all", "next"}
          /\ new.canonical = reg.canonical /\ new.next = reg.next
          /\ new.all = Put(reg.all, id, reg.canonical[content])
      BY DEF Alias, RegistryType
    <2>3. /\ DOMAIN new.all = DOMAIN reg.all \cup {id}
          /\ new.all[id] = reg.canonical[content]
          /\ \A i \in DOMAIN reg.all : new.all[i] = reg.all[i]
      BY <1>2, <2>2 DEF Put
    <2>. HIDE DEF new
    <2>4. RegistryType(new, contents)
      BY <1>2, <2>2, <2>3 DEF RegistryType
    <2>5. RegistryConsistent(new)
      BY <1>2, <2>2, <2>3 DEF RegistryConsistent, CanonicalInjective,
                              CanonicalIsOwnAlias, AliasesResolve, CanonicalIds
    <2>. QED  BY <2>1, <2>2, <2>3, <2>4, <2>5 DEF Extends
  <1>3. CASE id \notin DOMAIN reg.all /\ content \notin DOMAIN reg.canonical
    <2>. DEFINE new == Claim(reg, content, id)
    <2>1. /\ RegistryType(new, contents) /\ RegistryConsistent(new)
          /\ id \notin CanonicalIds(reg)
      BY <1>3, ClaimConsistent
    <2>2. RegisterAs(reg, id, content) =
            [reg |-> new, verdict |-> "new", id |-> id]
      BY <1>3, <2>1 DEF RegisterAs
    <2>3. /\ Extends(reg, new)
          /\ DOMAIN new.all = DOMAIN reg.all \cup {id}
          /\ DOMAIN new.canonical = DOMAIN reg.canonical \cup {content}
      BY <1>3, ClaimExtends
    <2>. HIDE DEF new
    <2>. QED  BY <2>1, <2>2, <2>3
  <1>. QED  BY <1>1, <1>2, <1>3

\* write() accepts an id for just the content it may stand for.
LEMMA RegisterAsVerdict ==
    ASSUME NEW contents, NEW reg, RegistryType(reg, contents), RegistryConsistent(reg),
           NEW content \in contents, NEW id \in Ids
    PROVE  LET a == RegisterAs(reg, id, content)
           IN /\ Accepted(a) <=> ~Clashes(reg, id, content)
              /\ a.verdict = "panic_occupied" => Unseen(reg, content)
  <1>1. CASE id \in DOMAIN reg.all
    <2>1. PICK c \in DOMAIN reg.canonical : reg.canonical[c] = reg.all[id]
      BY <1>1 DEF RegistryConsistent, AliasesResolve, CanonicalIds
    <2>2. ContentFor(reg, id) = c
      BY <2>1 DEF ContentFor, ContentOf, RegistryConsistent, CanonicalInjective
    <2>3. content \in DOMAIN reg.canonical => (reg.canonical[content] = reg.all[id] <=> content = c)
      BY <2>1 DEF RegistryConsistent, CanonicalInjective
    <2>. QED  BY <1>1, <2>1, <2>2, <2>3 DEF RegisterAs, Accepted, Clashes, Unseen
  <1>2. CASE id \notin DOMAIN reg.all
    <2>1. RegisterAs(reg, id, content).verdict = "new"
      BY <1>2, ClaimConsistent DEF RegisterAs
    <2>. QED  BY <1>2, <2>1 DEF Accepted, Clashes
  <1>. QED  BY <1>1, <1>2

\* The id was given to the content c.
Means(reg, id, c) ==
    /\ id \in DOMAIN reg.all
    /\ c \in DOMAIN reg.canonical
    /\ reg.canonical[c] = reg.all[id]

\* A registration that calls for a record has bound its id, and no other, to
\* the content of the record.
Binds(old, new, id, c) == Means(new, id, c) /\ DOMAIN new.all = DOMAIN old.all \cup {id}

\* add_schema and add_channel bind the id they hand out.
LEMMA AddBinds ==
    ASSUME NEW contents, NEW reg, RegistryType(reg, contents), RegistryConsistent(reg),
           NEW content \in contents, Add(reg, content).verdict = "new"
    PROVE  Binds(reg, Add(reg, content).reg, Add(reg, content).id, content)
  <1>. DEFINE free == FreeIds(reg)
              id == Min(free)
              mid == Claim(reg, content, id)
              new == [mid EXCEPT !.next = Bump(id)]
  <1>1. /\ content \notin DOMAIN reg.canonical /\ free # {}
        /\ ~(id = MaxId /\ OverflowChecks) /\ id \notin CanonicalIds(reg)
    BY DEF Add
  <1>2. Add(reg, content) = [reg |-> new, verdict |-> "new", id |-> id]
    BY <1>1 DEF Add
  <1>3. mid.canonical = Put(reg.canonical, content, id) /\ mid.all = Put(reg.all, id, id)
        /\ DOMAIN mid = {"canonical", "all", "next"}
    BY DEF Claim, RegistryType
  <1>. HIDE DEF mid, id
  <1>4. new.canonical = mid.canonical /\ new.all = mid.all
    BY <1>3
  <1>. HIDE DEF new
  <1>5. Binds(reg, new, id, content)
    BY <1>3, <1>4 DEF Binds, Means, Put
  <1>. QED  BY <1>2, <1>5

\* write() binds the id of the message: to content it has given another id
\* before, or to new content.
LEMMA RegisterAsBinds ==
    ASSUME NEW contents, NEW reg, RegistryType(reg, contents), RegistryConsistent(reg),
           NEW content \in contents, NEW id \in Ids,
           RegisterAs(reg, id, content).verdict = "new"
    PROVE  Binds(reg, RegisterAs(reg, id, content).reg, id, content)
  <1>0. id \notin DOMAIN reg.all
    BY DEF RegisterAs
  <1>1. CASE content \in DOMAIN reg.canonical
    <2>. DEFINE new == Alias(reg, id, content)
    <2>1. RegisterAs(reg, id, content) = [reg |-> new, verdict |-> "new", id |-> id]
      BY <1>0, <1>1 DEF RegisterAs
    <2>2. /\ new.canonical = reg.canonical
          /\ new.all = Put(reg.all, id, reg.canonical[content])
      BY DEF Alias, RegistryType
    <2>. HIDE DEF new
    <2>3. Binds(reg, new, id, content)
      BY <1>1, <2>2 DEF Binds, Means, Put
    <2>. QED  BY <2>1, <2>3
  <1>2. CASE content \notin DOMAIN reg.canonical
    <2>. DEFINE new == Claim(reg, content, id)
    <2>1. RegisterAs(reg, id, content) = [reg |-> new, verdict |-> "new", id |-> id]
      BY <1>0, <1>2, ClaimConsistent DEF RegisterAs
    <2>2. new.canonical = Put(reg.canonical, content, id) /\ new.all = Put(reg.all, id, id)
      BY DEF Claim, RegistryType
    <2>. HIDE DEF new
    <2>3. Binds(reg, new, id, content)
      BY <2>2 DEF Binds, Means, Put
    <2>. QED  BY <2>1, <2>3
  <1>. QED  BY <1>1, <1>2

\* Any other verdict leaves the ids as they are.
LEMMA NothingBound ==
    ASSUME NEW contents, NEW reg, RegistryType(reg, contents), NEW content, NEW id
    PROVE  /\ Add(reg, content).verdict \notin {"new", "panic_insert"}
                => DOMAIN Add(reg, content).reg.all = DOMAIN reg.all
           /\ RegisterAs(reg, id, content).verdict # "new"
                => RegisterAs(reg, id, content).reg = reg
  <1>1. RegisterAs(reg, id, content).verdict # "new"
          => RegisterAs(reg, id, content).reg = reg
    BY DEF RegisterAs
  <1>2. \A n : [reg EXCEPT !.next = n].all = reg.all
    BY DEF RegistryType
  <1>3. Add(reg, content).verdict \notin {"new", "panic_insert"}
          => DOMAIN Add(reg, content).reg.all = DOMAIN reg.all
    BY <1>2 DEF Add
  <1>. QED  BY <1>1, <1>3

-------------------------------------------------------------------------------
(* The stream.                                                             *)

OutFields == {"mode", "file", "hashed", "chunk_mode", "chunk", "att",
              "chunk_indexes", "attachment_count", "attachment_indexes",
              "metadata_count", "metadata_indexes", "faults"}

ChunkFields == {"offset", "recs", "bounds", "index", "buffered"}

\* A chunk is buffered for as long as seeking is disabled: while no chunk is
\* open the buffer waits in chunk_mode.
Buffering(o) ==
    /\ o.mode = "Chunk" => opts.use_chunks
    /\ opts.use_chunks /\ opts.disable_seeking =>
         /\ o.mode \in {"Raw", "Attachment"} => o.chunk_mode = "Buffered"
         /\ o.mode = "Chunk" => o.chunk.buffered

\* The index records collected for the summary.
Lists(o) == <<o.chunk_indexes, o.attachment_indexes, o.metadata_indexes>>

AllOf(s, op) == IsSeq(s) /\ \A r \in ToSet(s) : r.op = op

ListsOK(l) == /\ AllOf(l[1], "ChunkIndex")
              /\ AllOf(l[2], "AttachmentIndex")
              /\ AllOf(l[3], "MetadataIndex")

StreamOK(o) ==
    /\ DOMAIN o = OutFields
    /\ DOMAIN o.chunk = ChunkFields
    /\ o.mode \in Modes
    /\ o.chunk_mode \in {"Direct", "Buffered"}
    /\ o.att \in [length : Nat, position : Nat]
    /\ o.att.position <= o.att.length
    /\ o.mode # "Chunk" => o.chunk = NoChunk
    /\ o.mode # "Attachment" => o.att = NoAttachment
    /\ finished => o.mode \in {"Raw", "Dropped"}
    /\ ListsOK(Lists(o))
    /\ Buffering(o)

\* The expect() calls on the id maps, and the results without them.
Expects == {"panic_insert", "panic_summary"}

\* What only the registries say, and never the stream.
Refusals == {"panic_occupied", "Conflict"}

OutcomeOK(x) == StreamOK(x.out) /\ x.res \notin Expects \cup Refusals

\* The value that stands for no chunk has the fields of a chunk.
LEMMA NoChunkFields == DOMAIN NoChunk = ChunkFields
  BY DEF NoChunk, ChunkFields

\* One more index record.
LEMMA ListGrows ==
    ASSUME NEW s, NEW op, AllOf(s, op), NEW r, r.op = op
    PROVE  AllOf(Append(s, r), op)
  BY AppendFacts DEF AllOf

\* None at all.
LEMMA NothingCollected == ListsOK(<<<<>>, <<>>, <<>>>>)
  <1>1. \A op : AllOf(<<>>, op)
    BY EmptyFacts DEF AllOf
  <1>. QED  BY <1>1 DEF ListsOK

\* Bytes appended to the file leave the writer's mode, its open chunk and its lists alone.
LEMMA AppendedOK ==
    ASSUME NEW o, StreamOK(o), NEW rs
    PROVE  /\ StreamOK(Appended(o, rs))
           /\ Appended(o, rs).mode = o.mode
           /\ Appended(o, rs).chunk_mode = o.chunk_mode
           /\ Appended(o, rs).chunk = o.chunk
           /\ Appended(o, rs).att = o.att
           /\ Lists(Appended(o, rs)) = Lists(o)
           /\ DOMAIN Appended(o, rs) = OutFields
  <1>1. /\ DOMAIN Appended(o, rs) = OutFields
        /\ Appended(o, rs).mode = o.mode
        /\ Appended(o, rs).chunk_mode = o.chunk_mode
        /\ Appended(o, rs).chunk = o.chunk
        /\ Appended(o, rs).att = o.att
        /\ Lists(Appended(o, rs)) = Lists(o)
    BY DEF Appended, StreamOK, OutFields, Lists
  <1>. QED  BY <1>1 DEF StreamOK, Buffering

\* What an I/O error leaves differs from the states given only in the number
\* of errors.
LEMMA IoErrorOK ==
    ASSUME NEW o, NEW after, \A a \in after : StreamOK(a)
    PROVE  \A x \in IoError(o, after) : OutcomeOK(x) /\ x.res # "Ok"
  <1>. SUFFICES ASSUME NEW x \in IoError(o, after)
                PROVE  OutcomeOK(x) /\ x.res # "Ok"
    OBVIOUS
  <1>1. PICK a \in after : x = [out |-> [a EXCEPT !.faults = @ + 1], res |-> "Io"]
    BY DEF IoError
  <1>. DEFINE b == [a EXCEPT !.faults = @ + 1]
  <1>2. /\ DOMAIN b = OutFields
        /\ b.mode = a.mode /\ b.chunk_mode = a.chunk_mode
        /\ b.chunk = a.chunk /\ b.att = a.att /\ Lists(b) = Lists(a)
    BY DEF StreamOK, OutFields, Lists
  <1>3. x.out = b /\ x.res = "Io"
    BY <1>1
  <1>. HIDE DEF b
  <1>4. StreamOK(b)
    BY <1>2 DEF StreamOK, Buffering
  <1>. QED  BY <1>3, <1>4 DEF OutcomeOK, Expects, Refusals

-------------------------------------------------------------------------------
(* The helpers of the stream, outcome by outcome.                          *)

\* A call is let through exactly when the writer is unfinished and neither in the middle of an
\* attachment nor failed nor without its stream; a refusal is no failing expect().
LEMMA RefusalNone ==
    ASSUME NEW o, o.mode \in Modes, finished \in BOOLEAN
    PROVE  /\ Refusal(o) \notin Expects \cup Refusals
           /\ Refusal(o) = "none" <=>
                ~finished /\ o.mode \in {"Raw", "Chunk", "Dropped"}
  BY DEF Refusal, ModeRefusal, Modes, Expects, Refusals

\* An underlying write that fails part way leaves everything but the file's bytes as it was.
LEMMA TornOrOK ==
    ASSUME NEW o, StreamOK(o)
    PROVE  \A a \in TornOr(o) : StreamOK(a) /\ a.mode = o.mode
                                /\ a.chunk_mode = o.chunk_mode
                                /\ a.chunk = o.chunk /\ a.att = o.att
                                /\ Lists(a) = Lists(o)
  BY AppendedOK DEF TornOr

\* Finishing a chunk gives the buffer back.
LEMMA ChunkDoneOK ==
    ASSUME NEW o, StreamOK(o), o.mode = "Chunk", ~finished, opts \in OptionType
    PROVE  StreamOK(ChunkDone(o)) /\ ChunkDone(o).mode = "Raw"
  <1>. DEFINE d == ChunkDone(o)
  <1>1. /\ DOMAIN d = OutFields
        /\ d.mode = "Raw" /\ d.chunk_mode = ModeAfter(o.chunk)
        /\ d.chunk = NoChunk /\ d.att = o.att
        /\ d.attachment_indexes = o.attachment_indexes
        /\ d.metadata_indexes = o.metadata_indexes
    BY DEF ChunkDone, StreamOK, OutFields
  <1>. DEFINE mi == MessageIndexes(o.chunk)
              at == [i \in DOMAIN o.chunk.index |->
                      Len(o.file) + 1 + (CHOOSE k \in DOMAIN mi : mi[k].channel = i)]
              e == [op |-> "ChunkIndex", offset |-> o.chunk.offset,
                    bounds |-> BoundsOrZero(o.chunk.bounds),
                    message_index_offsets |-> at]
  <1>e. e.op = "ChunkIndex"
    OBVIOUS
  <1>2. d.chunk_indexes = Append(o.chunk_indexes, e)
    BY DEF ChunkDone, StreamOK, OutFields
  <1>. HIDE DEF d, e
  <1>3. ListsOK(Lists(d))
    <2>1. /\ AllOf(o.chunk_indexes, "ChunkIndex")
          /\ AllOf(o.attachment_indexes, "AttachmentIndex")
          /\ AllOf(o.metadata_indexes, "MetadataIndex")
      BY DEF StreamOK, ListsOK, Lists
    <2>2. AllOf(d.chunk_indexes, "ChunkIndex")
      BY <1>e, <1>2, <2>1, ListGrows
    <2>. QED  BY <1>1, <2>1, <2>2 DEF ListsOK, Lists
  <1>4. StreamOK(d)
    BY <1>1, <1>3, NoChunkFields DEF StreamOK, Buffering, ModeAfter, Modes
  <1>. QED  BY <1>1, <1>4 DEF d

\* A chunk whose finishing fails leaves a consistent writer.
LEMMA ChunkBrokenOK ==
    ASSUME NEW o, StreamOK(o), o.mode = "Chunk", ~finished
    PROVE  \A a \in ChunkBroken(o) : StreamOK(a)
  <1>. SUFFICES ASSUME NEW a \in ChunkBroken(o)
                PROVE  StreamOK(a)
    OBVIOUS
  <1>1. PICK f : a = [o EXCEPT !.mode = "Failed", !.file = f, !.chunk = NoChunk]
    BY DEF ChunkBroken
  <1>2. /\ DOMAIN a = OutFields
        /\ a.mode = "Failed" /\ a.chunk_mode = o.chunk_mode
        /\ a.chunk = NoChunk /\ a.att = o.att /\ Lists(a) = Lists(o)
    BY <1>1 DEF StreamOK, OutFields, Lists
  <1>. QED  BY <1>2, NoChunkFields DEF StreamOK, Buffering, Modes

\* finish_chunk keeps the stream consistent and, when it succeeds, leaves the writer outside
\* any chunk.
LEMMA FinishChunkOK ==
    ASSUME NEW o, StreamOK(o), o.mode # "Dropped", finished \in BOOLEAN,
           opts \in OptionType
    PROVE  \A x \in FinishChunk(o) :
             /\ OutcomeOK(x)
             /\ x.res = "Ok" => x.out.mode = "Raw" /\ ~finished
  <1>0. o.mode \in Modes
    BY DEF StreamOK
  <1>1. CASE Refusal(o) # "none"
    <2>1. FinishChunk(o) = Fails(o, Refusal(o))
      BY <1>1 DEF FinishChunk
    <2>2. Refusal(o) # "Ok" /\ Refusal(o) \notin Expects \cup Refusals
      BY <1>0 DEF Refusal, ModeRefusal, Modes, Expects, Refusals
    <2>. QED  BY <2>1, <2>2 DEF Fails, OutcomeOK
  <1>2. CASE Refusal(o) = "none" /\ o.mode = "Chunk"
    <2>1. FinishChunk(o) = Ok(ChunkDone(o)) \cup IoError(o, ChunkBroken(o))
      BY <1>2 DEF FinishChunk
    <2>2. ~finished
      BY <1>0, <1>2, RefusalNone
    <2>3. \A x \in IoError(o, ChunkBroken(o)) : OutcomeOK(x) /\ x.res # "Ok"
      BY <1>2, <2>2, ChunkBrokenOK, IoErrorOK
    <2>4. StreamOK(ChunkDone(o)) /\ ChunkDone(o).mode = "Raw"
      BY <1>2, <2>2, ChunkDoneOK
    <2>5. \A x \in Ok(ChunkDone(o)) : OutcomeOK(x) /\ x.out.mode = "Raw"
      BY <2>4 DEF Ok, OutcomeOK, Expects, Refusals
    <2>. QED  BY <2>1, <2>2, <2>3, <2>5
  <1>3. CASE Refusal(o) = "none" /\ o.mode # "Chunk"
    <2>1. FinishChunk(o) = Ok(o)
      BY <1>3 DEF FinishChunk
    <2>2. ~finished /\ o.mode = "Raw"
      BY <1>0, <1>3, RefusalNone
    <2>. QED  BY <2>1, <2>2 DEF Ok, OutcomeOK, Expects, Refusals
  <1>. QED  BY <1>1, <1>2, <1>3

\* A freshly opened chunk is consistent with the writer that opened it.
LEMMA ChunkOpenedOK ==
    ASSUME NEW o, StreamOK(o), o.mode = "Raw", ~finished, opts.use_chunks
    PROVE  StreamOK(ChunkOpened(o)) /\ ChunkOpened(o).mode = "Chunk"
  <1>. DEFINE d == ChunkOpened(o)
              c == [NoChunk EXCEPT !.offset = Len(o.file) + 1,
                                   !.buffered = o.chunk_mode = "Buffered"]
  <1>0. DOMAIN c = ChunkFields /\ c.buffered = (o.chunk_mode = "Buffered")
    BY NoChunkFields DEF ChunkFields, NoChunk
  <1>1. /\ DOMAIN d = OutFields
        /\ d.mode = "Chunk" /\ d.chunk_mode = "Direct"
        /\ d.chunk = c /\ d.att = o.att /\ Lists(d) = Lists(o)
    BY DEF ChunkOpened, StreamOK, OutFields, Lists
  <1>. HIDE DEF d, c
  <1>2. StreamOK(d)
    BY <1>0, <1>1 DEF StreamOK, Buffering, Modes
  <1>. QED  BY <1>1, <1>2 DEF d

\* A constructor that fails drops the stream it has taken.
LEMMA StreamLost ==
    ASSUME NEW o, StreamOK(o), o.mode = "Raw", ~finished,
           NEW a \in {o} \cup TornOr(o)
    PROVE  StreamOK([a EXCEPT !.mode = "None"])
  <1>. DEFINE d == [a EXCEPT !.mode = "None"]
  <1>1. StreamOK(a) /\ a.mode = "Raw"
    BY TornOrOK
  <1>2. /\ DOMAIN d = OutFields
        /\ d.mode = "None" /\ d.chunk_mode = a.chunk_mode
        /\ d.chunk = a.chunk /\ d.att = a.att /\ Lists(d) = Lists(a)
    BY <1>1 DEF StreamOK, OutFields, Lists
  <1>. HIDE DEF d
  <1>3. StreamOK(d)
    BY <1>1, <1>2 DEF StreamOK, Buffering, Modes
  <1>. QED  BY <1>3 DEF d

\* start_chunk keeps the stream consistent and, when it succeeds, leaves a chunk open.
LEMMA StartChunkOK ==
    ASSUME NEW o, StreamOK(o), o.mode # "Dropped", finished \in BOOLEAN,
           opts.use_chunks
    PROVE  \A x \in StartChunk(o) :
             /\ OutcomeOK(x)
             /\ x.res = "Ok" => x.out.mode = "Chunk" /\ ~finished
  <1>0. o.mode \in Modes
    BY DEF StreamOK
  <1>1. CASE Refusal(o) # "none"
    <2>1. StartChunk(o) = Fails(o, Refusal(o))
      BY <1>1 DEF StartChunk
    <2>2. Refusal(o) # "Ok" /\ Refusal(o) \notin Expects \cup Refusals
      BY <1>0 DEF Refusal, ModeRefusal, Modes, Expects, Refusals
    <2>. QED  BY <2>1, <2>2 DEF Fails, OutcomeOK
  <1>2. CASE Refusal(o) = "none" /\ o.mode = "Raw"
    <2>. DEFINE lost == {[a EXCEPT !.mode = "None"] : a \in
                           IF o.chunk_mode = "Buffered" THEN {o} ELSE TornOr(o)}
    <2>1. StartChunk(o) = Ok(ChunkOpened(o)) \cup IoError(o, lost)
      BY <1>2 DEF StartChunk
    <2>2. ~finished
      BY <1>0, <1>2, RefusalNone
    <2>3. \A a \in lost : StreamOK(a)
      BY <1>2, <2>2, StreamLost
    <2>. HIDE DEF lost
    <2>4. \A x \in IoError(o, lost) : OutcomeOK(x) /\ x.res # "Ok"
      BY <2>3, IoErrorOK
    <2>5. \A x \in Ok(ChunkOpened(o)) : OutcomeOK(x) /\ x.out.mode = "Chunk"
      BY <1>2, <2>2, ChunkOpenedOK DEF Ok, OutcomeOK, Expects, Refusals
    <2>. QED  BY <2>1, <2>2, <2>4, <2>5
  <1>3. CASE Refusal(o) = "none" /\ o.mode # "Raw"
    <2>1. StartChunk(o) = Ok(o)
      BY <1>3 DEF StartChunk
    <2>2. ~finished /\ o.mode = "Chunk"
      BY <1>0, <1>3, RefusalNone
    <2>. QED  BY <2>1, <2>2 DEF Ok, OutcomeOK, Expects, Refusals
  <1>. QED  BY <1>1, <1>2, <1>3

\* A record appended to the file outside a chunk keeps the stream consistent.
LEMMA AppendRawOK ==
    ASSUME NEW o, StreamOK(o), NEW r
    PROVE  \A x \in AppendRaw(o, r) :
             OutcomeOK(x) /\ (x.res = "Ok" => x.out.mode = o.mode)
  <1>1. \A x \in IoError(o, TornOr(o)) : OutcomeOK(x) /\ x.res # "Ok"
    BY TornOrOK, IoErrorOK
  <1>2. \A x \in Ok(Appended(o, <<r>>)) : OutcomeOK(x) /\ x.out.mode = o.mode
    BY AppendedOK DEF Ok, OutcomeOK, Expects, Refusals
  <1>. QED  BY <1>1, <1>2 DEF AppendRaw

\* Records that only grow the open chunk.
LEMMA ChunkGrowsOK ==
    ASSUME NEW o, StreamOK(o), o.mode = "Chunk", NEW r
    PROVE  StreamOK([o EXCEPT !.chunk.recs = Append(@, r)])
           /\ [o EXCEPT !.chunk.recs = Append(@, r)].mode = "Chunk"
  <1>. DEFINE d == [o EXCEPT !.chunk.recs = Append(@, r)]
              c == [o.chunk EXCEPT !.recs = Append(@, r)]
  <1>1. DOMAIN c = ChunkFields /\ c.buffered = o.chunk.buffered
    BY DEF StreamOK, ChunkFields
  <1>2. /\ DOMAIN d = OutFields
        /\ d.mode = o.mode /\ d.chunk_mode = o.chunk_mode
        /\ d.chunk = c /\ d.att = o.att /\ Lists(d) = Lists(o)
    BY DEF StreamOK, OutFields, Lists
  <1>. HIDE DEF d, c
  <1>3. StreamOK(d)
    BY <1>1, <1>2 DEF StreamOK, Buffering
  <1>. QED  BY <1>2, <1>3 DEF d

\* A record appended to the open chunk keeps the stream consistent.
LEMMA AppendChunkOK ==
    ASSUME NEW o, StreamOK(o), o.mode = "Chunk", NEW r
    PROVE  \A x \in AppendChunk(o, r) :
             OutcomeOK(x) /\ (x.res = "Ok" => x.out.mode = "Chunk")
  <1>. DEFINE d(q) == [o EXCEPT !.chunk.recs = Append(@, q)]
  <1>1. \A q : StreamOK(d(q)) /\ d(q).mode = "Chunk"
    BY ChunkGrowsOK
  <1>2. AppendChunk(o, r) =
          Ok(d(r)) \cup (IF o.chunk.buffered THEN {} ELSE IoError(o, {o, d(Torn)}))
    BY DEF AppendChunk
  <1>. HIDE DEF d
  <1>3. \A x \in IoError(o, {o, d(Torn)}) : OutcomeOK(x) /\ x.res # "Ok"
    BY <1>1, IoErrorOK
  <1>4. \A x \in Ok(d(r)) : OutcomeOK(x) /\ x.out.mode = "Chunk"
    BY <1>1 DEF Ok, OutcomeOK, Expects, Refusals
  <1>. QED  BY <1>2, <1>3, <1>4

\* Indexing a message in the open chunk keeps the stream consistent.
LEMMA IndexMessageOK ==
    ASSUME NEW o, StreamOK(o), o.mode = "Chunk", NEW id, NEW t
    PROVE  StreamOK(IndexMessage(o, id, t)) /\ IndexMessage(o, id, t).mode = "Chunk"
  <1>. DEFINE d == IndexMessage(o, id, t)
  <1>1. /\ DOMAIN d = OutFields
        /\ d.mode = o.mode /\ d.chunk_mode = o.chunk_mode /\ d.att = o.att
        /\ Lists(d) = Lists(o)
    BY DEF IndexMessage, StreamOK, OutFields, Lists
  <1>2. DOMAIN d.chunk = ChunkFields /\ d.chunk.buffered = o.chunk.buffered
    BY DEF IndexMessage, StreamOK, OutFields, ChunkFields
  <1>. HIDE DEF d
  <1>3. StreamOK(d)
    BY <1>1, <1>2 DEF StreamOK, Buffering
  <1>. QED  BY <1>1, <1>3 DEF d

\* Then, unfolded for one outcome.
LEMMA WriteRecordOK ==
    ASSUME NEW o, StreamOK(o), o.mode # "Dropped", finished \in BOOLEAN,
           opts \in OptionType, NEW r
    PROVE  \A x \in WriteRecord(o, r) :
             OutcomeOK(x) /\ (x.res = "Ok" => x.out.mode # "Dropped")
  <1>. SUFFICES ASSUME NEW x \in WriteRecord(o, r)
                PROVE  OutcomeOK(x) /\ (x.res = "Ok" => x.out.mode # "Dropped")
    OBVIOUS
  <1>1. CASE opts.use_chunks
    <2>1. \/ x \in StartChunk(o) /\ x.res # "Ok"
          \/ \E y \in StartChunk(o) : y.res = "Ok" /\ x \in AppendChunk(y.out, r)
      BY <1>1 DEF WriteRecord, Then
    <2>. QED  BY <1>1, <2>1, StartChunkOK, AppendChunkOK DEF OutcomeOK
  <1>2. CASE ~opts.use_chunks
    <2>1. \/ x \in FinishChunk(o) /\ x.res # "Ok"
          \/ \E y \in FinishChunk(o) : y.res = "Ok" /\ x \in AppendRaw(y.out, r)
      BY <1>2 DEF WriteRecord, Then
    <2>. QED  BY <2>1, FinishChunkOK, AppendRawOK DEF OutcomeOK
  <1>. QED  BY <1>1, <1>2

\* Every outcome of writing a message, chunk roll-over included, is consistent.
LEMMA WriteMessageOK ==
    ASSUME NEW o, StreamOK(o), o.mode # "Dropped", finished \in BOOLEAN,
           opts \in OptionType, NEW id, NEW t
    PROVE  \A x \in WriteMessage(o, id, t) : OutcomeOK(x)
  <1>. SUFFICES ASSUME NEW x \in WriteMessage(o, id, t)
                PROVE  OutcomeOK(x)
    OBVIOUS
  <1>. DEFINE First == IF TargetReached(o) THEN FinishChunk(o) ELSE Ok(o)
              r == MessageRec(id, t)
              Rest(y) == IF opts.use_chunks
                         THEN Then(StartChunk(y),
                                   LAMBDA z : AppendChunk(IndexMessage(z, id, t), r))
                         ELSE Then(FinishChunk(y), LAMBDA z : AppendRaw(z, r))
  <1>1. \A y \in First : OutcomeOK(y) /\ (y.res = "Ok" => y.out.mode # "Dropped")
    BY FinishChunkOK DEF Ok, OutcomeOK, Expects, Refusals
  <1>2. \/ x \in First /\ x.res # "Ok"
        \/ \E y \in First : y.res = "Ok" /\ x \in Rest(y.out)
    BY DEF WriteMessage, Then
  <1>3. ASSUME NEW y, StreamOK(y), y.mode # "Dropped", x \in Rest(y)
        PROVE  OutcomeOK(x)
    <2>1. CASE opts.use_chunks
      <3>1. \/ x \in StartChunk(y) /\ x.res # "Ok"
            \/ \E z \in StartChunk(y) :
                 z.res = "Ok" /\ x \in AppendChunk(IndexMessage(z.out, id, t), r)
        BY <1>3, <2>1 DEF Then
      <3>. HIDE DEF r
      <3>. QED  BY <1>3, <2>1, <3>1, StartChunkOK, IndexMessageOK, AppendChunkOK
                DEF OutcomeOK
    <2>2. CASE ~opts.use_chunks
      <3>1. \/ x \in FinishChunk(y) /\ x.res # "Ok"
            \/ \E z \in FinishChunk(y) : z.res = "Ok" /\ x \in AppendRaw(z.out, r)
        BY <1>3, <2>2 DEF Then
      <3>. HIDE DEF r
      <3>. QED  BY <1>3, <3>1, FinishChunkOK, AppendRawOK DEF OutcomeOK
    <2>. QED  BY <2>1, <2>2
  <1>. HIDE DEF First, Rest
  <1>. QED  BY <1>1, <1>2, <1>3 DEF OutcomeOK

-------------------------------------------------------------------------------
(* Attachments and metadata.                                               *)

\* Every outcome of starting an attachment is consistent, and it starts only on an unfinished
\* writer.
LEMMA BeginAttachmentOK ==
    ASSUME NEW o, StreamOK(o), o.mode # "Dropped", finished \in BOOLEAN,
           opts \in OptionType, NEW length \in Nat
    PROVE  \A x \in BeginAttachment(o, length) :
             OutcomeOK(x) /\ (x.res = "Ok" => ~finished)
  <1>. SUFFICES ASSUME NEW x \in BeginAttachment(o, length)
                PROVE  OutcomeOK(x) /\ (x.res = "Ok" => ~finished)
    OBVIOUS
  <1>. DEFINE att == [length |-> length, position |-> 0]
              begun(y) == [y EXCEPT !.mode = "Attachment", !.att = att]
              lost(y) == {[a EXCEPT !.mode = "None"] : a \in TornOr(y)}
  <1>1. \/ x \in FinishChunk(o) /\ x.res # "Ok"
        \/ \E y \in FinishChunk(o) :
             y.res = "Ok" /\ x \in Ok(begun(y.out)) \cup IoError(y.out, lost(y.out))
    BY DEF BeginAttachment, Then
  <1>2. ASSUME NEW y, StreamOK(y), y.mode = "Raw", ~finished
        PROVE  /\ \A a \in lost(y) : StreamOK(a)
               /\ StreamOK(begun(y))
    <2>1. \A a \in lost(y) : StreamOK(a)
      BY <1>2, StreamLost
    <2>2. /\ DOMAIN begun(y) = OutFields
          /\ begun(y).mode = "Attachment" /\ begun(y).chunk_mode = y.chunk_mode
          /\ begun(y).chunk = y.chunk /\ begun(y).att = att
          /\ Lists(begun(y)) = Lists(y)
      BY <1>2 DEF StreamOK, OutFields, Lists
    <2>3. att \in [length : Nat, position : Nat] /\ att.position <= att.length
      OBVIOUS
    <2>. HIDE DEF begun, att
    <2>4. StreamOK(begun(y))
      BY <1>2, <2>2, <2>3 DEF StreamOK, Buffering, Modes
    <2>. QED  BY <2>1, <2>4
  <1>. HIDE DEF begun, lost
  <1>3. ASSUME NEW y, StreamOK(y), y.mode = "Raw", ~finished,
               x \in Ok(begun(y)) \cup IoError(y, lost(y))
        PROVE  OutcomeOK(x)
    <2>1. \A z \in IoError(y, lost(y)) : OutcomeOK(z)
      BY <1>2, <1>3, IoErrorOK
    <2>2. \A z \in Ok(begun(y)) : OutcomeOK(z)
      BY <1>2, <1>3 DEF Ok, OutcomeOK, Expects, Refusals
    <2>. QED  BY <1>3, <2>1, <2>2
  <1>. QED  BY <1>1, <1>3, FinishChunkOK DEF OutcomeOK

\* Advancing the position within the declared length.
LEMMA PositionOK ==
    ASSUME NEW o, StreamOK(o), o.mode = "Attachment", NEW k \in Nat,
           o.att.position + k <= o.att.length
    PROVE  StreamOK([o EXCEPT !.att.position = @ + k])
  <1>. DEFINE d == [o EXCEPT !.att.position = @ + k]
              a == [o.att EXCEPT !.position = @ + k]
  <1>1. /\ a \in [length : Nat, position : Nat]
        /\ a.position = o.att.position + k /\ a.length = o.att.length
    BY DEF StreamOK
  <1>2. /\ DOMAIN d = OutFields
        /\ d.mode = o.mode /\ d.chunk_mode = o.chunk_mode
        /\ d.chunk = o.chunk /\ d.att = a /\ Lists(d) = Lists(o)
    BY DEF StreamOK, OutFields, Lists
  <1>. HIDE DEF d, a
  <1>3. StreamOK(d)
    BY <1>1, <1>2 DEF StreamOK, Buffering
  <1>. QED  BY <1>3 DEF d

\* Every outcome of a piece of an attachment is consistent.
LEMMA PutBytesOK ==
    ASSUME NEW o, StreamOK(o), NEW n \in Nat
    PROVE  \A x \in PutBytes(o, n) : OutcomeOK(x)
  <1>1. CASE o.mode # "Attachment"
    <2>1. PutBytes(o, n) = Fails(o, "AttachmentNotInProgress")
      BY <1>1 DEF PutBytes
    <2>. QED  BY <2>1 DEF Fails, OutcomeOK, Expects, Refusals
  <1>2. CASE o.mode = "Attachment" /\ NoSpace(o.att, n)
    <2>1. PutBytes(o, n) = Fails(o, "AttachmentTooLarge")
      BY <1>2 DEF PutBytes
    <2>. QED  BY <2>1 DEF Fails, OutcomeOK, Expects, Refusals
  <1>3. CASE o.mode = "Attachment" /\ ~NoSpace(o.att, n)
    <2>. DEFINE d(k) == [o EXCEPT !.att.position = @ + k]
                some == {d(k) : k \in 0..n}
    <2>1. PutBytes(o, n) = Ok(d(n)) \cup IoError(o, some)
      BY <1>3 DEF PutBytes
    <2>2. \A k \in 0..n : o.att.position + k <= o.att.length
      BY <1>3 DEF NoSpace, StreamOK
    <2>3. \A k \in 0..n : StreamOK(d(k))
      BY <1>3, <2>2, PositionOK
    <2>. HIDE DEF d
    <2>4. \A a \in some : StreamOK(a)
      BY <2>3
    <2>. HIDE DEF some
    <2>5. \A x \in IoError(o, some) : OutcomeOK(x)
      BY <2>4, IoErrorOK
    <2>6. \A x \in Ok(d(n)) : OutcomeOK(x)
      BY <2>3 DEF Ok, OutcomeOK, Expects, Refusals
    <2>. QED  BY <2>1, <2>5, <2>6
  <1>. QED  BY <1>1, <1>2, <1>3

\* After finish_attachment the stream is back, or lost.
LEMMA AttachmentClosedOK ==
    ASSUME NEW o, NEW d, StreamOK(o), o.mode = "Attachment",
           DOMAIN d = OutFields, d.mode \in {"Raw", "None"},
           d.chunk_mode = o.chunk_mode, d.chunk = o.chunk, d.att = NoAttachment,
           ListsOK(Lists(d))
    PROVE  StreamOK(d)
  <1>1. /\ NoAttachment \in [length : Nat, position : Nat]
        /\ NoAttachment.position <= NoAttachment.length
    BY DEF NoAttachment
  <1>. QED  BY <1>1 DEF StreamOK, Buffering, Modes

\* Every outcome of finishing an attachment is consistent.
LEMMA EndAttachmentOK ==
    ASSUME NEW o, StreamOK(o)
    PROVE  \A x \in EndAttachment(o) : OutcomeOK(x)
  <1>. DEFINE rec == [op |-> "Attachment", length |-> o.att.length]
              lost(r) == [Appended(o, <<r>>) EXCEPT !.mode = "None",
                                                    !.att = NoAttachment]
              done == [Appended(o, <<rec>>) EXCEPT
                         !.mode = "Raw", !.att = NoAttachment,
                         !.attachment_count = @ + 1,
                         !.attachment_indexes =
                            IF opts.emit_attachment_indexes
                            THEN Append(@, [op |-> "AttachmentIndex",
                                            offset |-> Len(o.file) + 1,
                                            length |-> o.att.length])
                            ELSE @]
  <1>1. CASE o.mode # "Attachment"
    <2>1. EndAttachment(o) = Fails(o, "AttachmentNotInProgress")
      BY <1>1 DEF EndAttachment
    <2>. QED  BY <2>1 DEF Fails, OutcomeOK, Expects, Refusals
  <1>2. CASE o.mode = "Attachment"
    <2>1. \A r : StreamOK(lost(r))
      <3>. TAKE r
      <3>1. /\ DOMAIN lost(r) = OutFields /\ lost(r).mode = "None"
            /\ lost(r).chunk_mode = o.chunk_mode /\ lost(r).chunk = o.chunk
            /\ lost(r).att = NoAttachment /\ Lists(lost(r)) = Lists(Appended(o, <<r>>))
        BY AppendedOK DEF OutFields, Lists
      <3>2. ListsOK(Lists(lost(r)))
        BY <3>1, AppendedOK DEF StreamOK
      <3>. HIDE DEF lost
      <3>. QED  BY <1>2, <3>1, <3>2, AttachmentClosedOK
    <2>2. StreamOK(done)
      <3>1. /\ DOMAIN done = OutFields /\ done.mode = "Raw"
            /\ done.chunk_mode = o.chunk_mode /\ done.chunk = o.chunk
            /\ done.att = NoAttachment
        BY AppendedOK DEF OutFields
      <3>2. ListsOK(Lists(done))
        <4>. DEFINE a == Appended(o, <<rec>>)
                    e == [op |-> "AttachmentIndex", offset |-> Len(o.file) + 1,
                          length |-> o.att.length]
                    more == IF opts.emit_attachment_indexes
                            THEN Append(a.attachment_indexes, e)
                            ELSE a.attachment_indexes
        <4>1. DOMAIN a = OutFields /\ ListsOK(Lists(a))
          BY AppendedOK DEF StreamOK
        <4>2. done = [a EXCEPT !.mode = "Raw", !.att = NoAttachment,
                               !.attachment_count = @ + 1, !.attachment_indexes = more]
          OBVIOUS
        <4>3. e.op = "AttachmentIndex"
          OBVIOUS
        <4>. HIDE DEF a, e
        <4>4. AllOf(more, "AttachmentIndex")
          <5>1. AllOf(a.attachment_indexes, "AttachmentIndex")
            BY <4>1 DEF ListsOK, Lists
          <5>. QED  BY <4>3, <5>1, ListGrows
        <4>. HIDE DEF more
        <4>5. Lists(done) = <<a.chunk_indexes, more, a.metadata_indexes>>
          BY <4>1, <4>2 DEF Lists, OutFields
        <4>. QED  BY <4>1, <4>4, <4>5 DEF ListsOK, Lists
      <3>. HIDE DEF done
      <3>. QED  BY <1>2, <3>1, <3>2, AttachmentClosedOK
    <2>3. \/ EndAttachment(o) = Fails(lost(Torn), "AttachmentIncomplete")
          \/ EndAttachment(o) = Ok(done) \cup IoError(o, {lost(Torn), lost(rec)})
      BY <1>2 DEF EndAttachment
    <2>. HIDE DEF lost, done, rec
    <2>4. \A x \in Fails(lost(Torn), "AttachmentIncomplete") : OutcomeOK(x)
      BY <2>1 DEF Fails, OutcomeOK, Expects, Refusals
    <2>5. \A x \in Ok(done) : OutcomeOK(x)
      BY <2>2 DEF Ok, OutcomeOK, Expects, Refusals
    <2>6. \A x \in IoError(o, {lost(Torn), lost(rec)}) : OutcomeOK(x)
      BY <2>1, IoErrorOK
    <2>. QED  BY <2>3, <2>4, <2>5, <2>6
  <1>. QED  BY <1>1, <1>2

\* Every outcome of writing a metadata record is consistent.
LEMMA PutMetadataOK ==
    ASSUME NEW o, StreamOK(o), o.mode # "Dropped", finished \in BOOLEAN,
           opts \in OptionType
    PROVE  \A x \in PutMetadata(o) : OutcomeOK(x)
  <1>. SUFFICES ASSUME NEW x \in PutMetadata(o) PROVE OutcomeOK(x)
    OBVIOUS
  <1>. DEFINE written(y) == Appended(y, <<MetadataRec>>)
              done(y) == [written(y) EXCEPT
                            !.metadata_count = @ + 1,
                            !.metadata_indexes =
                               IF opts.emit_metadata_indexes
                               THEN Append(@, [op |-> "MetadataIndex",
                                               offset |-> Len(y.file) + 1])
                               ELSE @]
  <1>1. \/ x \in FinishChunk(o) /\ x.res # "Ok"
        \/ \E y \in FinishChunk(o) :
             y.res = "Ok" /\ x \in Ok(done(y.out))
                       \cup IoError(y.out, TornOr(y.out) \cup {written(y.out)})
    BY DEF PutMetadata, Then
  <1>2. ASSUME NEW y, StreamOK(y)
        PROVE  StreamOK(done(y))
    <2>1. /\ DOMAIN done(y) = OutFields
          /\ done(y).mode = y.mode /\ done(y).chunk_mode = y.chunk_mode
          /\ done(y).chunk = y.chunk /\ done(y).att = y.att
      BY <1>2, AppendedOK DEF OutFields
    <2>2. ListsOK(Lists(done(y)))
      <3>. DEFINE a == written(y)
                  e == [op |-> "MetadataIndex", offset |-> Len(y.file) + 1]
                  more == IF opts.emit_metadata_indexes
                          THEN Append(a.metadata_indexes, e) ELSE a.metadata_indexes
      <3>1. DOMAIN a = OutFields /\ ListsOK(Lists(a))
        BY <1>2, AppendedOK DEF StreamOK
      <3>2. done(y) = [a EXCEPT !.metadata_count = @ + 1, !.metadata_indexes = more]
        OBVIOUS
      <3>3. e.op = "MetadataIndex"
        OBVIOUS
      <3>. HIDE DEF a, e
      <3>4. AllOf(more, "MetadataIndex")
        <4>1. AllOf(a.metadata_indexes, "MetadataIndex")
          BY <3>1 DEF ListsOK, Lists
        <4>. QED  BY <3>3, <4>1, ListGrows
      <3>. HIDE DEF more
      <3>5. Lists(done(y)) = <<a.chunk_indexes, a.attachment_indexes, more>>
        BY <3>1, <3>2 DEF Lists, OutFields
      <3>. QED  BY <3>1, <3>4, <3>5 DEF ListsOK, Lists
    <2>. HIDE DEF done
    <2>. QED  BY <1>2, <2>1, <2>2 DEF StreamOK, Buffering
  <1>3. ASSUME NEW y, StreamOK(y)
        PROVE  \A a \in TornOr(y) \cup {written(y)} : StreamOK(a)
    BY <1>3, TornOrOK, AppendedOK
  <1>. HIDE DEF done, written
  <1>4. ASSUME NEW y, StreamOK(y),
               x \in Ok(done(y)) \cup IoError(y, TornOr(y) \cup {written(y)})
        PROVE  OutcomeOK(x)
    <2>1. \A z \in IoError(y, TornOr(y) \cup {written(y)}) : OutcomeOK(z)
      BY <1>3, <1>4, IoErrorOK
    <2>2. \A z \in Ok(done(y)) : OutcomeOK(z)
      BY <1>2, <1>4 DEF Ok, OutcomeOK, Expects, Refusals
    <2>. QED  BY <1>4, <2>1, <2>2
  <1>. QED  BY <1>1, <1>4, FinishChunkOK DEF OutcomeOK

-------------------------------------------------------------------------------
(* finish() and its callers.                                               *)

\* The mode an I/O error leaves.
LEMMA IoErrorMode ==
    ASSUME NEW o, NEW after, \A a \in after : StreamOK(a),
           NEW x \in IoError(o, after)
    PROVE  \E a \in after : x.out.mode = a.mode
  <1>1. PICK a \in after : x = [out |-> [a EXCEPT !.faults = @ + 1], res |-> "Io"]
    BY DEF IoError
  <1>2. [a EXCEPT !.faults = @ + 1].mode = a.mode
    BY DEF StreamOK, OutFields
  <1>. QED  BY <1>1, <1>2

\* Whether finish_chunk succeeds or fails, no chunk is open after it.
LEMMA NoChunkAfterFinishChunk ==
    ASSUME NEW o, StreamOK(o), o.mode # "Dropped", finished \in BOOLEAN,
           opts \in OptionType
    PROVE  \A x \in FinishChunk(o) : x.out.mode # "Chunk" /\ x.out.mode # "Dropped"
  <1>0. o.mode \in Modes
    BY DEF StreamOK
  <1>1. CASE Refusal(o) # "none"
    <2>1. FinishChunk(o) = Fails(o, Refusal(o))
      BY <1>1 DEF FinishChunk
    <2>2. o.mode # "Chunk"
      BY <1>0, <1>1, RefusalNone DEF StreamOK
    <2>. QED  BY <2>1, <2>2 DEF Fails
  <1>2. CASE Refusal(o) = "none" /\ o.mode = "Chunk"
    <2>1. FinishChunk(o) = Ok(ChunkDone(o)) \cup IoError(o, ChunkBroken(o))
      BY <1>2 DEF FinishChunk
    <2>2. ~finished
      BY <1>0, <1>2, RefusalNone
    <2>3. \A a \in ChunkBroken(o) : StreamOK(a)
      BY <1>2, <2>2, ChunkBrokenOK
    <2>4. \A a \in ChunkBroken(o) : a.mode = "Failed"
      BY DEF ChunkBroken, StreamOK, OutFields
    <2>5. \A x \in IoError(o, ChunkBroken(o)) : x.out.mode = "Failed"
      BY <2>3, <2>4, IoErrorMode
    <2>6. ChunkDone(o).mode = "Raw"
      BY <1>2, <2>2, ChunkDoneOK
    <2>. QED  BY <2>1, <2>5, <2>6 DEF Ok
  <1>3. CASE Refusal(o) = "none" /\ o.mode # "Chunk"
    <2>1. FinishChunk(o) = Ok(o)
      BY <1>3 DEF FinishChunk
    <2>. QED  BY <1>3, <2>1 DEF Ok
  <1>. QED  BY <1>1, <1>2, <1>3

\* The tail of the file changes neither the mode nor what is open.
LEMMA SealedOK ==
    ASSUME NEW o, StreamOK(o), NEW tail
    PROVE  StreamOK(Sealed(o, tail)) /\ Sealed(o, tail).mode = o.mode
  <1>. DEFINE d == Sealed(o, tail)
  <1>1. /\ DOMAIN d = OutFields
        /\ d.mode = o.mode /\ d.chunk_mode = o.chunk_mode
        /\ d.chunk = o.chunk /\ d.att = o.att
        /\ Lists(d) = <<<<>>, <<>>, <<>>>>
    BY DEF Sealed, Taken, StreamOK, OutFields, Lists
  <1>. HIDE DEF d
  <1>2. StreamOK(d)
    BY <1>1, NothingCollected DEF StreamOK, Buffering
  <1>. QED  BY <1>1, <1>2 DEF d

\* Writing the summary, footer and closing magic keeps the stream consistent in every
\* outcome.
LEMMA CloseOK ==
    ASSUME NEW o, StreamOK(o)
    PROVE  \A y \in Close(o) : OutcomeOK(y) /\ y.out.mode = o.mode
  <1>. DEFINE some == {Sealed(o, part) : part \in PartsOf(FileTail(o))}
  <1>1. \A a \in some : StreamOK(a) /\ a.mode = o.mode
    BY SealedOK
  <1>2. Close(o) = Ok(Sealed(o, FileTail(o))) \cup IoError(o, some)
    BY DEF Close
  <1>. HIDE DEF some
  <1>3. \A y \in IoError(o, some) : OutcomeOK(y) /\ y.out.mode = o.mode
    BY <1>1, IoErrorOK, IoErrorMode
  <1>4. \A y \in Ok(Sealed(o, FileTail(o))) : OutcomeOK(y) /\ y.out.mode = o.mode
    BY SealedOK DEF Ok, OutcomeOK, Expects, Refusals
  <1>. QED  BY <1>2, <1>3, <1>4

\* take_summary finds the content of every written id.
LEMMA SummaryFindsContent == RegistriesConsistent => ~SummaryPanics
  BY DEF RegistriesConsistent, RegistryConsistent, AliasesResolve, SummaryPanics

\* Every outcome of finish is consistent: a finished writer stays finished, and finishes
\* outside any chunk.
LEMMA FinishOutcomesOK ==
    ASSUME StreamOK(out), out.mode # "Dropped", finished \in BOOLEAN,
           opts \in OptionType, RegistriesConsistent
    PROVE  \A f \in FinishOutcomes :
             /\ StreamOK(f.out) /\ f.res \notin Expects
             /\ f.finished \in BOOLEAN
             /\ finished => f.finished
             /\ f.finished => f.out.mode = "Raw"
             /\ f.out.mode # "Chunk" /\ f.out.mode # "Dropped"
  <1>. SUFFICES ASSUME NEW f \in FinishOutcomes
                PROVE  /\ StreamOK(f.out) /\ f.res \notin Expects
                       /\ f.finished \in BOOLEAN
                       /\ finished => f.finished
                       /\ f.finished => f.out.mode = "Raw"
                       /\ f.out.mode # "Chunk" /\ f.out.mode # "Dropped"
    OBVIOUS
  <1>1. CASE finished
    <2>1. f = [out |-> out, finished |-> TRUE, res |-> "Ok"]
      BY <1>1 DEF FinishOutcomes
    <2>2. out.mode = "Raw"
      BY <1>1 DEF StreamOK
    <2>. QED  BY <2>1, <2>2 DEF Expects, Refusals
  <1>2. CASE ~finished
    <2>1. PICK x \in FinishChunk(out) :
            \/ x.res # "Ok" /\ f = [out |-> x.out, finished |-> FALSE, res |-> x.res]
            \/ /\ x.res = "Ok"
               /\ \E y \in Close(x.out) :
                    f = [out |-> y.out, finished |-> TRUE, res |-> y.res]
      BY <1>2, SummaryFindsContent DEF FinishOutcomes
    <2>2. /\ OutcomeOK(x)
          /\ x.res = "Ok" => x.out.mode = "Raw"
          /\ x.out.mode # "Chunk" /\ x.out.mode # "Dropped"
      BY FinishChunkOK, NoChunkAfterFinishChunk
    <2>3. CASE x.res # "Ok" /\ f = [out |-> x.out, finished |-> FALSE, res |-> x.res]
      BY <1>2, <2>2, <2>3 DEF OutcomeOK
    <2>4. ASSUME x.res = "Ok", NEW y \in Close(x.out),
                 f = [out |-> y.out, finished |-> TRUE, res |-> y.res]
          PROVE  StreamOK(f.out) /\ f.res \notin Expects /\ f.out.mode = "Raw"
                 /\ f.finished = TRUE
      BY <2>2, <2>4, CloseOK DEF OutcomeOK
    <2>. QED  BY <2>1, <2>3, <2>4
  <1>. QED  BY <1>1, <1>2

-------------------------------------------------------------------------------
(* The inductive invariant, call by call.                                  *)

RegistriesOK ==
    /\ RegistryType(schemas, SchemaContents)
    /\ RegistryType(channels, ChannelContents)
    /\ RegistriesConsistent

Inv ==
    /\ opts \in OptionType
    /\ finished \in BOOLEAN
    /\ StreamOK(out)
    /\ RegistriesOK
    /\ result.res \notin Expects

\* A new writer satisfies the inductive invariant.
LEMMA InitInv == Init => Inv
  <1>. SUFFICES ASSUME Init PROVE Inv
    OBVIOUS
  <1>1. opts \in OptionType /\ finished \in BOOLEAN
    BY WriterAssumption DEF Init
  <1>2. RegistriesOK
    BY EmptyConsistent
    DEF Init, RegistriesOK, RegistriesConsistent, ChannelSchemasKnown, EmptyRegistry
  <1>3. result.res \notin Expects
    BY DEF Init, Expects
  <1>4. StreamOK(out)
    <2>1. /\ DOMAIN out = OutFields
          /\ out.mode = "Raw" /\ out.chunk = NoChunk /\ out.att = NoAttachment
          /\ out.chunk_mode = IF opts.use_chunks /\ opts.disable_seeking
                              THEN "Buffered" ELSE "Direct"
          /\ Lists(out) = <<<<>>, <<>>, <<>>>>
      BY DEF Init, OutFields, Lists
    <2>2. /\ NoAttachment \in [length : Nat, position : Nat]
          /\ NoAttachment.position <= NoAttachment.length
      BY DEF NoAttachment
    <2>. QED  BY <2>1, <2>2, NoChunkFields, NothingCollected
              DEF Init, StreamOK, Buffering, Modes
  <1>. QED  BY <1>1, <1>2, <1>3, <1>4 DEF Inv

\* A call that leaves the ids alone and ends in a good outcome.
LEMMA StreamStep ==
    ASSUME Inv, UNCHANGED <<opts, schemas, channels, finished>>,
           NEW x, OutcomeOK(x), out' = x.out, result'.res = x.res
    PROVE  Inv'
  <1>1. StreamOK(out)'
    BY DEF OutcomeOK, StreamOK, Buffering
  <1>2. RegistriesOK'
    BY DEF Inv, RegistriesOK, RegistriesConsistent, ChannelSchemasKnown
  <1>. QED  BY <1>1, <1>2 DEF Inv, OutcomeOK

\* A call that only touches the stream keeps the invariant when its outcomes are consistent.
LEMMA StreamCallStep ==
    ASSUME Inv, NEW call, NEW outcomes, StreamCall(call, outcomes),
           \A x \in outcomes : OutcomeOK(x)
    PROVE  Inv'
  <1>1. PICK x \in outcomes : out' = x.out /\ Returns(call, x.res)
    BY DEF StreamCall
  <1>2. result'.res = x.res
    BY <1>1 DEF Returns
  <1>. QED  BY <1>1, <1>2, StreamStep DEF StreamCall

\* A call is made on a writer that still owns its sink.
LEMMA Usable == ASSUME Inv, NEW call, Calls(call)
                PROVE  StreamOK(out) /\ out.mode # "Dropped"
                       /\ finished \in BOOLEAN /\ opts \in OptionType
  BY DEF Inv, Calls

\* write_private_record keeps the invariant.
LEMMA PrivateStep ==
    ASSUME Inv, NEW reserved \in BOOLEAN, NEW inChunks \in BOOLEAN,
           WritePrivateRecord(reserved, inChunks)
    PROVE  Inv'
  <1>. DEFINE outcomes ==
                CASE reserved -> Fails(out, "PrivateRecordOpcodeIsReserved")
                  [] ~reserved /\ opts.use_chunks /\ inChunks ->
                       Then(StartChunk(out), LAMBDA x : AppendChunk(x, PrivateRec))
                  [] OTHER ->
                       Then(FinishChunk(out), LAMBDA x : AppendRaw(x, PrivateRec))
  <1>1. StreamCall("write_private_record", outcomes)
    BY DEF WritePrivateRecord
  <1>2. /\ StreamOK(out) /\ out.mode # "Dropped"
        /\ finished \in BOOLEAN /\ opts \in OptionType
    BY <1>1, Usable DEF StreamCall
  <1>3. ASSUME NEW x \in outcomes PROVE OutcomeOK(x)
    <2>1. CASE reserved
      <3>1. outcomes = Fails(out, "PrivateRecordOpcodeIsReserved")
        BY <2>1
      <3>2. x \in Fails(out, "PrivateRecordOpcodeIsReserved")
        BY <1>3, <3>1
      <3>. HIDE DEF outcomes
      <3>. QED  BY <1>2, <3>2 DEF Fails, OutcomeOK, Expects, Refusals
    <2>2. CASE ~reserved /\ opts.use_chunks /\ inChunks
      <3>1. outcomes = Then(StartChunk(out), LAMBDA y : AppendChunk(y, PrivateRec))
        BY <2>2
      <3>2. \/ x \in StartChunk(out) /\ x.res # "Ok"
            \/ \E y \in StartChunk(out) :
                 y.res = "Ok" /\ x \in AppendChunk(y.out, PrivateRec)
        BY <1>3, <3>1 DEF Then
      <3>. QED  BY <1>2, <2>2, <3>2, StartChunkOK, AppendChunkOK DEF OutcomeOK
    <2>3. CASE ~reserved /\ ~(opts.use_chunks /\ inChunks)
      <3>1. outcomes = Then(FinishChunk(out), LAMBDA y : AppendRaw(y, PrivateRec))
        BY <2>3
      <3>2. \/ x \in FinishChunk(out) /\ x.res # "Ok"
            \/ \E y \in FinishChunk(out) :
                 y.res = "Ok" /\ x \in AppendRaw(y.out, PrivateRec)
        BY <1>3, <3>1 DEF Then
      <3>. QED  BY <1>2, <3>2, FinishChunkOK, AppendRawOK DEF OutcomeOK
    <2>. QED  BY <2>1, <2>2, <2>3
  <1>. HIDE DEF outcomes
  <1>. QED  BY <1>1, <1>3, StreamCallStep

\* attach keeps the invariant.
LEMMA AttachStep ==
    ASSUME Inv, NEW n \in Nat, Attach(n)
    PROVE  Inv'
  <1>. DEFINE outcomes == Then(BeginAttachment(out, n),
                               LAMBDA x : Then(PutBytes(x, n),
                                               LAMBDA y : EndAttachment(y)))
  <1>1. StreamCall("attach", outcomes)
    BY DEF Attach
  <1>2. /\ StreamOK(out) /\ out.mode # "Dropped"
        /\ finished \in BOOLEAN /\ opts \in OptionType
    BY <1>1, Usable DEF StreamCall
  <1>3. ASSUME NEW x \in outcomes PROVE OutcomeOK(x)
    <2>1. \/ x \in BeginAttachment(out, n)
          \/ \E y \in BeginAttachment(out, n) :
               \/ x \in PutBytes(y.out, n)
               \/ \E z \in PutBytes(y.out, n) : x \in EndAttachment(z.out)
      BY <1>3 DEF Then
    <2>. QED  BY <1>2, <2>1, BeginAttachmentOK, PutBytesOK, EndAttachmentOK
              DEF OutcomeOK
  <1>. HIDE DEF outcomes
  <1>. QED  BY <1>1, <1>3, StreamCallStep

\* A call that succeeds without touching the stream is consistent.
LEMMA OkOK == ASSUME NEW o, StreamOK(o) PROVE \A x \in Ok(o) : OutcomeOK(x)
  BY DEF Ok, OutcomeOK, Expects, Refusals

\* flush keeps the invariant.
LEMMA FlushStep ==
    ASSUME Inv, Flush
    PROVE  Inv'
  <1>. DEFINE outcomes == Then(FinishChunk(out),
                               LAMBDA x : Ok(x) \cup IoError(x, {x}))
  <1>1. StreamCall("flush", outcomes)
    BY DEF Flush
  <1>2. /\ StreamOK(out) /\ out.mode # "Dropped"
        /\ finished \in BOOLEAN /\ opts \in OptionType
    BY <1>1, Usable DEF StreamCall
  <1>3. ASSUME NEW x \in outcomes PROVE OutcomeOK(x)
    <2>1. \/ x \in FinishChunk(out)
          \/ \E y \in FinishChunk(out) : x \in Ok(y.out) \cup IoError(y.out, {y.out})
      BY <1>3 DEF Then
    <2>2. ASSUME NEW y, StreamOK(y), x \in Ok(y) \cup IoError(y, {y})
          PROVE  OutcomeOK(x)
      <3>1. \A z \in IoError(y, {y}) : OutcomeOK(z)
        BY <2>2, IoErrorOK
      <3>2. \A z \in Ok(y) : OutcomeOK(z)
        BY <2>2, OkOK
      <3>. QED  BY <2>2, <3>1, <3>2
    <2>. QED  BY <1>2, <2>1, <2>2, FinishChunkOK DEF OutcomeOK
  <1>. HIDE DEF outcomes
  <1>. QED  BY <1>1, <1>3, StreamCallStep

\* The three calls of the attachment protocol, and write_metadata, keep the invariant.
LEMMA AttachmentSteps ==
    ASSUME Inv, NEW n \in Nat,
           \/ StartAttachment(n) \/ PutAttachmentBytes(n)
           \/ FinishAttachment \/ WriteMetadata
    PROVE  Inv'
  <1>0. /\ StreamOK(out) /\ out.mode # "Dropped"
        /\ finished \in BOOLEAN /\ opts \in OptionType
    BY Usable DEF StartAttachment, PutAttachmentBytes, FinishAttachment,
                  WriteMetadata, StreamCall
  <1>1. CASE StartAttachment(n)
    BY <1>0, <1>1, BeginAttachmentOK, StreamCallStep DEF StartAttachment
  <1>2. CASE PutAttachmentBytes(n)
    BY <1>0, <1>2, PutBytesOK, StreamCallStep DEF PutAttachmentBytes
  <1>3. CASE FinishAttachment
    BY <1>0, <1>3, EndAttachmentOK, StreamCallStep DEF FinishAttachment
  <1>4. CASE WriteMetadata
    BY <1>0, <1>4, PutMetadataOK, StreamCallStep DEF WriteMetadata
  <1>. QED  BY <1>1, <1>2, <1>3, <1>4

-------------------------------------------------------------------------------
(* The calls that register ids.                                            *)

\* What one registration does to a pair of registries.
Registered(old, new) == RegistryConsistent(new) /\ Extends(old, new)

\* A registry that does not change is a registry that only grew.
LEMMA UnchangedRegistered ==
    ASSUME NEW reg, RegistryConsistent(reg)
    PROVE  Registered(reg, reg)
  BY DEF Registered, Extends

\* The stream half and the ids half of a step, put together.
LEMMA InvFromParts ==
    ASSUME Inv, UNCHANGED <<opts, finished>>,
           StreamOK(out'), result'.res \notin Expects, RegistriesOK'
    PROVE  Inv'
  <1>1. StreamOK(out)'
    BY DEF StreamOK, Buffering
  <1>. QED  BY <1>1 DEF Inv

\* add_schema keeps the invariant and only adds to the schema registry.
LEMMA AddSchemaStep ==
    ASSUME Inv, NEW content \in SchemaContents, AddSchema(content)
    PROVE  Inv' /\ Registered(schemas, schemas') /\ channels' = channels
  <1>. DEFINE a == Add(schemas, content)
  <1>0. /\ StreamOK(out) /\ out.mode # "Dropped"
        /\ finished \in BOOLEAN /\ opts \in OptionType
    BY Usable DEF AddSchema
  <1>1. /\ RegistryType(a.reg, SchemaContents) /\ RegistryConsistent(a.reg)
        /\ a.verdict \in {"known", "TooMany", "panic_overflow", "new"}
        /\ Extends(schemas, a.reg)
    BY AddConsistent DEF Inv, RegistriesOK, RegistriesConsistent
  <1>2. /\ schemas' = a.reg /\ UNCHANGED <<opts, channels, finished>>
        /\ \/ /\ a.verdict # "new" /\ out' = out
              /\ Returns("add_schema",
                         IF a.verdict = "known" THEN "Ok" ELSE a.verdict)
           \/ \E x \in WriteRecord(out, SchemaRec(a.id, content)) :
                out' = x.out /\ Returns("add_schema", x.res)
    BY DEF AddSchema
  <1>. HIDE DEF a
  <1>3. RegistriesOK'
    BY <1>1, <1>2 DEF Inv, RegistriesOK, RegistriesConsistent,
                      ChannelSchemasKnown, Extends
  <1>4. StreamOK(out') /\ result'.res \notin Expects
    <2>1. CASE /\ a.verdict # "new" /\ out' = out
               /\ Returns("add_schema",
                          IF a.verdict = "known" THEN "Ok" ELSE a.verdict)
      BY <1>0, <1>1, <2>1 DEF Returns, Expects
    <2>2. CASE \E x \in WriteRecord(out, SchemaRec(a.id, content)) :
                 out' = x.out /\ Returns("add_schema", x.res)
      BY <1>0, <2>2, WriteRecordOK DEF Returns, OutcomeOK
    <2>. QED  BY <1>2, <2>1, <2>2
  <1>. QED  BY <1>1, <1>2, <1>3, <1>4, InvFromParts DEF Registered

\* add_channel keeps the invariant and only adds to the channel registry.
LEMMA AddChannelStep ==
    ASSUME Inv, NEW s \in Ids, NEW topic \in Topics, AddChannel(s, topic)
    PROVE  Inv' /\ Registered(channels, channels') /\ schemas' = schemas
  <1>. DEFINE content == ChannelContent(s, topic)
              a == Add(channels, content)
              unknown == /\ content \notin DOMAIN channels.canonical
                         /\ s # 0 /\ s \notin DOMAIN schemas.all
  <1>0. /\ StreamOK(out) /\ out.mode # "Dropped"
        /\ finished \in BOOLEAN /\ opts \in OptionType
    BY Usable DEF AddChannel
  <1>1. content \in ChannelContents /\ content.schema = s
    BY DEF ChannelContent, ChannelContents
  <1>2. /\ UNCHANGED <<opts, schemas, finished>>
        /\ \/ /\ unknown /\ out' = out /\ channels' = channels
              /\ Returns("add_channel", "UnknownSchema")
           \/ /\ ~unknown /\ channels' = a.reg /\ a.verdict # "new" /\ out' = out
              /\ Returns("add_channel",
                         IF a.verdict = "known" THEN "Ok" ELSE a.verdict)
           \/ /\ ~unknown /\ channels' = a.reg
              /\ \E x \in WriteRecord(out, ChannelRec(a.id, content)) :
                   out' = x.out /\ Returns("add_channel", x.res)
    BY DEF AddChannel
  <1>. HIDE DEF content
  <1>3. /\ RegistryType(a.reg, ChannelContents) /\ RegistryConsistent(a.reg)
        /\ a.verdict \in {"known", "TooMany", "panic_overflow", "new"}
        /\ Extends(channels, a.reg)
        /\ DOMAIN a.reg.canonical \subseteq DOMAIN channels.canonical \cup {content}
    BY <1>1, AddConsistent DEF Inv, RegistriesOK, RegistriesConsistent
  <1>. HIDE DEF a
  <1>4. CASE unknown /\ out' = out /\ channels' = channels
             /\ Returns("add_channel", "UnknownSchema")
    <2>1. RegistriesOK'
      BY <1>2, <1>4 DEF Inv, RegistriesOK, RegistriesConsistent, ChannelSchemasKnown
    <2>2. StreamOK(out') /\ result'.res \notin Expects
      BY <1>0, <1>4 DEF Returns, Expects
    <2>3. Registered(channels, channels')
      BY <1>4, UnchangedRegistered DEF Inv, RegistriesOK, RegistriesConsistent
    <2>. QED  BY <1>2, <2>1, <2>2, <2>3, InvFromParts
  <1>5. CASE ~unknown /\ channels' = a.reg
    <2>1. ChannelSchemasKnown'
      BY <1>1, <1>2, <1>3, <1>5
      DEF Inv, RegistriesOK, RegistriesConsistent, ChannelSchemasKnown
    <2>2. RegistriesOK'
      BY <1>2, <1>3, <1>5, <2>1 DEF Inv, RegistriesOK, RegistriesConsistent
    <2>3. StreamOK(out') /\ result'.res \notin Expects
      <3>1. CASE /\ a.verdict # "new" /\ out' = out
                 /\ Returns("add_channel",
                            IF a.verdict = "known" THEN "Ok" ELSE a.verdict)
        BY <1>0, <1>3, <3>1 DEF Returns, Expects
      <3>2. CASE \E x \in WriteRecord(out, ChannelRec(a.id, content)) :
                   out' = x.out /\ Returns("add_channel", x.res)
        BY <1>0, <3>2, WriteRecordOK DEF Returns, OutcomeOK
      <3>. QED  BY <1>2, <1>5, <3>1, <3>2
    <2>. QED  BY <1>2, <1>3, <1>5, <2>2, <2>3, InvFromParts DEF Registered
  <1>. QED  BY <1>2, <1>4, <1>5

\* write_to_known_channel keeps the invariant and both registries.
LEMMA WriteToKnownChannelStep ==
    ASSUME Inv, NEW id, NEW t, WriteToKnownChannel(id, t)
    PROVE  Inv' /\ UNCHANGED <<schemas, channels>>
  <1>0. /\ StreamOK(out) /\ out.mode # "Dropped"
        /\ finished \in BOOLEAN /\ opts \in OptionType
    BY Usable DEF WriteToKnownChannel
  <1>1. /\ UNCHANGED <<opts, schemas, channels, finished>>
        /\ \/ out' = out /\ Returns("write_to_known_channel", "UnknownChannel")
           \/ \E x \in WriteMessage(out, id, t) :
                out' = x.out /\ Returns("write_to_known_channel", x.res)
    BY DEF WriteToKnownChannel, CountAndWrite
  <1>2. StreamOK(out') /\ result'.res \notin Expects
    <2>1. CASE out' = out /\ Returns("write_to_known_channel", "UnknownChannel")
      BY <1>0, <2>1 DEF Returns, Expects
    <2>2. CASE \E x \in WriteMessage(out, id, t) :
                 out' = x.out /\ Returns("write_to_known_channel", x.res)
      BY <1>0, <2>2, WriteMessageOK DEF Returns, OutcomeOK
    <2>. QED  BY <1>1, <2>1, <2>2
  <1>3. RegistriesOK'
    BY <1>1 DEF Inv, RegistriesOK, RegistriesConsistent, ChannelSchemasKnown
  <1>. QED  BY <1>1, <1>2, <1>3, InvFromParts

\* Writing a record together with its bookkeeping is consistent in every outcome.
LEMMA WritesOK ==
    ASSUME NEW o, StreamOK(o), o.mode # "Dropped", finished \in BOOLEAN,
           opts \in OptionType, NEW r, NEW rec
    PROVE  \A x \in Writes(o, r, rec) :
             OutcomeOK(x) /\ (x.res = "Ok" => x.out.mode # "Dropped")
  <1>1. \A x \in Ok(o) : OutcomeOK(x) /\ x.out = o
    BY DEF Ok, OutcomeOK, Expects, Refusals
  <1>. QED  BY <1>1, WriteRecordOK DEF Writes

\* The channel half of write keeps the stream consistent and only adds to the channel
\* registry.
LEMMA WriteChannelStep ==
    ASSUME NEW o, StreamOK(o), o.mode # "Dropped", finished \in BOOLEAN,
           opts \in OptionType, RegistriesOK,
           NEW id \in Ids, NEW content \in ChannelContents, NEW t,
           WriteChannelAndMessage(o, id, content, t)
    PROVE  /\ StreamOK(out') /\ result'.res \notin Expects
           /\ RegistryType(channels', ChannelContents)
           /\ Registered(channels, channels')
           /\ DOMAIN channels'.canonical \subseteq
                DOMAIN channels.canonical \cup {content}
  <1>. DEFINE c == RegisterAs(channels, id, content)
  <1>1. /\ RegistryType(c.reg, ChannelContents) /\ RegistryConsistent(c.reg)
        /\ c.verdict \in {"known", "Conflict", "panic_occupied", "new"}
        /\ Extends(channels, c.reg)
        /\ DOMAIN c.reg.canonical \subseteq DOMAIN channels.canonical \cup {content}
    BY RegisterAsConsistent DEF RegistriesOK, RegistriesConsistent
  <1>2. \/ /\ out' = o /\ Returns("write", c.verdict) /\ channels' = channels
        \/ /\ channels' = c.reg
           /\ \E x \in Writes(o, c, ChannelRec(id, content)) :
                \/ out' = x.out /\ Returns("write", x.res)
                \/ /\ x.res = "Ok"
                   /\ \E y \in WriteMessage(x.out, id, t) :
                        out' = y.out /\ Returns("write", y.res)
    BY DEF WriteChannelAndMessage, CountAndWrite
  <1>. HIDE DEF c
  <1>3. CASE out' = o /\ Returns("write", c.verdict) /\ channels' = channels
    <2>1. result'.res \notin Expects
      BY <1>1, <1>3 DEF Returns, Expects
    <2>2. Registered(channels, channels')
      BY <1>3, UnchangedRegistered DEF RegistriesOK, RegistriesConsistent
    <2>. QED  BY <1>3, <2>1, <2>2 DEF RegistriesOK
  <1>4. ASSUME channels' = c.reg,
               NEW x \in Writes(o, c, ChannelRec(id, content)),
               \/ out' = x.out /\ Returns("write", x.res)
               \/ /\ x.res = "Ok"
                  /\ \E y \in WriteMessage(x.out, id, t) :
                       out' = y.out /\ Returns("write", y.res)
        PROVE  StreamOK(out') /\ result'.res \notin Expects
    <2>1. OutcomeOK(x) /\ (x.res = "Ok" => x.out.mode # "Dropped")
      BY WritesOK
    <2>. QED  BY <1>4, <2>1, WriteMessageOK DEF OutcomeOK, Returns
  <1>. QED  BY <1>1, <1>2, <1>3, <1>4 DEF Registered

\* write keeps the invariant and only adds to both registries.
LEMMA WriteStep ==
    ASSUME Inv, NEW id \in Ids, NEW topic \in Topics, NEW schemaId \in Ids,
           NEW schema \in SchemaContents \cup {NoSchema}, NEW t,
           Write(id, topic, schemaId, schema, t)
    PROVE  Inv' /\ Registered(schemas, schemas') /\ Registered(channels, channels')
  <1>. DEFINE s == IF schema = NoSchema
                   THEN [reg |-> schemas, verdict |-> "known", id |-> 0]
                   ELSE RegisterAs(schemas, schemaId, schema)
              sid == IF schema = NoSchema THEN 0 ELSE schemaId
              content == ChannelContent(sid, topic)
  <1>0. /\ StreamOK(out) /\ out.mode # "Dropped" /\ RegistriesOK
        /\ finished \in BOOLEAN /\ opts \in OptionType
    BY Usable DEF Write, Inv
  <1>1. /\ RegistryType(s.reg, SchemaContents) /\ Registered(schemas, s.reg)
        /\ s.verdict \notin Expects
        /\ Accepted(s) => sid = 0 \/ sid \in DOMAIN s.reg.all
    <2>1. CASE schema = NoSchema
      BY <1>0, <2>1, UnchangedRegistered
      DEF RegistriesOK, RegistriesConsistent, Expects
    <2>2. CASE schema # NoSchema
      <3>1. schema \in SchemaContents
        BY <2>2
      <3>. QED  BY <1>0, <2>2, <3>1, RegisterAsConsistent
                DEF RegistriesOK, RegistriesConsistent, Registered, Expects, Accepted
    <2>. QED  BY <2>1, <2>2
  <1>2. content \in ChannelContents /\ content.schema = sid
    <2>1. sid \in Ids
      BY MaxIdAssumption DEF Ids
    <2>. QED  BY <2>1 DEF ChannelContent, ChannelContents
  <1>3. /\ UNCHANGED <<opts, finished>> /\ schemas' = s.reg
        /\ \/ /\ out' = out /\ Returns("write", s.verdict) /\ channels' = channels
           \/ /\ Accepted(s)
              /\ \E x \in Writes(out, s, SchemaRec(schemaId, schema)) :
                   \/ /\ out' = x.out /\ Returns("write", x.res)
                      /\ channels' = channels
                   \/ /\ x.res = "Ok"
                      /\ WriteChannelAndMessage(x.out, id, content, t)
    BY DEF Write
  <1>. HIDE DEF s, content, sid
  <1>4. ASSUME StreamOK(out'), result'.res \notin Expects, channels' = channels
        PROVE  Inv' /\ Registered(channels, channels')
    <2>1. RegistriesOK'
      BY <1>0, <1>1, <1>3, <1>4
      DEF RegistriesOK, RegistriesConsistent, ChannelSchemasKnown, Registered, Extends
    <2>2. Registered(channels, channels')
      BY <1>0, <1>4, UnchangedRegistered DEF RegistriesOK, RegistriesConsistent
    <2>. QED  BY <1>3, <1>4, <2>1, <2>2, InvFromParts
  <1>5. CASE out' = out /\ Returns("write", s.verdict) /\ channels' = channels
    BY <1>0, <1>1, <1>3, <1>4, <1>5 DEF Returns
  <1>6. ASSUME Accepted(s),
               NEW x \in Writes(out, s, SchemaRec(schemaId, schema)),
               \/ /\ out' = x.out /\ Returns("write", x.res)
                  /\ channels' = channels
               \/ /\ x.res = "Ok"
                  /\ WriteChannelAndMessage(x.out, id, content, t)
        PROVE  Inv' /\ Registered(channels, channels')
    <2>1. OutcomeOK(x) /\ (x.res = "Ok" => x.out.mode # "Dropped")
      BY <1>0, WritesOK
    <2>2. CASE out' = x.out /\ Returns("write", x.res) /\ channels' = channels
      BY <1>4, <2>1, <2>2 DEF Returns, OutcomeOK
    <2>3. CASE x.res = "Ok" /\ WriteChannelAndMessage(x.out, id, content, t)
      <3>1. /\ StreamOK(out') /\ result'.res \notin Expects
            /\ RegistryType(channels', ChannelContents)
            /\ Registered(channels, channels')
            /\ DOMAIN channels'.canonical \subseteq
                 DOMAIN channels.canonical \cup {content}
        BY <1>0, <1>2, <2>1, <2>3, WriteChannelStep DEF OutcomeOK
      <3>2. ChannelSchemasKnown'
        BY <1>0, <1>1, <1>2, <1>3, <1>6, <3>1
        DEF RegistriesOK, RegistriesConsistent, ChannelSchemasKnown, Registered, Extends
      <3>3. RegistriesOK'
        BY <1>1, <1>3, <3>1, <3>2
        DEF RegistriesOK, RegistriesConsistent, Registered
      <3>. QED  BY <1>3, <3>1, <3>3, InvFromParts
    <2>. QED  BY <1>6, <2>2, <2>3
  <1>7. Registered(schemas, schemas')
    BY <1>1, <1>3
  <1>. QED  BY <1>3, <1>5, <1>6, <1>7

-------------------------------------------------------------------------------
(* The end of the writer's life.                                           *)

\* Registries that do not change stay well formed.
LEMMA RegistriesKept ==
    ASSUME RegistriesOK, UNCHANGED <<schemas, channels>>
    PROVE  RegistriesOK'
  BY DEF RegistriesOK, RegistriesConsistent, ChannelSchemasKnown

\* finish keeps the invariant.
LEMMA FinishStep ==
    ASSUME Inv, Finish
    PROVE  Inv'
  <1>1. PICK f \in FinishOutcomes :
          out' = f.out /\ finished' = f.finished /\ Returns("finish", f.res)
    BY DEF Finish
  <1>2. /\ StreamOK(out) /\ out.mode # "Dropped" /\ RegistriesConsistent
        /\ finished \in BOOLEAN /\ opts \in OptionType
    BY Usable DEF Finish, Inv, RegistriesOK
  <1>3. /\ StreamOK(f.out) /\ f.res \notin Expects /\ f.finished \in BOOLEAN
        /\ f.finished => f.out.mode = "Raw"
    BY <1>2, FinishOutcomesOK
  <1>4. StreamOK(out)'
    BY <1>1, <1>3 DEF StreamOK, Buffering, Finish
  <1>5. RegistriesOK'
    BY RegistriesKept DEF Finish, Inv
  <1>. QED  BY <1>1, <1>3, <1>4, <1>5 DEF Inv, Finish, Returns

\* A dropped writer holds nothing open.
LEMMA DroppedOK ==
    ASSUME NEW d, DOMAIN d = OutFields, d.mode = "Dropped",
           d.chunk_mode \in {"Direct", "Buffered"},
           d.chunk = NoChunk, d.att = NoAttachment, ListsOK(Lists(d)), out' = d
    PROVE  StreamOK(out)'
  <1>1. /\ NoAttachment \in [length : Nat, position : Nat]
        /\ NoAttachment.position <= NoAttachment.length
    BY DEF NoAttachment
  <1>. QED  BY <1>1, NoChunkFields DEF StreamOK, Buffering, Modes

\* into_inner keeps the invariant.
LEMMA IntoInnerStep ==
    ASSUME Inv, IntoInner
    PROVE  Inv'
  <1>. DEFINE tail == \/ out.mode = "Attachment"
                      \/ out.mode = "Chunk" /\ ~out.chunk.buffered
              left == IF tail THEN Appended(out, <<Torn>>) ELSE out
              d == [Taken(left) EXCEPT !.mode = "Dropped", !.chunk = NoChunk,
                                       !.att = NoAttachment]
  <1>1. out' = d /\ finished' = TRUE
    BY DEF IntoInner
  <1>2. DOMAIN left = OutFields /\ left.chunk_mode \in {"Direct", "Buffered"}
    BY AppendedOK DEF Inv, StreamOK
  <1>. HIDE DEF left
  <1>3. /\ DOMAIN d = OutFields /\ d.mode = "Dropped"
        /\ d.chunk_mode = left.chunk_mode
        /\ d.chunk = NoChunk /\ d.att = NoAttachment
        /\ Lists(d) = <<<<>>, <<>>, <<>>>>
    BY <1>2 DEF Taken, OutFields, Lists
  <1>. HIDE DEF d
  <1>4. StreamOK(out)'
    BY <1>1, <1>2, <1>3, NothingCollected, DroppedOK
  <1>5. ~SummaryPanics
    BY SummaryFindsContent DEF Inv, RegistriesOK
  <1>6. result'.res \notin Expects
    BY <1>5 DEF IntoInner, Returns, Expects
  <1>7. RegistriesOK'
    BY RegistriesKept DEF IntoInner, Inv
  <1>. QED  BY <1>1, <1>4, <1>6, <1>7 DEF Inv, IntoInner

\* Dropping the writer keeps the invariant.
LEMMA DropStep ==
    ASSUME Inv, Drop
    PROVE  Inv'
  <1>. DEFINE left(f) == IF f.out.mode = "Attachment"
                         THEN Appended(f.out, <<Torn>>) ELSE f.out
              d(f) == [left(f) EXCEPT !.mode = "Dropped", !.att = NoAttachment]
  <1>1. PICK f \in FinishOutcomes :
          /\ out' = d(f) /\ finished' = f.finished
          /\ Returns("drop", IF f.res \in Panics THEN f.res ELSE "Ok")
    BY DEF Drop
  <1>2. /\ StreamOK(out) /\ out.mode # "Dropped" /\ RegistriesConsistent
        /\ finished \in BOOLEAN /\ opts \in OptionType
    BY DEF Drop, Inv, RegistriesOK
  <1>3. /\ StreamOK(f.out) /\ f.res \notin Expects /\ f.finished \in BOOLEAN
        /\ f.out.mode # "Chunk"
    BY <1>2, FinishOutcomesOK
  <1>4. /\ DOMAIN left(f) = OutFields /\ left(f).chunk = NoChunk
        /\ left(f).chunk_mode \in {"Direct", "Buffered"}
        /\ ListsOK(Lists(left(f)))
    BY <1>3, AppendedOK DEF StreamOK
  <1>. HIDE DEF left
  <1>5. /\ DOMAIN d(f) = OutFields /\ d(f).mode = "Dropped"
        /\ d(f).chunk_mode = left(f).chunk_mode
        /\ d(f).chunk = NoChunk /\ d(f).att = NoAttachment
        /\ Lists(d(f)) = Lists(left(f))
    BY <1>4 DEF OutFields, Lists
  <1>. HIDE DEF d
  <1>6. StreamOK(out)'
    BY <1>1, <1>4, <1>5, DroppedOK
  <1>7. result'.res \notin Expects
    BY <1>1, <1>3 DEF Returns, Expects
  <1>8. RegistriesOK'
    BY RegistriesKept DEF Drop, Inv
  <1>. QED  BY <1>1, <1>3, <1>6, <1>7, <1>8 DEF Inv, Drop

-------------------------------------------------------------------------------
(* The theorems.                                                           *)

\* The ids a caller passes, and zero, are 16-bit ids.
LEMMA CallerIdsAreIds == CallerIds \subseteq Ids /\ 0 \in Ids
  BY WriterAssumption, MaxIdAssumption DEF Ids

\* The attachment lengths a run enumerates are natural numbers.
LEMMA Lengths == 0..MaxAttachment \subseteq Nat /\ 1..MaxAttachment \subseteq Nat
  BY WriterAssumption

\* Every step of the writer keeps the inductive invariant.
LEMMA NextInv == Inv /\ [Next]_vars => Inv'
  <1>. SUFFICES ASSUME Inv, [Next]_vars PROVE Inv'
    OBVIOUS
  <1>0. CASE UNCHANGED vars
    <2>1. StreamOK(out)'
      BY <1>0 DEF Inv, vars, StreamOK, Buffering
    <2>2. RegistriesOK'
      BY <1>0, RegistriesKept DEF Inv, vars
    <2>. QED  BY <1>0, <2>1, <2>2 DEF Inv, vars
  <1>1. ASSUME NEW c \in SchemaContents, AddSchema(c) PROVE Inv'
    BY <1>1, AddSchemaStep
  <1>2. ASSUME NEW s \in CallerIds \cup {0}, NEW p \in Topics, AddChannel(s, p)
        PROVE  Inv'
    BY <1>2, CallerIdsAreIds, AddChannelStep
  <1>3. ASSUME NEW i \in CallerIds, NEW t \in Times, WriteToKnownChannel(i, t)
        PROVE  Inv'
    BY <1>3, WriteToKnownChannelStep
  <1>4. ASSUME NEW i \in CallerIds, NEW s \in CallerIds, NEW p \in Topics,
               NEW c \in SchemaContents \cup {NoSchema}, NEW t \in Times,
               Write(i, p, s, c, t)
        PROVE  Inv'
    BY <1>4, CallerIdsAreIds, WriteStep
  <1>5. ASSUME NEW reserved \in BOOLEAN, NEW inChunks \in BOOLEAN,
               WritePrivateRecord(reserved, inChunks)
        PROVE  Inv'
    BY <1>5, PrivateStep
  <1>6. ASSUME NEW n \in 0..MaxAttachment, StartAttachment(n) PROVE Inv'
    BY <1>6, Lengths, AttachmentSteps
  <1>7. ASSUME NEW n \in 1..MaxAttachment, PutAttachmentBytes(n) PROVE Inv'
    BY <1>7, Lengths, AttachmentSteps
  <1>8. CASE FinishAttachment \/ WriteMetadata
    BY <1>8, AttachmentSteps
  <1>9. ASSUME NEW n \in 0..MaxAttachment, Attach(n) PROVE Inv'
    BY <1>9, Lengths, AttachStep
  <1>10. CASE Flush
    BY <1>10, FlushStep
  <1>11. CASE Finish
    BY <1>11, FinishStep
  <1>12. CASE IntoInner
    BY <1>12, IntoInnerStep
  <1>13. CASE Drop
    BY <1>13, DropStep
  <1>. QED
    BY <1>0, <1>1, <1>2, <1>3, <1>4, <1>5, <1>6, <1>7, <1>8, <1>9, <1>10,
       <1>11, <1>12, <1>13
    DEF Next

\* The inductive invariant holds in every reachable state.
THEOREM InvHolds == Spec => []Inv
  BY InitInv, NextInv, PTL DEF Spec

\* Every field keeps its type, and a chunk or an attachment is open only in
\* the mode that owns it.
THEOREM TypeCorrect == Spec => []TypeOK
  <1>1. Inv => TypeOK
    BY DEF Inv, TypeOK, StreamOK, RegistriesOK
  <1>. QED  BY <1>1, InvHolds, PTL

\* The id maps of write.rs stay consistent for every id width and for every
\* mix of add_schema, add_channel and write().
THEOREM RegistriesStayConsistent == Spec => []RegistriesConsistent
  <1>1. Inv => RegistriesConsistent
    BY DEF Inv, RegistriesOK
  <1>. QED  BY <1>1, InvHolds, PTL

\* What write() returns for a message that brings its channel and schema along.
LEMMA WriteVerdict ==
    ASSUME Inv, NEW id \in Ids, NEW topic \in Topics, NEW schemaId \in Ids,
           NEW schema \in SchemaContents \cup {NoSchema}, NEW t,
           Write(id, topic, schemaId, schema, t)
    PROVE  Judged(id, topic, schemaId, schema)
  <1>. DEFINE s == IF schema = NoSchema
                   THEN [reg |-> schemas, verdict |-> "known", id |-> 0]
                   ELSE RegisterAs(schemas, schemaId, schema)
              sid == IF schema = NoSchema THEN 0 ELSE schemaId
              content == ChannelContent(sid, topic)
              c == RegisterAs(channels, id, content)
              badSchema == schema # NoSchema /\ Clashes(schemas, schemaId, schema)
              badChannel == Clashes(channels, id, content)
  <1>0. /\ StreamOK(out) /\ out.mode # "Dropped" /\ RegistriesOK
        /\ finished \in BOOLEAN /\ opts \in OptionType
    BY Usable DEF Write, Inv
  <1>1. content \in ChannelContents
    <2>1. sid \in Ids
      BY MaxIdAssumption DEF Ids
    <2>. QED  BY <2>1 DEF ChannelContent, ChannelContents
  <1>2. /\ Accepted(s) <=> ~badSchema
        /\ s.verdict = "panic_occupied" => Unseen(schemas, schema)
        /\ s.verdict \in {"known", "Conflict", "panic_occupied", "new"}
    <2>1. CASE schema = NoSchema
      BY <2>1 DEF Accepted
    <2>2. CASE schema # NoSchema
      <3>1. schema \in SchemaContents
        BY <2>2
      <3>. QED  BY <1>0, <2>2, <3>1, RegisterAsVerdict, RegisterAsConsistent
                DEF RegistriesOK, RegistriesConsistent
    <2>. QED  BY <2>1, <2>2
  <1>3. /\ Accepted(c) <=> ~badChannel
        /\ c.verdict = "panic_occupied" => Unseen(channels, content)
        /\ c.verdict \in {"known", "Conflict", "panic_occupied", "new"}
    BY <1>0, <1>1, RegisterAsVerdict, RegisterAsConsistent DEF RegistriesOK, RegistriesConsistent
  <1>4. \/ /\ ~Accepted(s) /\ Returns("write", s.verdict)
        \/ /\ Accepted(s)
           /\ \E x \in Writes(out, s, SchemaRec(schemaId, schema)) :
                \/ x.res # "Ok" /\ Returns("write", x.res)
                \/ x.res = "Ok" /\ WriteChannelAndMessage(x.out, id, content, t)
    BY DEF Write
  <1>. HIDE DEF s, content, sid
  <1>5. CASE ~Accepted(s) /\ Returns("write", s.verdict)
    <2>1. result'.res = s.verdict /\ badSchema /\ s.verdict # "Ok"
      BY <1>2, <1>5 DEF Returns
    <2>. HIDE DEF badSchema, badChannel
    <2>2. /\ result'.res = "Ok" => ~badSchema /\ ~badChannel
          /\ result'.res = "Conflict" => badSchema \/ badChannel
          /\ result'.res = "panic_occupied" =>
               (badSchema /\ Unseen(schemas, schema)) \/ (badChannel /\ Unseen(channels, content))
      BY <1>2, <2>1
    <2>. QED  BY <2>2 DEF badSchema, badChannel, content, sid, Judged
  <1>6. ASSUME Accepted(s), NEW x \in Writes(out, s, SchemaRec(schemaId, schema)),
               \/ x.res # "Ok" /\ Returns("write", x.res)
               \/ x.res = "Ok" /\ WriteChannelAndMessage(x.out, id, content, t)
        PROVE  /\ result'.res = "Ok" => ~badSchema /\ ~badChannel
               /\ result'.res = "Conflict" => badSchema \/ badChannel
               /\ result'.res = "panic_occupied" =>
                    (badSchema /\ Unseen(schemas, schema)) \/ (badChannel /\ Unseen(channels, content))
    <2>1. OutcomeOK(x) /\ (x.res = "Ok" => x.out.mode # "Dropped")
      BY <1>0, WritesOK
    <2>2. x.res \notin Refusals
      BY <2>1 DEF OutcomeOK
    <2>3. CASE x.res # "Ok" /\ Returns("write", x.res)
      BY <2>2, <2>3 DEF Returns, Refusals
    <2>4. CASE x.res = "Ok" /\ WriteChannelAndMessage(x.out, id, content, t)
      <3>1. \/ ~Accepted(c) /\ Returns("write", c.verdict)
            \/ /\ Accepted(c)
               /\ \E y \in Writes(x.out, c, ChannelRec(id, content)) :
                    \/ y.res # "Ok" /\ Returns("write", y.res)
                    \/ /\ y.res = "Ok"
                       /\ \E z \in WriteMessage(y.out, id, t) : Returns("write", z.res)
        BY <2>4 DEF WriteChannelAndMessage, CountAndWrite
      <3>. HIDE DEF c, badSchema, badChannel
      <3>2. CASE ~Accepted(c) /\ Returns("write", c.verdict)
        <4>1. result'.res = c.verdict /\ badChannel /\ c.verdict # "Ok"
          BY <1>3, <3>2 DEF Returns
        <4>. QED  BY <1>3, <4>1
      <3>3. ASSUME Accepted(c), NEW y \in Writes(x.out, c, ChannelRec(id, content)),
                   \/ y.res # "Ok" /\ Returns("write", y.res)
                   \/ /\ y.res = "Ok"
                      /\ \E z \in WriteMessage(y.out, id, t) : Returns("write", z.res)
            PROVE  result'.res \notin Refusals /\ ~badChannel
        <4>1. OutcomeOK(y) /\ (y.res = "Ok" => y.out.mode # "Dropped")
          BY <1>0, <2>1, <2>4, WritesOK DEF OutcomeOK
        <4>2. ~badChannel
          BY <1>3, <3>3
        <4>3. CASE y.res # "Ok" /\ Returns("write", y.res)
          BY <4>1, <4>2, <4>3 DEF Returns, OutcomeOK
        <4>4. ASSUME y.res = "Ok", NEW z \in WriteMessage(y.out, id, t), Returns("write", z.res)
              PROVE  result'.res \notin Refusals
          <5>1. OutcomeOK(z)
            BY <1>0, <4>1, <4>4, WriteMessageOK DEF OutcomeOK
          <5>. QED  BY <4>4, <5>1 DEF Returns, OutcomeOK
        <4>. QED  BY <3>3, <4>2, <4>3, <4>4
      <3>4. ~badSchema
        BY <1>2, <1>6
      <3>. QED  BY <3>1, <3>2, <3>3, <3>4 DEF Refusals
    <2>. QED  BY <1>6, <2>3, <2>4
  <1>. QED  BY <1>4, <1>5, <1>6 DEF content, sid, Judged

\* A message whose channel or schema id is taken by other content is never written,
\* and the expect() calls of write.rs fire for nothing else.
THEOREM WriteRefusesClashes == Spec => ClashesRefused
  <1>1. Inv /\ Inv' => Refusing
    <2>. SUFFICES ASSUME Inv, Inv' PROVE Refusing
      OBVIOUS
    <2>1. result'.res \notin {"panic_insert", "panic_summary"}
      BY DEF Inv, Expects
    <2>. QED  BY <2>1, CallerIdsAreIds, WriteVerdict DEF Refusing
  <1>. QED  BY <1>1, InvHolds, PTL DEF ClashesRefused

\* With disable_seeking no chunk is ever written through the seeking path.
THEOREM NoSeeks == Spec => []NoSeekWhenDisabled
  <1>1. Inv => NoSeekWhenDisabled
    BY DEF Inv, NoSeekWhenDisabled, StreamOK, Buffering
  <1>. QED  BY <1>1, InvHolds, PTL

\* Every call adds to the registries or leaves them alone.
LEMMA RegistriesGrow ==
    ASSUME Inv, [Next]_vars
    PROVE  Registered(schemas, schemas') /\ Registered(channels, channels')
  <1>. DEFINE Grow == Registered(schemas, schemas') /\ Registered(channels, channels')
  <1>0. Registered(schemas, schemas) /\ Registered(channels, channels)
    BY UnchangedRegistered DEF Inv, RegistriesOK, RegistriesConsistent
  <1>1. CASE UNCHANGED <<schemas, channels>>
    BY <1>0, <1>1
  <1>2. ASSUME NEW c \in SchemaContents, AddSchema(c) PROVE Grow
    BY <1>2, <1>0, AddSchemaStep
  <1>3. ASSUME NEW s \in CallerIds \cup {0}, NEW p \in Topics, AddChannel(s, p)
        PROVE  Grow
    BY <1>3, CallerIdsAreIds, <1>0, AddChannelStep
  <1>4. ASSUME NEW i \in CallerIds, NEW s \in CallerIds, NEW p \in Topics,
                 NEW c \in SchemaContents \cup {NoSchema}, NEW t \in Times,
                 Write(i, p, s, c, t)
        PROVE  Grow
    BY <1>4, CallerIdsAreIds, WriteStep
  <1>5. CASE UNCHANGED vars
    BY <1>1, <1>5 DEF vars
  <1>6. ASSUME NEW i \in CallerIds, NEW t \in Times, WriteToKnownChannel(i, t)
        PROVE  Grow
    BY <1>1, <1>6 DEF WriteToKnownChannel
  <1>7. ASSUME NEW call, NEW outcomes, StreamCall(call, outcomes) PROVE Grow
    BY <1>1, <1>7 DEF StreamCall
  <1>8. CASE Finish \/ IntoInner \/ Drop
    BY <1>1, <1>8 DEF Finish, IntoInner, Drop
  <1>. QED
    BY <1>2, <1>3, <1>4, <1>5, <1>6, <1>7, <1>8
      DEF Next, WritePrivateRecord, StartAttachment, PutAttachmentBytes,
          FinishAttachment, Attach, WriteMetadata, Flush

\* An id once registered keeps its content for the life of the writer.
THEOREM IdsKeepTheirMeaning == Spec => IdsKeepMeaning
  <1>. DEFINE Kept == MeaningKept(schemas, schemas')
                      /\ MeaningKept(channels, channels')
  <1>1. ASSUME Inv, Registered(schemas, schemas'), Registered(channels, channels')
        PROVE  Kept
    BY <1>1, ExtendsKeepsMeaning DEF Inv, RegistriesOK, RegistriesConsistent, Registered
  <1>. HIDE DEF Kept
  <1>3. Inv /\ [Next]_vars => Kept
    BY <1>1, RegistriesGrow
  <1>4. Inv /\ [Next]_vars => [Kept]_vars
    BY <1>3
  <1>5. Spec => [][Kept]_vars
    BY <1>4, InvHolds, PTL DEF Spec
  <1>. QED  BY <1>5 DEF IdsKeepMeaning, Kept

-------------------------------------------------------------------------------
(* Calls that are refused.                                                 *)

\* A refused writer neither opens nor finishes a chunk.
LEMMA RefusedEverywhere ==
    ASSUME NEW o, Refusal(o) # "none"
    PROVE  /\ \A x \in FinishChunk(o) : x.out = o /\ x.res # "Ok"
           /\ \A x \in StartChunk(o) : x.out = o /\ x.res # "Ok"
  <1>1. FinishChunk(o) = Fails(o, Refusal(o)) /\ StartChunk(o) = Fails(o, Refusal(o))
    BY DEF FinishChunk, StartChunk
  <1>2. Refusal(o) # "Ok"
    BY DEF Refusal, ModeRefusal
  <1>. QED  BY <1>1, <1>2 DEF Fails

\* A refused record leaves the stream as it was.
LEMMA RefusedRecord ==
    ASSUME NEW o, Refusal(o) # "none", NEW r
    PROVE  \A x \in WriteRecord(o, r) : x.out = o
  BY RefusedEverywhere DEF WriteRecord, Then

\* A refused record with bookkeeping leaves the stream as it was.
LEMMA RefusedWrites ==
    ASSUME NEW o, Refusal(o) # "none", NEW r, NEW rec
    PROVE  \A x \in Writes(o, r, rec) : x.out = o
  BY RefusedRecord DEF Writes, Ok

\* A refused message leaves the stream as it was.
LEMMA RefusedMessage ==
    ASSUME NEW o, Refusal(o) # "none", NEW id, NEW t
    PROVE  \A x \in WriteMessage(o, id, t) : x.out = o
  <1>. SUFFICES ASSUME NEW x \in WriteMessage(o, id, t) PROVE x.out = o
    OBVIOUS
  <1>. DEFINE First == IF TargetReached(o) THEN FinishChunk(o) ELSE Ok(o)
              r == MessageRec(id, t)
              Rest(y) == IF opts.use_chunks
                         THEN Then(StartChunk(y),
                                   LAMBDA z : AppendChunk(IndexMessage(z, id, t), r))
                         ELSE Then(FinishChunk(y), LAMBDA z : AppendRaw(z, r))
  <1>1. \A y \in First : y.out = o
    BY RefusedEverywhere DEF Ok
  <1>2. \/ x \in First
        \/ \E y \in First : x \in Rest(y.out)
    BY DEF WriteMessage, Then
  <1>3. \A y \in Rest(o) : y.out = o
    BY RefusedEverywhere DEF Then
  <1>. HIDE DEF First, Rest
  <1>. QED  BY <1>1, <1>2, <1>3

\* A refused attachment or metadata record leaves the stream as it was.
LEMMA RefusedAttachment ==
    ASSUME NEW o, Refusal(o) # "none", NEW n
    PROVE  /\ \A x \in BeginAttachment(o, n) : x.out = o /\ x.res # "Ok"
           /\ \A x \in PutMetadata(o) : x.out = o
  <1>1. \A x \in BeginAttachment(o, n) : x.out = o /\ x.res # "Ok"
    BY RefusedEverywhere DEF BeginAttachment, Then
  <1>2. \A x \in PutMetadata(o) : x.out = o
    BY RefusedEverywhere DEF PutMetadata, Then
  <1>. QED  BY <1>1, <1>2

\* finish() leaves a stream it is refused, and a finished one, as it is.
LEMMA RefusedFinish ==
    ASSUME Refusal(out) # "none"
    PROVE  \A f \in FinishOutcomes : f.out = out /\ (f.finished <=> finished)
  <1>1. CASE finished
    BY <1>1 DEF FinishOutcomes
  <1>2. CASE ~finished
    BY <1>2, RefusedEverywhere DEF FinishOutcomes
  <1>. QED  BY <1>1, <1>2

\* While the stream is with an attachment, lost, failed or finished, the calls
\* that are not about the attachment and do not end the writer leave it alone.
LEMMA RefusedCalls ==
    ASSUME Refusal(out) # "none", [Next]_vars,
           ~(\E n \in 1..MaxAttachment : PutAttachmentBytes(n)),
           ~FinishAttachment, ~IntoInner, ~Drop
    PROVE  out' = out
  <1>0. Refusal(out) # "none"
    OBVIOUS
  <1>1. ASSUME NEW c \in SchemaContents, AddSchema(c) PROVE out' = out
    BY <1>0, <1>1, RefusedRecord DEF AddSchema
  <1>2. ASSUME NEW s \in CallerIds \cup {0}, NEW p \in Topics, AddChannel(s, p)
        PROVE  out' = out
    BY <1>0, <1>2, RefusedRecord DEF AddChannel
  <1>3. ASSUME NEW i \in CallerIds, NEW t \in Times, WriteToKnownChannel(i, t)
        PROVE  out' = out
    BY <1>0, <1>3, RefusedMessage DEF WriteToKnownChannel, CountAndWrite
  <1>4. ASSUME NEW i \in CallerIds, NEW s \in CallerIds, NEW p \in Topics,
               NEW c \in SchemaContents \cup {NoSchema}, NEW t \in Times,
               Write(i, p, s, c, t)
        PROVE  out' = out
    <2>1. ASSUME NEW content, WriteChannelAndMessage(out, i, content, t)
          PROVE  out' = out
      BY <1>0, <2>1, RefusedWrites, RefusedMessage
      DEF WriteChannelAndMessage, CountAndWrite
    <2>2. \/ out' = out
          \/ \E r : \E x \in Writes(out, r, SchemaRec(s, c)) :
               \/ out' = x.out
               \/ \E content : WriteChannelAndMessage(x.out, i, content, t)
      BY <1>4 DEF Write
    <2>. QED  BY <1>0, <2>1, <2>2, RefusedWrites
  <1>5. ASSUME NEW reserved \in BOOLEAN, NEW inChunks \in BOOLEAN,
               WritePrivateRecord(reserved, inChunks)
        PROVE  out' = out
    <2>1. \A x \in Then(StartChunk(out), LAMBDA y : AppendChunk(y, PrivateRec)) :
            x.out = out
      BY <1>0, RefusedEverywhere DEF Then
    <2>2. \A x \in Then(FinishChunk(out), LAMBDA y : AppendRaw(y, PrivateRec)) :
            x.out = out
      BY <1>0, RefusedEverywhere DEF Then
    <2>3. \A x \in Fails(out, "PrivateRecordOpcodeIsReserved") : x.out = out
      BY DEF Fails
    <2>. QED  BY <1>5, <2>1, <2>2, <2>3 DEF WritePrivateRecord, StreamCall
  <1>6. ASSUME NEW n \in 0..MaxAttachment, StartAttachment(n) PROVE out' = out
    BY <1>0, <1>6, RefusedAttachment DEF StartAttachment, StreamCall
  <1>7. ASSUME NEW n \in 0..MaxAttachment, Attach(n) PROVE out' = out
    <2>1. \A x \in Then(BeginAttachment(out, n),
                        LAMBDA y : Then(PutBytes(y, n), LAMBDA z : EndAttachment(z))) :
            x.out = out
      BY <1>0, RefusedAttachment DEF Then
    <2>. QED  BY <1>7, <2>1 DEF Attach, StreamCall
  <1>8. CASE WriteMetadata
    BY <1>0, <1>8, RefusedAttachment DEF WriteMetadata, StreamCall
  <1>9. CASE Flush
    <2>1. \A x \in Then(FinishChunk(out), LAMBDA y : Ok(y) \cup IoError(y, {y})) :
            x.out = out
      BY <1>0, RefusedEverywhere DEF Then
    <2>. QED  BY <1>9, <2>1 DEF Flush, StreamCall
  <1>10. \A f \in FinishOutcomes : f.out = out
    BY <1>0, RefusedFinish
  <1>11. CASE Finish
    BY <1>10, <1>11 DEF Finish
  <1>12. CASE UNCHANGED vars
    BY <1>12 DEF vars
  <1>. QED
    BY <1>1, <1>2, <1>3, <1>4, <1>5, <1>6, <1>7, <1>8, <1>9, <1>11, <1>12 DEF Next

\* Nothing but the attachment calls reaches the stream between
\* start_attachment and finish_attachment.
THEOREM AttachmentsUndisturbed == Spec => AttachmentUndisturbed
  <1>. DEFINE Undisturbed ==
                out.mode = "Attachment"
                /\ result'.call \notin AttachmentCalls \cup {"into_inner", "drop"}
                => out' = out
  <1>1. Inv /\ [Next]_vars => Undisturbed
    <2>. SUFFICES ASSUME Inv, [Next]_vars, out.mode = "Attachment",
                         result'.call \notin AttachmentCalls \cup {"into_inner", "drop"}
                  PROVE  out' = out
      OBVIOUS
    <2>1. ~(\E n \in 1..MaxAttachment : PutAttachmentBytes(n))
      BY DEF PutAttachmentBytes, StreamCall, Returns, AttachmentCalls
    <2>2. ~FinishAttachment
      BY DEF FinishAttachment, StreamCall, Returns, AttachmentCalls
    <2>3. ASSUME NEW res, Returns("into_inner", res) \/ Returns("drop", res)
          PROVE  FALSE
      BY <2>3 DEF Returns
    <2>4. ~IntoInner /\ ~Drop
      BY <2>3 DEF IntoInner, Drop
    <2>5. Refusal(out) # "none"
      BY DEF Refusal, ModeRefusal
    <2>. QED  BY <2>1, <2>2, <2>4, <2>5, RefusedCalls
  <1>. HIDE DEF Undisturbed
  <1>2. Inv /\ [Next]_vars => [Undisturbed]_vars
    BY <1>1
  <1>3. Spec => [][Undisturbed]_vars
    BY <1>2, InvHolds, PTL DEF Spec
  <1>. QED  BY <1>3 DEF AttachmentUndisturbed, Undisturbed

\* A writer that failed or lost its stream never adds to the file again, not
\* even in finish(), into_inner() or drop.
THEOREM FailuresAreFinal == Spec => FailedIsFinal
  <1>. DEFINE Final == out.mode \in {"Failed", "None"} => out'.file = out.file
  <1>1. Inv /\ [Next]_vars => Final
    <2>. SUFFICES ASSUME Inv, [Next]_vars, out.mode \in {"Failed", "None"}
                  PROVE  out'.file = out.file
      OBVIOUS
    <2>0. DOMAIN out = OutFields /\ ~finished /\ Refusal(out) # "none"
      <3>1. DOMAIN out = OutFields /\ ~finished
        BY DEF Inv, StreamOK
      <3>. QED  BY <3>1 DEF Refusal, ModeRefusal
    <2>1. ASSUME NEW n, PutAttachmentBytes(n) PROVE out' = out
      <3>1. PutBytes(out, n) = Fails(out, "AttachmentNotInProgress")
        BY DEF PutBytes
      <3>. QED  BY <2>1, <3>1 DEF PutAttachmentBytes, StreamCall, Fails
    <2>2. CASE FinishAttachment
      <3>1. EndAttachment(out) = Fails(out, "AttachmentNotInProgress")
        BY DEF EndAttachment
      <3>. QED  BY <2>2, <3>1 DEF FinishAttachment, StreamCall, Fails
    <2>3. CASE IntoInner
      <3>1. out' = [Taken(out) EXCEPT !.mode = "Dropped", !.chunk = NoChunk,
                                      !.att = NoAttachment]
        BY <2>3 DEF IntoInner
      <3>. QED  BY <2>0, <3>1 DEF Taken, OutFields
    <2>4. CASE Drop
      <3>1. \A f \in FinishOutcomes : f.out = out
        BY <2>0, RefusedEverywhere DEF FinishOutcomes
      <3>. DEFINE left(f) == IF f.out.mode = "Attachment"
                             THEN Appended(f.out, <<Torn>>) ELSE f.out
      <3>2. \A f \in FinishOutcomes : left(f) = out
        BY <3>1
      <3>3. \E f \in FinishOutcomes :
              out' = [left(f) EXCEPT !.mode = "Dropped", !.att = NoAttachment]
        BY <2>4 DEF Drop
      <3>. HIDE DEF left
      <3>4. out' = [out EXCEPT !.mode = "Dropped", !.att = NoAttachment]
        BY <3>2, <3>3
      <3>. QED  BY <2>0, <3>4 DEF OutFields
    <2>. QED  BY <2>0, <2>1, <2>2, <2>3, <2>4, RefusedCalls
  <1>. HIDE DEF Final
  <1>2. Inv /\ [Next]_vars => [Final]_vars
    BY <1>1
  <1>3. Spec => [][Final]_vars
    BY <1>2, InvHolds, PTL DEF Spec
  <1>. QED  BY <1>3 DEF FailedIsFinal, Final

===============================================================================
