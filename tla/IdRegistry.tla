------------------------------ MODULE IdRegistry ------------------------------
(***************************************************************************)
(* How the writer (rust/mcap/src/write.rs) hands out and checks the u16    *)
(* ids of schemas and channels.  The code keeps, twice over (once for      *)
(* schemas, once for channels), a bijection from content to its canonical  *)
(* (first written) id, a map from every written id to the canonical id of  *)
(* its content, and the next id to try.  A registry here is those three    *)
(* fields; the operators are the two ways to register something:           *)
(*   Add         add_schema / add_channel: the writer picks the id;        *)
(*   RegisterAs  write(): the caller brings the id with the message.       *)
(* Each returns [reg, verdict, id]: the registry afterwards, how the call  *)
(* goes on ("known": already there, "new": a record must be written, an    *)
(* error, or a panic) and the id to use.                                   *)
(*                                                                         *)
(* A definition named X_Slip... is X with a plausible slip; it is not part *)
(* of the specification (see Writer).                                      *)
(***************************************************************************)
EXTENDS Integers, FiniteSetsExt

CONSTANTS MaxId,          \* u16::MAX in the code
          OverflowChecks  \* TRUE: debug build, `+= 1` past MaxId panics;
                          \* FALSE: release build, it wraps to 0

ASSUME MaxIdAssumption == MaxId \in Nat \ {0}
ASSUME OverflowAssumption == OverflowChecks \in BOOLEAN

Ids == 0..MaxId

\* The partial function f with k bound to v.
Put(f, k, v) == [x \in DOMAIN f \cup {k} |-> IF x = k THEN v ELSE f[x]]

EmptyRegistry == [canonical |-> [c \in {} |-> 0],
                  all       |-> [i \in {} |-> 0],
                  next      |-> 1]

\* The right-hand values of the bijection.
CanonicalIds(reg) == {reg.canonical[c] : c \in DOMAIN reg.canonical}

\* canonical.get_by_right(id), for an id that is there.
ContentOf(reg, id) == CHOOSE c \in DOMAIN reg.canonical : reg.canonical[c] = id

\* insert_no_overwrite(content, id) followed by all.insert(id, id).
Claim_SlipAlias(reg, content, id) ==
    [reg EXCEPT !.canonical = Put(@, content, id)]

Claim(reg, content, id) ==
    [reg EXCEPT !.canonical = Put(@, content, id), !.all = Put(@, id, id)]

-------------------------------------------------------------------------------
\* The ids the search loop of add_schema / add_channel can still reach.
FreeIds_SlipTaken(reg) == reg.next..MaxId

FreeIds(reg) == {i \in reg.next..MaxId : i \notin DOMAIN reg.all}

\* `next += 1` on a u16.
Bump_SlipWidth(id) == id + 1

Bump(id) == (id + 1) % (MaxId + 1)

Add(reg, content) ==
    LET free == FreeIds(reg)
        id   == Min(free)
        out(r, verdict, i) == [reg |-> r, verdict |-> verdict, id |-> i]
    IN CASE content \in DOMAIN reg.canonical ->
              out(reg, "known", reg.canonical[content])
         [] content \notin DOMAIN reg.canonical /\ free = {} ->
              out([reg EXCEPT !.next = MaxId], "TooMany", 0)
         [] content \notin DOMAIN reg.canonical /\ free # {}
            /\ id = MaxId /\ OverflowChecks ->
              out([reg EXCEPT !.next = id], "panic_overflow", 0)
         [] OTHER ->
              IF id \in CanonicalIds(reg)
              THEN out([reg EXCEPT !.next = Bump(id)], "panic_insert", 0)
              ELSE out([Claim(reg, content, id) EXCEPT !.next = Bump(id)],
                       "new", id)

\* A vacant id for known content becomes an alias.
Alias_SlipSelf(reg, id, content) == [reg EXCEPT !.all = Put(@, id, id)]

Alias(reg, id, content) ==
    [reg EXCEPT !.all = Put(@, id, reg.canonical[content])]

\* write(): the id comes with the message.  An id in use must carry content
\* whose canonical id it already maps to; the lookup of that content is an
\* expect(), which panics when the content was never seen.
RegisterAs(reg, id, content) ==
    LET seen == content \in DOMAIN reg.canonical
        out(r, verdict) == [reg |-> r, verdict |-> verdict, id |-> id]
    IN CASE id \in DOMAIN reg.all /\ ~seen -> out(reg, "panic_occupied")
         [] id \in DOMAIN reg.all /\ seen ->
              out(reg, IF reg.all[id] = reg.canonical[content]
                       THEN "known" ELSE "Conflict")
         [] id \notin DOMAIN reg.all /\ seen ->
              out(Alias(reg, id, content), "new")
         [] OTHER ->
              IF id \in CanonicalIds(reg)
              THEN out(reg, "panic_insert")
              ELSE out(Claim(reg, content, id), "new")

-------------------------------------------------------------------------------
\* The content that a written id stands for.
ContentFor(reg, id) == ContentOf(reg, reg.all[id])

\* An id that was written never changes its meaning.
MeaningKept(old, new) ==
    \A i \in DOMAIN old.all :
        i \in DOMAIN new.all /\ ContentFor(new, i) = ContentFor(old, i)

\* The types of the three fields.
RegistryType(reg, contents) ==
    /\ DOMAIN reg = {"canonical", "all", "next"}
    /\ DOMAIN reg.canonical \subseteq contents
    /\ DOMAIN reg.all \subseteq Ids
    /\ \A c \in DOMAIN reg.canonical : reg.canonical[c] \in Ids
    /\ \A i \in DOMAIN reg.all : reg.all[i] \in Ids
    /\ reg.next \in Ids

\* What the expect() calls of write.rs rely on.
CanonicalInjective(reg) ==
    \A c, d \in DOMAIN reg.canonical :
        reg.canonical[c] = reg.canonical[d] => c = d

CanonicalIsOwnAlias(reg) ==
    \A c \in DOMAIN reg.canonical :
        /\ reg.canonical[c] \in DOMAIN reg.all
        /\ reg.all[reg.canonical[c]] = reg.canonical[c]

AliasesResolve(reg) ==
    \A i \in DOMAIN reg.all : reg.all[i] \in CanonicalIds(reg)

RegistryConsistent(reg) ==
    /\ CanonicalInjective(reg)
    /\ CanonicalIsOwnAlias(reg)
    /\ AliasesResolve(reg)

===============================================================================
