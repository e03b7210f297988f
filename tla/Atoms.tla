-------------------------------- MODULE Atoms --------------------------------
(***************************************************************************)
(* The atom table of jsatom.c, and the collector's mark and sweep of it    *)
(* (jsgc.c), in the shipped single-threaded build.  An atom stands for its *)
(* key: two atoms of one key would break every comparison of property      *)
(* names.                                                                  *)
(*                                                                         *)
(* An atomization that does not find its key remembers the place where the *)
(* entry is to go (hep), allocates the key's copy, which may collect, and  *)
(* then enters the atom at that place.                                     *)
(***************************************************************************)
EXTENDS HashChain

CONSTANTS
    AtomKeys,
    PinnedKeys,    \* what js_InitPinnedAtoms pins
    InternedKeys,  \* what the embedder may intern (JS_InternString)
    MaxCompiles,   \* how deep compilations nest
    NoAtom

\* There is no memory for so many atoms that the table would need more buckets
\* than there are hash codes (RawAdd).
ASSUME AtomsAssumption ==
    /\ IsFiniteSet(AtomKeys) /\ AtomKeys \subseteq Keys /\ NoAtom \notin AtomKeys
    /\ PinnedKeys \subseteq AtomKeys /\ InternedKeys \subseteq AtomKeys
    /\ Cardinality(AtomKeys) <= OVERLOADED(NBuckets(HashBits))
    /\ MaxCompiles \in Nat

VARIABLES
    atomTable,     \* rt->atomState.table
    pinned, interned,   \* the atoms with these flags
    lastAtom,      \* cx->lastAtom
    gcKeepAtoms,
    compiles,      \* the atoms each unfinished compilation holds, innermost last
    scriptAtoms,   \* the atoms of the scripts in use
    pending        \* the atomization under way: its key, flag and hep

atomVars == <<atomTable, pinned, interned, lastAtom, gcKeepAtoms, compiles,
              scriptAtoms, pending>>
holders == <<gcKeepAtoms, compiles, scriptAtoms>>

Present == ToSet(Entries(atomTable))
NoPending == [key |-> NoAtom]

\* The address hep has for key k: the end of its chain in this bucket array.
Hep(t, k) == <<t.log2, IF Chain(t, k) = <<>> THEN NoAtom ELSE Last(Chain(t, k))>>

\* js_InitPinnedAtoms
WithPinned(t) ==
    LET missing == SetToSeq({k \in PinnedKeys : ~HasKey(t, k)})
        added[i \in 0..Len(missing)] ==
            IF i = 0 THEN t ELSE RawAdd(added[i - 1], missing[i])
    IN added[Len(missing)]

ATInit ==
    /\ atomTable = WithPinned(NewTable)
    /\ pinned = PinnedKeys /\ interned = {}
    /\ lastAtom = NoAtom /\ gcKeepAtoms = 0
    /\ compiles = <<>> /\ scriptAtoms = {}
    /\ pending = NoPending

\* The innermost compilation keeps every atom it makes or meets.
Hold(k) ==
    compiles' = IF compiles = <<>> THEN compiles
                ELSE [compiles EXCEPT ![Len(compiles)] = @ \cup {k}]

AtomizeFound(k, intern) ==
    /\ pending = NoPending /\ HasKey(atomTable, k)
    /\ atomTable' = FoundFirst(atomTable, k)
    /\ interned' = IF intern THEN interned \cup {k} ELSE interned
    /\ lastAtom' = k
    /\ Hold(k)
    /\ UNCHANGED <<pinned, gcKeepAtoms, scriptAtoms, pending>>

AtomizeNew(k, intern) ==
    /\ pending = NoPending /\ ~HasKey(atomTable, k)
    /\ pending' = [key |-> k, intern |-> intern, hep |-> Hep(atomTable, k)]
    /\ UNCHANGED <<atomTable, pinned, interned, lastAtom, holders>>

AtomizeAdd ==
    LET k == pending.key
    IN /\ pending # NoPending
       /\ atomTable' = RawAdd(atomTable, k)
       /\ interned' = IF pending.intern THEN interned \cup {k} ELSE interned
       /\ lastAtom' = k
       /\ Hold(k)
       /\ pending' = NoPending
       /\ UNCHANGED <<pinned, gcKeepAtoms, scriptAtoms>>

\* No memory for the key, the entry or a larger table.
AtomizeFails ==
    /\ pending # NoPending
    /\ pending' = NoPending
    /\ UNCHANGED <<atomTable, pinned, interned, lastAtom, holders>>

----------------------------------------------------------------------------
(* Compilation holds atoms that no script refers to yet (JS_KEEP_ATOMS).    *)

BeginCompile ==
    /\ pending = NoPending /\ Len(compiles) < MaxCompiles
    /\ gcKeepAtoms' = gcKeepAtoms + 1
    /\ compiles' = Append(compiles, {})
    /\ UNCHANGED <<atomTable, pinned, interned, lastAtom, scriptAtoms, pending>>

\* With or without a script to show for it (js_InitAtomMap).
EndCompile ==
    /\ pending = NoPending /\ compiles # <<>>
    /\ gcKeepAtoms' = gcKeepAtoms - 1
    /\ compiles' = Front(compiles)
    /\ \/ scriptAtoms' = scriptAtoms \cup Last(compiles)
       \/ UNCHANGED scriptAtoms
    /\ UNCHANGED <<atomTable, pinned, interned, lastAtom, pending>>

DropScripts ==
    /\ pending = NoPending /\ scriptAtoms # {}
    /\ scriptAtoms' = {}
    /\ UNCHANGED <<atomTable, pinned, interned, lastAtom, gcKeepAtoms, compiles, pending>>

----------------------------------------------------------------------------
(* The collector.                                                           *)

\* js_atom_marker, and what js_GC marks through contexts and scripts.
Marked(keepAll, last) ==
    IF keepAll THEN Present
    ELSE (pinned \cup interned \cup scriptAtoms \cup {last}) \cap Present

Sweep(marked) ==
    \E memory \in BOOLEAN : atomTable' = EnumerateKeeping(atomTable, marked, memory)

\* Mutant of LastDitchKeeps: it collects as any other.
LastDitchForgets == FALSE

\* The last ditch collection inside an allocation keeps all atoms.
LastDitchKeeps == TRUE

CollectLastDitch ==
    /\ pending # NoPending
    /\ Sweep(Marked(LastDitchKeeps \/ gcKeepAtoms > 0, lastAtom))
    /\ UNCHANGED <<pinned, interned, lastAtom, holders, pending>>

\* js_GC from a branch callback or the embedder; js_ForceGC drops lastAtom.
Collect ==
    /\ pending = NoPending
    /\ \/ UNCHANGED lastAtom
       \/ lastAtom' = NoAtom
    /\ Sweep(Marked(gcKeepAtoms > 0, lastAtom'))
    /\ UNCHANGED <<pinned, interned, holders, pending>>

\* The last context goes: js_UnpinPinnedAtoms before its collection.
UnpinAndCollect ==
    /\ pending = NoPending /\ compiles = <<>> /\ scriptAtoms = {}
    /\ pinned' = {} /\ lastAtom' = NoAtom
    /\ Sweep(interned)
    /\ UNCHANGED <<interned, holders, pending>>

\* The next first context.
PinAgain ==
    /\ pinned = {}
    /\ pinned' = PinnedKeys
    /\ atomTable' = WithPinned(atomTable)
    /\ UNCHANGED <<interned, lastAtom, holders, pending>>

Working ==
    \/ \E k \in AtomKeys, intern \in BOOLEAN :
           /\ intern => k \in InternedKeys
           /\ AtomizeFound(k, intern) \/ AtomizeNew(k, intern)
    \/ AtomizeAdd \/ AtomizeFails
    \/ BeginCompile \/ EndCompile \/ DropScripts
    \/ CollectLastDitch \/ Collect \/ UnpinAndCollect

ATNext ==
    \/ pinned # {} /\ Working
    \/ PinAgain

ATSpec == ATInit /\ [][ATNext]_atomVars

----------------------------------------------------------------------------
(***************************************************************************)
(* Every key has at most one atom, in the chain where a lookup searches    *)
(* it; the entry count is right; and the place an unfinished atomization   *)
(* has remembered is still where its atom belongs, though the allocation   *)
(* in between may have swept the table.  No atom is swept that someone can *)
(* still name: a compilation, suspended or not, a script, cx->lastAtom,    *)
(* the runtime's pinned names, or the user who interned it.                *)
(***************************************************************************)
AtomsExact ==
    LET entries == Entries(atomTable)
        present == ToSet(entries)
    IN /\ Len(entries) = atomTable.n /\ Cardinality(present) = atomTable.n
       /\ \A k \in present : HasKey(atomTable, k)
       /\ pending # NoPending =>
              /\ pending.key \notin present
              /\ pending.hep = Hep(atomTable, pending.key)
       /\ (UNION ToSet(compiles)) \cup scriptAtoms \cup pinned \cup interned
              \cup ({lastAtom} \ {NoAtom}) \subseteq present
=============================================================================
