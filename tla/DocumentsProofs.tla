---------------------------- MODULE DocumentsProofs -----------------------------
(***************************************************************************)
(* What is kept of documents, for all numbers of documents, tags, questions*)
(* and transactions, and texts of any length: merges of tags lose no link  *)
(* and wait for each other in no circle, a client that reads a conversation*)
(* page by page sees all of it, chunks hold every character of a text, in  *)
(* order, and the composition of the parts keeps what each of them keeps.  *)
(***************************************************************************)
EXTENDS MCDocuments, StorageOutboxProofs, RebuildEmbeddingsProofs, FiniteSetTheorems,
        SequenceTheorems

-----------------------------------------------------------------------------
(* Locks on tags.  Merges lock rows in one order, so they never wait for   *)
(* each other in a circle.                                                 *)

MergeRecords == [pc : {"idle", "lock", "copied", "done"}, source : TagIds \cup {NoTag},
                 name : Names \cup {NoName}, todo : SUBSET TagIds,
                 locked : SUBSET TagIds, copied : SUBSET TaggedDocs]

\* What a merge has locked comes before what it still has to lock.
LocksAscend ==
  /\ merges \in [Merges -> MergeRecords]
  /\ \A m \in Merges : \A t \in merges[m].todo, u \in merges[m].locked : u < t

-----------------------------------------------------------------------------
LEMMA NoLocksAtFirst == TagsInit => LocksAscend
  BY DEF TagsInit, LocksAscend, IdleMerge, MergeRecords

\* A row is locked only when it is the lowest that is left.
LEMMA LockAscends ==
  ASSUME LocksAscend, NEW m \in Merges, NEW t \in TagIds, LockRow(m, t)
  PROVE  LocksAscend'
<1> DEFINE left == merges[m].todo \ {t}
           held == IF StillMatches(m, t) THEN merges[m].locked \cup {t} ELSE merges[m].locked
<1>1. merges' = [merges EXCEPT ![m].todo = left, ![m].locked = held]
  BY DEF LockRow
<1>2. left \in SUBSET TagIds /\ held \in SUBSET TagIds
  BY DEF LocksAscend, MergeRecords
<1>3. ASSUME NEW x \in left, NEW u \in held PROVE u < x
  <2>1. x \in merges[m].todo /\ t <= x /\ t # x
    BY DEF LockRow
  <2>2. x \in Nat /\ t \in Nat
    BY <1>2, TagsAssumption DEF TagIds
  <2>3. CASE u = t
    BY <2>1, <2>2, <2>3
  <2>4. CASE u \in merges[m].locked
    BY <2>1, <2>4 DEF LocksAscend
  <2> QED
    BY <2>3, <2>4
<1> HIDE DEF left, held
<1> DEFINE rec == [merges[m] EXCEPT !.todo = left, !.locked = held]
<1>4. merges[m] \in MergeRecords /\ merges' = [merges EXCEPT ![m] = rec]
  BY <1>1 DEF LocksAscend
<1>4a. rec \in MergeRecords /\ rec.todo = left /\ rec.locked = held
  BY <1>2, <1>4 DEF MergeRecords
<1> HIDE DEF rec
<1>5. ASSUME NEW n \in Merges, NEW x \in merges'[n].todo, NEW u \in merges'[n].locked PROVE u < x
  <2>1. CASE n = m
    BY <1>3, <1>4, <1>4a, <2>1 DEF LocksAscend
  <2>2. CASE n # m
    BY <1>4, <2>2 DEF LocksAscend
  <2> QED
    BY <2>1, <2>2
<1> QED
  BY <1>4, <1>4a, <1>5 DEF LocksAscend

\* Every other step leaves a merge alone, begins it without a lock or ends it.
LEMMA StepAscends ==
  ASSUME LocksAscend, [TagsNext]_tagVars
  PROVE  LocksAscend'
<1> USE DEF LocksAscend
<1>1. CASE UNCHANGED merges
  BY <1>1
<1>2. ASSUME NEW m \in Merges, NEW t \in TagIds, NEW n \in Names, BeginMerge(m, t, n)
      PROVE  LocksAscend'
  BY <1>2 DEF BeginMerge, IdleMerge, Named, MergeRecords
<1>3. ASSUME NEW m \in Merges, EndMerge(m) PROVE LocksAscend'
  <2> DEFINE merge == [IdleMerge EXCEPT !.pc = "done"]
  <2>1. merge \in MergeRecords /\ merge.locked = {} /\ merge.todo = {}
    BY DEF IdleMerge, MergeRecords
  <2>2. merges' = [merges EXCEPT ![m] = merge]
    BY <1>3 DEF EndMerge
  <2> HIDE DEF merge
  <2> QED
    BY <2>1, <2>2
<1>4. ASSUME NEW m \in Merges, CopyLinks(m) PROVE LocksAscend'
  <2> DEFINE merge == [merges[m] EXCEPT !.pc = "copied",
                         !.copied = {d \in TaggedDocs : <<d, merges[m].source>> \in links}]
  <2>1. merge \in MergeRecords /\ merge.locked = merges[m].locked /\ merge.todo = merges[m].todo
    BY DEF MergeRecords
  <2>2. merges' = [merges EXCEPT ![m] = merge]
    BY <1>4 DEF CopyLinks
  <2> HIDE DEF merge
  <2> QED
    BY <2>1, <2>2
<1>5. ASSUME NEW m \in Merges, NEW t \in TagIds, LockRow(m, t) PROVE LocksAscend'
  BY <1>5, LockAscends
<1>6. CASE UNCHANGED tagVars
  BY <1>1, <1>6 DEF tagVars
<1>7. CASE TagsNext
  <2>1. ASSUME NEW e \in Edits, EditStep(e) PROVE UNCHANGED merges
    BY <2>1 DEF EditStep, ClearLinks, PickTags, InsertLinks, LinksRejected, CommitEdit, AbortEdit
  <2>2. ASSUME NEW e \in Edits, NEW d \in TaggedDocs, NEW names \in SUBSET Names,
               BeginPatch(e, d, names) \/ BeginEnrich(e, d, names)
        PROVE  UNCHANGED merges
    BY <2>2 DEF BeginPatch, BeginEnrich
  <2>3. ASSUME NEW m \in Merges, RenameTag(m) \/ TagNotFound(m) \/ CommitMerge(m) \/ AbortMerge(m)
        PROVE  EndMerge(m)
    BY <2>3 DEF RenameTag, TagNotFound, CommitMerge, AbortMerge
  <2>4. ASSUME NEW t \in TagIds, DeleteTag(t) PROVE UNCHANGED merges
    BY <2>4 DEF DeleteTag
  <2> QED
    BY <1>1, <1>2, <1>3, <1>4, <1>5, <1>7, <2>1, <2>2, <2>3, <2>4 DEF TagsNext, MergeStep
<1> QED
  BY <1>6, <1>7

LEMMA AscendingDoNotBlock == LocksAscend => MergesDoNotBlock
<1> SUFFICES ASSUME LocksAscend, NEW m \in Merges, NEW n \in Merges,
                    merges[m].todo # {}, merges[m].todo \subseteq merges[n].locked,
                    merges[n].todo # {}, merges[n].todo \subseteq merges[m].locked
             PROVE  FALSE
  BY DEF MergesDoNotBlock
<1>1. PICK t \in merges[m].todo : t \in merges[n].locked
  OBVIOUS
<1>2. PICK u \in merges[n].todo : u \in merges[m].locked
  OBVIOUS
<1>3. u < t /\ t < u
  BY <1>1, <1>2 DEF LocksAscend
<1>4. t \in Nat /\ u \in Nat
  BY TagsAssumption DEF LocksAscend, MergeRecords, TagIds
<1> QED
  BY <1>3, <1>4

-----------------------------------------------------------------------------
\* Merges that give two tags each other's names, or share a target, never wait for each
\* other in a circle: rows are locked by id, whichever the request named first.
THEOREM MergesNeverBlock == TagsSpec => []MergesDoNotBlock
<1>1. TagsSpec => []LocksAscend
  BY NoLocksAtFirst, StepAscends, PTL DEF TagsSpec
<1> QED
  BY <1>1, AscendingDoNotBlock, PTL

-----------------------------------------------------------------------------
(* Links of tags.  A merge moves all links of its source.                  *)
(*                                                                         *)
(* It copies them before it removes the row, and in between edits commit.  *)
(* They cannot add a link to a row it has locked: an edit shares the rows  *)
(* it links until it commits, and a merge locks rows nobody shares.        *)

EditRecords == [pc : {"idle", "clear", "pick", "link", "commit", "done"},
                kind : {"patch", "enrich"}, doc : TaggedDocs \cup {NoTaggedDoc},
                names : SUBSET Names, cleared : SUBSET TagIds,
                made : [TagIds -> Names \cup {NoName}], picked : SUBSET TagIds]

\* The tags an edit has inserted are its own until it commits, names and ids; what it
\* has linked is there and stays, since no merge has it locked.
EditFits(e) ==
  /\ edits[e].pc \notin {"idle", "done"} => edits[e].doc \in TaggedDocs
  /\ edits[e].pc \notin {"link", "commit"} => Made(e) = {}
  /\ Made(e) \subseteq used /\ Made(e) \subseteq edits[e].picked
  /\ \A t \in Made(e) : tags[t] = NoName
  /\ \A t \in Made(e), u \in TagIds : tags[u] # edits[e].made[t]
  /\ \A t, u \in Made(e) : edits[e].made[t] = edits[e].made[u] => t = u
  /\ edits[e].pc = "commit" =>
       \A t \in edits[e].picked : ~LockedTag(t) /\ (t \in Made(e) \/ tags[t] # NoName)

Apart(e, f) == \A t \in Made(e), u \in Made(f) : t # u /\ edits[e].made[t] # edits[f].made[u]

\* Locked rows stay; what a merge has copied is all there is to copy until it commits.
MergeFits(m) ==
  /\ \A t \in merges[m].locked : tags[t] # NoName
  /\ merges[m].pc = "lock" => merges[m].name \in Names
  /\ merges[m].pc = "copied" =>
       /\ merges[m].source \in merges[m].locked /\ HasTarget(m)
       /\ \A d \in TaggedDocs : <<d, merges[m].source>> \in links => d \in merges[m].copied

LocksApart == \A m, n \in Merges : m # n => merges[m].locked \cap merges[n].locked = {}

TablesFit ==
  /\ tags \in [TagIds -> Names \cup {NoName}] /\ used \subseteq TagIds
  /\ \A t \in TagIds : tags[t] # NoName => t \in used
  /\ \A t, u \in TagIds : tags[t] = tags[u] /\ tags[t] # NoName => t = u
  /\ links \subseteq TaggedDocs \X TagIds /\ \A l \in links : tags[l[2]] # NoName

EditsFit ==
  /\ edits \in [Edits -> EditRecords] /\ \A e \in Edits : EditFits(e)
  /\ \A e, f \in Edits : e # f => Apart(e, f)

MergesFit ==
  /\ merges \in [Merges -> MergeRecords] /\ \A m \in Merges : MergeFits(m)
  /\ LocksApart

TInv == TablesFit /\ EditsFit /\ MergesFit

\* At first there are no tags and no transactions.
LEMMA TagsAtFirst == TagsInit => TInv
<1> SUFFICES ASSUME TagsInit PROVE TInv
  OBVIOUS
<1>1. TablesFit
  BY DEF TagsInit, TablesFit
<1>2. IdleEdit \in EditRecords /\ IdleMerge \in MergeRecords
  BY DEF IdleEdit, EditRecords, IdleMerge, MergeRecords
<1>3. \A e \in Edits : Made(e) = {} /\ edits[e].pc = "idle"
  BY DEF TagsInit, Made, IdleEdit
<1>4. EditsFit
  BY <1>2, <1>3 DEF TagsInit, EditsFit, EditFits, Apart
<1>5. \A m \in Merges : merges[m].locked = {} /\ merges[m].pc = "idle"
  BY DEF TagsInit, IdleMerge
<1>6. MergesFit
  BY <1>2, <1>5 DEF TagsInit, MergesFit, MergeFits, LocksApart
<1> QED BY <1>1, <1>4, <1>6 DEF TInv

-----------------------------------------------------------------------------
(* Edits.                                                                  *)

\* An edit goes on and nothing else changes, save ids that are given out.
LEMMA EditGoesOn ==
  ASSUME TInv, NEW e \in Edits, NEW edit \in EditRecords,
         edits' = [edits EXCEPT ![e] = edit], UNCHANGED <<tags, links, merges>>,
         used \subseteq used', used' \subseteq TagIds,
         EditFits(e)', \A f \in Edits \ {e} : Apart(e, f)' /\ Apart(f, e)'
  PROVE  TInv'
<1>1. TablesFit'
  BY DEF TInv, TablesFit
<1>2. MergesFit'
  BY DEF TInv, MergesFit, MergeFits, LocksApart, HasTarget
<1>3. edits' \in [Edits -> EditRecords]
  BY DEF TInv, EditsFit
<1>4. ASSUME NEW f \in Edits \ {e} PROVE edits'[f] = edits[f] /\ Made(f)' = Made(f) /\ EditFits(f)'
  <2>1. edits'[f] = edits[f] /\ Made(f)' = Made(f)
    BY DEF Made, TInv, EditsFit
  <2>2. \A t : LockedTag(t)' = LockedTag(t)
    BY DEF LockedTag
  <2> QED BY <2>1, <2>2 DEF TInv, EditsFit, EditFits
<1>5. ASSUME NEW f \in Edits \ {e}, NEW g \in Edits \ {e}, f # g PROVE Apart(f, g)'
  BY <1>4, <1>5 DEF TInv, EditsFit, Apart
<1> QED BY <1>1, <1>2, <1>3, <1>4, <1>5 DEF TInv, EditsFit

\* So does one that has inserted no tag, or ends.
LEMMA EditWithoutTags ==
  ASSUME TInv, NEW e \in Edits, NEW edit \in EditRecords,
         edits' = [edits EXCEPT ![e] = edit], UNCHANGED <<tags, used, links, merges>>,
         edit.made = [t \in TagIds |-> NoName], edit.pc # "commit",
         edit.pc \notin {"idle", "done"} => edit.doc \in TaggedDocs
  PROVE  TInv'
<1>1. edits'[e] = edit
  BY DEF TInv, EditsFit
<1>2. Made(e)' = {}
  BY <1>1 DEF Made
<1>3. EditFits(e)' /\ \A f \in Edits \ {e} : Apart(e, f)' /\ Apart(f, e)'
  BY <1>1, <1>2 DEF EditFits, Apart
<1> QED BY <1>3, EditGoesOn DEF TInv, TablesFit

\* A transaction on the tags of a document begins with nothing inserted.
LEMMA EditBegins ==
  ASSUME TInv, NEW e \in Edits, NEW d \in TaggedDocs, NEW names \in SUBSET Names,
         BeginPatch(e, d, names) \/ BeginEnrich(e, d, names)
  PROVE  TInv'
<1>1. NamesOf(d) \in SUBSET Names
  <2>1. \A l \in links : l[2] \in TagIds /\ tags[l[2]] # NoName
    BY DEF TInv, TablesFit
  <2>2. \A l \in links : tags[l[2]] \in Names
    BY <2>1 DEF TInv, TablesFit
  <2> QED BY <2>2 DEF NamesOf
<1>2. CASE BeginPatch(e, d, names)
  <2> DEFINE edit == [IdleEdit EXCEPT !.pc = "clear", !.doc = d, !.names = names]
  <2>1. /\ edit \in EditRecords /\ edit.made = [t \in TagIds |-> NoName] /\ edit.pc = "clear"
        /\ edit.doc = d
    BY DEF IdleEdit, EditRecords
  <2>2. edits' = [edits EXCEPT ![e] = edit] /\ UNCHANGED <<tags, used, links, merges>>
    BY <1>2 DEF BeginPatch
  <2> HIDE DEF edit
  <2> QED BY <2>1, <2>2, EditWithoutTags
<1>3. CASE BeginEnrich(e, d, names)
  <2> DEFINE edit == [IdleEdit EXCEPT !.pc = "clear", !.kind = "enrich", !.doc = d,
                                      !.names = NamesOf(d) \cup names]
  <2>1. /\ edit \in EditRecords /\ edit.made = [t \in TagIds |-> NoName] /\ edit.pc = "clear"
        /\ edit.doc = d
    BY <1>1 DEF IdleEdit, EditRecords
  <2>2. edits' = [edits EXCEPT ![e] = edit] /\ UNCHANGED <<tags, used, links, merges>>
    BY <1>3 DEF BeginEnrich
  <2> HIDE DEF edit
  <2> QED BY <2>1, <2>2, EditWithoutTags
<1> QED BY <1>2, <1>3

\* A transaction that ends without a commit leaves the tables as they are.
LEMMA EditEnds ==
  ASSUME TInv, NEW e \in Edits, EndEdit(e), UNCHANGED <<tags, used, links, merges>>
  PROVE  TInv'
<1> DEFINE edit == [IdleEdit EXCEPT !.pc = "done"]
<1>1. edit \in EditRecords /\ edit.made = [t \in TagIds |-> NoName] /\ edit.pc = "done"
  BY DEF IdleEdit, EditRecords
<1>2. edits' = [edits EXCEPT ![e] = edit]
  BY DEF EndEdit
<1> HIDE DEF edit
<1> QED BY <1>1, <1>2, EditWithoutTags

\* An edit removes the links of its document, and none that a merge has copied.
LEMMA ClearKeeps == ASSUME TInv, NEW e \in Edits, ClearLinks(e) PROVE TInv'
<1> DEFINE edit == [edits[e] EXCEPT !.pc = "pick",
                      !.cleared = {t \in TagIds : <<edits[e].doc, t>> \in links}]
<1>1. /\ edit \in EditRecords /\ edit.made = edits[e].made /\ edit.pc = "pick"
      /\ edit.doc = edits[e].doc
  BY DEF TInv, EditsFit, EditRecords
<1>2. edits' = [edits EXCEPT ![e] = edit] /\ UNCHANGED <<tags, used, links, merges>>
      /\ edits[e].pc = "clear"
  BY DEF ClearLinks
<1>3. /\ Made(e) = {} /\ edits[e].doc \in TaggedDocs
      /\ edits[e].made \in [TagIds -> Names \cup {NoName}]
  BY <1>2 DEF TInv, EditsFit, EditFits, EditRecords
<1>4. edit.made = [t \in TagIds |-> NoName]
  BY <1>1, <1>3 DEF Made
<1> HIDE DEF edit
<1> QED BY <1>1, <1>2, <1>3, <1>4, EditWithoutTags

\* New tags have free names and free ids.
LEMMA PickKeeps == ASSUME TInv, NEW e \in Edits, PickTags(e) PROVE TInv'
<1> DEFINE new == {n \in edits[e].names : Named(n) = {}}
<1>1. PICK made \in [TagIds -> new \cup {NoName}] :
        /\ \A t \in TagIds : made[t] # NoName => t \notin used
        /\ \A n \in new : Cardinality({t \in TagIds : made[t] = n}) = 1
        /\ used' = used \cup {t \in TagIds : made[t] # NoName}
        /\ edits' = [edits EXCEPT ![e].pc = "link", ![e].made = made,
                                  ![e].picked = {t \in TagIds : \/ made[t] # NoName
                                                                \/ tags[t] \in edits[e].names}]
  BY DEF PickTags
<1>2. new \cap Pending(e) = {} /\ edits[e].pc = "pick" /\ UNCHANGED <<tags, links, merges>>
      /\ edits[e].doc \in TaggedDocs /\ edits[e].names \in SUBSET Names /\ edits[e] \in EditRecords
  BY DEF PickTags, TInv, EditsFit, EditFits, EditRecords
<1>3. new \in SUBSET Names /\ \A n \in new, u \in TagIds : tags[u] # n
  BY <1>2 DEF Named
<1>4. made \in [TagIds -> Names \cup {NoName}] /\ \A t \in TagIds : made[t] # NoName
        => made[t] \in new
  BY <1>3
<1> DEFINE edit == [edits[e] EXCEPT !.pc = "link", !.made = made,
                      !.picked = {t \in TagIds : made[t] # NoName \/ tags[t] \in edits[e].names}]
<1>5. /\ edit \in EditRecords /\ edit.made = made /\ edit.pc = "link" /\ edit.doc = edits[e].doc
      /\ \A t \in TagIds : made[t] # NoName => t \in edit.picked
  BY <1>2, <1>4 DEF EditRecords
<1>6. edits' = [edits EXCEPT ![e] = edit]
  BY <1>1
<1>7. edits'[e] = edit /\ Made(e)' = {t \in TagIds : made[t] # NoName}
  BY <1>5, <1>6 DEF Made, TInv, EditsFit
<1> HIDE DEF edit, new
<1>8. \A t, u \in Made(e)' : made[t] = made[u] => t = u
  <2> SUFFICES ASSUME NEW t \in TagIds, NEW u \in TagIds, made[t] # NoName, made[t] = made[u]
               PROVE  t = u
    BY <1>7
  <2> DEFINE T == {x \in TagIds : made[x] = made[t]}
  <2>1. IsFiniteSet(T) /\ Cardinality(T) = 1
    <3>1. IsFiniteSet(TagIds)
      BY TagsAssumption, FS_Interval DEF TagIds
    <3> QED BY <1>1, <1>4, <3>1, FS_Subset
  <2>2. t \in T /\ u \in T
    OBVIOUS
  <2> HIDE DEF T
  <2>3. PICK x : T = {x}
    BY <2>1, FS_Singleton
  <2> QED BY <2>2, <2>3
<1>9. EditFits(e)'
  <2>1. \A t \in Made(e)' : t \in used' /\ t \in edit.picked /\ tags'[t] = NoName
    BY <1>1, <1>2, <1>5, <1>7 DEF TInv, TablesFit
  <2>2. \A t \in Made(e)', u \in TagIds : tags'[u] # made[t]
    BY <1>2, <1>3, <1>4, <1>7
  <2> QED BY <1>2, <1>5, <1>7, <1>8, <2>1, <2>2 DEF EditFits
<1>10. ASSUME NEW f \in Edits \ {e} PROVE Apart(e, f)' /\ Apart(f, e)'
  <2>1. edits'[f] = edits[f] /\ Made(f)' = Made(f)
    BY <1>6 DEF Made, TInv, EditsFit
  <2>2. Made(f) \subseteq used /\ \A u \in Made(f) : edits[f].made[u] \in Pending(e)
    BY DEF TInv, EditsFit, EditFits, Pending
  <2>3. \A t \in Made(e)' : t \notin used /\ made[t] \in new
    BY <1>1, <1>4, <1>7
  <2> QED BY <1>2, <1>5, <1>7, <2>1, <2>2, <2>3 DEF Apart
<1>11. used \subseteq used' /\ used' \subseteq TagIds
  BY <1>1 DEF TInv, TablesFit
<1> QED BY <1>2, <1>5, <1>6, <1>9, <1>10, <1>11, EditGoesOn

\* Links are inserted while their tags exist and are not locked.
LEMMA InsertKeeps == ASSUME TInv, NEW e \in Edits, InsertLinks(e) PROVE TInv'
<1> DEFINE edit == [edits[e] EXCEPT !.pc = "commit"]
<1>1. /\ edit \in EditRecords /\ edit.made = edits[e].made /\ edit.pc = "commit"
      /\ edit.doc = edits[e].doc /\ edit.picked = edits[e].picked
  BY DEF TInv, EditsFit, EditRecords
<1>2. edits' = [edits EXCEPT ![e] = edit] /\ UNCHANGED <<tags, used, links, merges>>
      /\ edits[e].pc = "link" /\ Insertable(e) /\ \A t \in edits[e].picked : ~LockedTag(t)
  BY DEF InsertLinks, EditGoes
<1> HIDE DEF edit
<1>3. edits'[e] = edit /\ \A f \in Edits : Made(f)' = Made(f) /\ edits'[f].made = edits[f].made
  BY <1>1, <1>2 DEF TInv, EditsFit, Made
<1>4. \A t : LockedTag(t)' = LockedTag(t)
  BY <1>2 DEF LockedTag
<1>5. EditFits(e)'
  <2>1. EditFits(e) /\ edits[e].picked \subseteq TagIds
    BY DEF TInv, EditsFit, EditRecords
  <2>2. /\ edits'[e].pc = "commit" /\ edits'[e].doc = edits[e].doc /\ edits'[e].made = edits[e].made
        /\ edits'[e].picked = edits[e].picked /\ Made(e)' = Made(e)
    BY <1>1, <1>3
  <2>3. \A t \in edits[e].picked : ~LockedTag(t)' /\ (t \in Made(e) \/ tags[t] # NoName)
    BY <1>2, <1>4 DEF Insertable
  <2> QED BY <1>2, <2>1, <2>2, <2>3 DEF EditFits
<1>6. \A f \in Edits \ {e} : Apart(e, f)' /\ Apart(f, e)'
  BY <1>3 DEF TInv, EditsFit, Apart
<1>7. used \subseteq used' /\ used' \subseteq TagIds
  BY <1>2 DEF TInv, TablesFit
<1> QED BY <1>1, <1>2, <1>5, <1>6, <1>7, EditGoesOn

\* A commit makes its tags and links those of everybody; none is one that a merge has
\* locked, so none is missed by a copy of links.
LEMMA CommitEditKeeps == ASSUME TInv, NEW e \in Edits, CommitEdit(e) PROVE TInv'
<1> DEFINE d == edits[e].doc
           made == edits[e].made
           picked == edits[e].picked
<1>1. /\ edits[e].pc = "commit" /\ UNCHANGED <<used, merges>>
      /\ tags' = [t \in TagIds |-> IF t \in Made(e) THEN made[t] ELSE tags[t]]
      /\ links' \subseteq links \cup ({d} \X picked)
      /\ edits' = [edits EXCEPT ![e] = [IdleEdit EXCEPT !.pc = "done"]]
  BY DEF CommitEdit, EndEdit
<1>2. /\ d \in TaggedDocs /\ picked \subseteq TagIds /\ Made(e) \subseteq TagIds
      /\ made \in [TagIds -> Names \cup {NoName}] /\ \A t \in Made(e) : made[t] # NoName
      /\ EditFits(e) /\ edits \in [Edits -> EditRecords]
  BY <1>1 DEF TInv, EditsFit, EditFits, EditRecords, Made
<1>3. ASSUME NEW t \in TagIds
      PROVE  /\ t \in Made(e) => tags'[t] = made[t] /\ tags[t] = NoName
             /\ t \notin Made(e) => tags'[t] = tags[t]
  BY <1>1, <1>2 DEF EditFits
<1>4. tags \in [TagIds -> Names \cup {NoName}] /\ TablesFit
  BY DEF TInv, TablesFit
<1>5. TablesFit'
  <2>1. tags' \in [TagIds -> Names \cup {NoName}]
    BY <1>1, <1>2, <1>4
  <2>2. \A t \in TagIds : tags'[t] # NoName => t \in used'
    BY <1>1, <1>2, <1>3, <1>4 DEF TablesFit, EditFits
  <2>3. \A t, u \in TagIds : tags'[t] = tags'[u] /\ tags'[t] # NoName => t = u
    <3> SUFFICES ASSUME NEW t \in TagIds, NEW u \in TagIds, tags'[t] = tags'[u], tags'[t] # NoName
                 PROVE  t = u
      OBVIOUS
    <3>1. CASE t \in Made(e) /\ u \in Made(e)
      BY <1>2, <1>3, <3>1 DEF EditFits
    <3>2. CASE t \in Made(e) /\ u \notin Made(e)
      BY <1>2, <1>3, <3>2 DEF EditFits
    <3>3. CASE t \notin Made(e) /\ u \in Made(e)
      BY <1>2, <1>3, <3>3 DEF EditFits
    <3>4. CASE t \notin Made(e) /\ u \notin Made(e)
      BY <1>3, <1>4, <3>4 DEF TablesFit
    <3> QED BY <3>1, <3>2, <3>3, <3>4
  <2>4. links' \subseteq TaggedDocs \X TagIds
    BY <1>1, <1>2, <1>4 DEF TablesFit
  <2>5. ASSUME NEW l \in links' PROVE tags'[l[2]] # NoName
    <3>1. l[2] \in TagIds
      BY <2>4, <2>5
    <3>2. CASE l \in links
      BY <1>2, <1>3, <1>4, <3>1, <3>2 DEF TablesFit
    <3>3. CASE l[2] \in picked
      BY <1>1, <1>2, <1>3, <3>1, <3>3 DEF EditFits
    <3> QED BY <1>1, <2>5, <3>2, <3>3
  <2> QED BY <1>1, <1>4, <2>1, <2>2, <2>3, <2>4, <2>5 DEF TablesFit
<1>6. EditsFit'
  <2>1. edits'[e] = [IdleEdit EXCEPT !.pc = "done"] /\ edits' \in [Edits -> EditRecords]
    BY <1>1, <1>2 DEF IdleEdit, EditRecords
  <2>2. Made(e)' = {} /\ edits'[e].pc = "done"
    BY <2>1 DEF IdleEdit, Made
  <2>3. ASSUME NEW f \in Edits \ {e}
        PROVE  edits'[f] = edits[f] /\ Made(f)' = Made(f) /\ EditFits(f) /\ Apart(e, f)
                 /\ Apart(f, e)
    BY <1>1, <1>2 DEF Made, TInv, EditsFit
  <2>4. EditFits(e)'
    BY <2>2 DEF EditFits
  <2>5. ASSUME NEW f \in Edits \ {e} PROVE EditFits(f)'
    <3>1. \A t \in Made(f) : t \in TagIds /\ tags'[t] = NoName
      BY <1>3, <2>3 DEF EditFits, Apart, Made
    <3>2. \A t \in Made(f), u \in TagIds : tags'[u] # edits[f].made[t]
      BY <1>3, <2>3 DEF EditFits, Apart
    <3>3. \A t \in edits[f].picked : t \in TagIds
      BY <1>2 DEF EditRecords
    <3>4. \A t \in TagIds : LockedTag(t)' = LockedTag(t) /\ (tags[t] # NoName => tags'[t] # NoName)
      BY <1>1, <1>2, <1>3 DEF LockedTag
    <3> QED BY <1>1, <2>3, <3>1, <3>2, <3>3, <3>4 DEF EditFits
  <2>6. \A f, g \in Edits : f # g => Apart(f, g)'
    <3> SUFFICES ASSUME NEW f \in Edits, NEW g \in Edits, f # g PROVE Apart(f, g)'
      OBVIOUS
    <3>1. CASE f = e \/ g = e
      BY <2>2, <3>1 DEF Apart
    <3>2. CASE f # e /\ g # e
      BY <2>3, <3>2 DEF Apart, TInv, EditsFit
    <3> QED BY <3>1, <3>2
  <2> QED BY <2>1, <2>4, <2>5, <2>6 DEF EditsFit
<1>7. ASSUME NEW m \in Merges PROVE MergeFits(m)'
  <2>1. MergeFits(m) /\ merges[m] \in MergeRecords
    BY DEF TInv, MergesFit
  <2>2. \A t \in merges[m].locked : t \in TagIds /\ t \notin picked
    BY <1>1, <1>2, <2>1 DEF MergeRecords, EditFits, LockedTag
  <2>3. \A t \in merges[m].locked : tags'[t] # NoName
    BY <1>2, <1>3, <2>1, <2>2 DEF MergeFits, EditFits
  <2>4. ASSUME merges[m].pc = "copied", NEW x \in TaggedDocs, <<x, merges[m].source>> \in links'
        PROVE  x \in merges[m].copied
    <3>1. merges[m].source \notin picked
      BY <2>1, <2>2, <2>4 DEF MergeFits
    <3>2. <<x, merges[m].source>> \in links
      BY <1>1, <2>4, <3>1
    <3> QED BY <2>1, <2>4, <3>2 DEF MergeFits
  <2> QED BY <1>1, <2>1, <2>3, <2>4 DEF MergeFits, HasTarget
<1>8. MergesFit'
  BY <1>1, <1>7 DEF TInv, MergesFit, LocksApart
<1> QED BY <1>5, <1>6, <1>8 DEF TInv

-----------------------------------------------------------------------------
(* Merges.                                                                 *)

\* A merge goes on and locks at most what nobody else has.
LEMMA MergeGoesOn ==
  ASSUME TInv, NEW m \in Merges, NEW merge \in MergeRecords,
         merges' = [merges EXCEPT ![m] = merge], UNCHANGED <<tags, used, links, edits>>,
         \A t \in merge.locked : t \in merges[m].locked \/ (~LockedTag(t) /\ ~SharedTag(t)),
         MergeFits(m)'
  PROVE  TInv'
<1>1. /\ merges' \in [Merges -> MergeRecords] /\ merges \in [Merges -> MergeRecords]
      /\ merges'[m] = merge
      /\ \A n \in Merges \ {m} : merges'[n] = merges[n]
  BY DEF TInv, MergesFit
<1>2. ASSUME NEW n \in Merges \ {m} PROVE MergeFits(n)'
  BY <1>1 DEF TInv, MergesFit, MergeFits, HasTarget
<1>3. LocksApart'
  <2>1. \A n \in Merges \ {m} : \A t \in merges[n].locked : t \notin merge.locked
    BY <1>1 DEF TInv, MergesFit, LocksApart, LockedTag
  <2> QED BY <1>1, <2>1 DEF TInv, MergesFit, LocksApart
<1>4. ASSUME NEW e \in Edits, edits[e].pc = "commit", NEW t \in edits[e].picked PROVE ~LockedTag(t)'
  <2>1. ~LockedTag(t) /\ SharedTag(t)
    BY <1>4 DEF TInv, EditsFit, EditFits, SharedTag
  <2> QED BY <1>1, <2>1 DEF LockedTag
<1>5. EditsFit'
  BY <1>4 DEF TInv, EditsFit, EditFits, Made, Apart
<1>6. TablesFit'
  BY DEF TInv, TablesFit
<1> QED BY <1>1, <1>2, <1>3, <1>5, <1>6 DEF TInv, MergesFit

\* A merge begins with no row locked.
LEMMA BeginMergeKeeps ==
  ASSUME TInv, NEW m \in Merges, NEW t \in TagIds, NEW n \in Names, BeginMerge(m, t, n) PROVE TInv'
<1> DEFINE merge == [IdleMerge EXCEPT !.pc = "lock", !.source = t, !.name = n,
                                      !.todo = {t} \cup Named(n)]
<1>1. merge \in MergeRecords /\ merge.pc = "lock" /\ merge.name = n /\ merge.locked = {}
  BY DEF IdleMerge, MergeRecords, Named
<1>2. merges' = [merges EXCEPT ![m] = merge] /\ UNCHANGED <<tags, used, links, edits>>
  BY DEF BeginMerge
<1> HIDE DEF merge
<1>3. merges'[m] = merge
  BY <1>2 DEF TInv, MergesFit
<1>4. MergeFits(m)'
  BY <1>1, <1>3 DEF MergeFits
<1> QED BY <1>1, <1>2, <1>4, MergeGoesOn

\* A merge locks rows that are there and that no other merge has locked.
LEMMA LockKeeps ==
  ASSUME TInv, NEW m \in Merges, NEW t \in TagIds, LockRow(m, t) PROVE TInv'
<1> DEFINE held == IF StillMatches(m, t) THEN merges[m].locked \cup {t} ELSE merges[m].locked
           merge == [merges[m] EXCEPT !.todo = merges[m].todo \ {t}, !.locked = held]
<1>1. /\ merges[m] \in MergeRecords /\ MergeFits(m) /\ merges[m].pc = "lock" /\ ~LockedTag(t)
      /\ ~SharedTag(t)
  BY DEF TInv, MergesFit, LockRow
<1>2. held \in SUBSET TagIds /\ (\A x \in held : x \in merges[m].locked \/ x = t)
      /\ \A x \in held : tags[x] # NoName
  BY <1>1 DEF MergeRecords, StillMatches, MergeFits
<1>3. merges' = [merges EXCEPT ![m] = merge] /\ UNCHANGED <<tags, used, links, edits>>
  BY DEF LockRow
<1> HIDE DEF held
<1>4. /\ merge \in MergeRecords /\ merge.locked = held /\ merge.pc = "lock"
      /\ merge.name = merges[m].name
  BY <1>1, <1>2 DEF MergeRecords
<1> HIDE DEF merge
<1>5. merges'[m] = merge
  BY <1>3 DEF TInv, MergesFit
<1>6. MergeFits(m)'
  BY <1>1, <1>2, <1>3, <1>4, <1>5 DEF MergeFits
<1> QED BY <1>1, <1>2, <1>3, <1>4, <1>6, MergeGoesOn

\* A merge copies the links that its source has.
LEMMA CopyKeeps == ASSUME TInv, NEW m \in Merges, CopyLinks(m) PROVE TInv'
<1> DEFINE merge == [merges[m] EXCEPT !.pc = "copied",
                       !.copied = {d \in TaggedDocs : <<d, merges[m].source>> \in links}]
<1>1. /\ merges[m] \in MergeRecords /\ MergeFits(m) /\ merges[m].source \in merges[m].locked
      /\ HasTarget(m)
  BY DEF TInv, MergesFit, CopyLinks
<1>2. merges' = [merges EXCEPT ![m] = merge] /\ UNCHANGED <<tags, used, links, edits>>
  BY DEF CopyLinks
<1>3. /\ merge \in MergeRecords /\ merge.locked = merges[m].locked /\ merge.pc = "copied"
      /\ merge.source = merges[m].source
      /\ merge.copied = {d \in TaggedDocs : <<d, merges[m].source>> \in links}
  BY <1>1 DEF MergeRecords
<1> HIDE DEF merge
<1>4. merges'[m] = merge
  BY <1>2 DEF TInv, MergesFit
<1>5. MergeFits(m)'
  BY <1>1, <1>2, <1>3, <1>4 DEF MergeFits, HasTarget
<1> QED BY <1>2, <1>3, <1>5, MergeGoesOn

\* The tables change, and no merge goes on, save that one may end.
LEMMA TablesChange ==
  ASSUME TInv, UNCHANGED <<used, edits>>, TablesFit', NEW M \in SUBSET Merges,
         merges' = [m \in Merges |->
                      IF m \in M THEN [IdleMerge EXCEPT !.pc = "done"] ELSE merges[m]],
         \A e \in Edits : \A t \in Made(e) :
           tags'[t] = NoName /\ \A u \in TagIds : tags'[u] # edits[e].made[t],
         \A e \in Edits : edits[e].pc = "commit" =>
           \A t \in edits[e].picked : tags[t] # NoName => tags'[t] # NoName,
         \A m \in Merges \ M : \A t \in merges[m].locked :
           tags'[t] # NoName /\ \A d \in TaggedDocs : <<d, t>> \in links' => <<d, t>> \in links
  PROVE  TInv'
<1>1. merges \in [Merges -> MergeRecords] /\ LocksApart
  BY DEF TInv, MergesFit
<1>2. \A m \in M : merges'[m].locked = {} /\ merges'[m].pc = "done" /\ merges'[m] \in MergeRecords
  BY DEF IdleMerge, MergeRecords
<1>3. \A m \in Merges \ M : merges'[m] = merges[m]
  OBVIOUS
<1>4. merges' \in [Merges -> MergeRecords] /\ LocksApart'
  BY <1>1, <1>2, <1>3 DEF LocksApart
<1>5. ASSUME NEW m \in Merges PROVE MergeFits(m)'
  <2>1. CASE m \in M
    BY <1>2, <2>1 DEF MergeFits
  <2>2. CASE m \notin M
    BY <1>3, <2>2 DEF MergeFits, TInv, MergesFit, HasTarget
  <2> QED BY <2>1, <2>2
<1>6. \A t : LockedTag(t)' => LockedTag(t)
  BY <1>2, <1>3 DEF LockedTag
<1>7. EditsFit'
  BY <1>6 DEF TInv, EditsFit, EditFits, Made, Apart
<1> QED BY <1>4, <1>5, <1>7 DEF TInv, MergesFit

\* What a merge does to the tables when it commits leaves edits what they have.
LEMMA TablesChangeWithMerge ==
  ASSUME TInv, UNCHANGED <<used, edits>>, TablesFit', NEW m \in Merges, EndMerge(m),
         \A e \in Edits : \A t \in Made(e) :
           tags'[t] = NoName /\ \A u \in TagIds : tags'[u] # edits[e].made[t],
         \A e \in Edits : edits[e].pc = "commit" =>
           \A t \in edits[e].picked : tags[t] # NoName => tags'[t] # NoName,
         \A n \in Merges \ {m} : \A t \in merges[n].locked :
           tags'[t] # NoName /\ \A d \in TaggedDocs : <<d, t>> \in links' => <<d, t>> \in links
  PROVE  TInv'
<1>1. merges' = [n \in Merges |-> IF n \in {m} THEN [IdleMerge EXCEPT !.pc = "done"] ELSE merges[n]]
  BY DEF EndMerge, TInv, MergesFit
<1>2. {m} \in SUBSET Merges
  OBVIOUS
<1> DEFINE M == {m}
<1>3. /\ M \in SUBSET Merges
      /\ merges' = [n \in Merges |->
                      IF n \in M THEN [IdleMerge EXCEPT !.pc = "done"] ELSE merges[n]]
      /\ \A n \in Merges \ M : \A t \in merges[n].locked :
           tags'[t] # NoName /\ \A d \in TaggedDocs : <<d, t>> \in links' => <<d, t>> \in links
  BY <1>1, <1>2
<1> HIDE DEF M
<1> QED BY <1>3, TablesChange

\* A merge that gives up leaves the tables as they are.
LEMMA MergeEnds ==
  ASSUME TInv, NEW m \in Merges, EndMerge(m), UNCHANGED <<tags, used, links, edits>> PROVE TInv'
<1>1. \A n \in Merges : \A t \in merges[n].locked : tags[t] # NoName
  BY DEF TInv, MergesFit, MergeFits
<1>2. \A e \in Edits : \A t \in Made(e) :
        tags[t] = NoName /\ \A u \in TagIds : tags[u] # edits[e].made[t]
  BY DEF TInv, EditsFit, EditFits
<1>3. TablesFit'
  BY DEF TInv, TablesFit
<1> QED BY <1>1, <1>2, <1>3, TablesChangeWithMerge

\* A tag is renamed while it is locked and nobody else has the name.
LEMMA RenameKeeps == ASSUME TInv, NEW m \in Merges, RenameTag(m) PROVE TInv'
<1> DEFINE n == merges[m].name
           s == merges[m].source
<1>1. /\ EndMerge(m) /\ UNCHANGED <<used, links, edits>> /\ s \in merges[m].locked /\ n \in Names
      /\ tags' = IF Named(n) \subseteq {s} THEN [tags EXCEPT ![s] = n] ELSE tags
      /\ \A e \in Edits : \A t \in Made(e) : edits[e].made[t] # n
  BY DEF RenameTag, TInv, MergesFit, MergeFits
<1>2. CASE ~(Named(n) \subseteq {s})
  BY <1>1, <1>2, MergeEnds
<1>3. CASE Named(n) \subseteq {s}
  <2>1. s \in TagIds /\ tags[s] # NoName /\ n # NoName /\ TablesFit
    BY <1>1, TagsAssumption DEF TInv, MergesFit, MergeFits, MergeRecords
  <2>2. tags'[s] = n /\ \A t \in TagIds \ {s} : tags'[t] = tags[t] /\ tags[t] # n
    BY <1>1, <1>3, <2>1 DEF Named, TablesFit
  <2>3. tags' \in [TagIds -> Names \cup {NoName}]
    BY <1>1, <1>3, <2>1 DEF TablesFit
  <2>4. TablesFit'
    BY <1>1, <2>1, <2>2, <2>3 DEF TablesFit
  <2>5. \A t \in TagIds : tags[t] # NoName => tags'[t] # NoName
    BY <2>1, <2>2
  <2>6. \A e \in Edits : \A t \in Made(e) :
          t \in TagIds /\ tags'[t] = NoName /\ \A u \in TagIds : tags'[u] # edits[e].made[t]
    BY <1>1, <2>1, <2>2 DEF TInv, EditsFit, EditFits, Made
  <2>7. \A e \in Edits : edits[e].pc = "commit" =>
          \A t \in edits[e].picked : tags[t] # NoName => tags'[t] # NoName
    BY <2>5 DEF TInv, EditsFit, EditRecords
  <2>8. \A k \in Merges : \A t \in merges[k].locked : tags'[t] # NoName
    BY <2>5 DEF TInv, MergesFit, MergeFits, MergeRecords
  <2> QED BY <1>1, <2>4, <2>6, <2>7, <2>8, TablesChangeWithMerge
<1> QED BY <1>2, <1>3

\* A row goes only when nobody has it locked or links it, and its links with it.
LEMMA DeletedTables ==
  ASSUME TInv, NEW s \in TagIds, tags' = [tags EXCEPT ![s] = NoName], UNCHANGED <<used, edits>>,
         ~SharedTag(s), NEW new \in SUBSET (TaggedDocs \X (TagIds \ {s})),
         \A l \in new : tags[l[2]] # NoName, links' = {l \in links : l[2] # s} \cup new
  PROVE  /\ TablesFit'
         /\ \A t \in TagIds \ {s} : tags'[t] = tags[t]
         /\ \A e \in Edits : \A t \in Made(e) :
              tags'[t] = NoName /\ \A u \in TagIds : tags'[u] # edits[e].made[t]
         /\ \A e \in Edits : edits[e].pc = "commit" =>
              \A t \in edits[e].picked : tags[t] # NoName => tags'[t] # NoName
<1>1. TablesFit /\ tags'[s] = NoName /\ (\A t \in TagIds \ {s} : tags'[t] = tags[t])
      /\ tags' \in [TagIds -> Names \cup {NoName}]
  BY DEF TInv, TablesFit
<1>2. links' \subseteq TaggedDocs \X TagIds /\ \A l \in links' : l[2] # s /\ tags[l[2]] # NoName
  BY <1>1 DEF TablesFit
<1>3. \A l \in links' : tags'[l[2]] # NoName
  BY <1>1, <1>2
<1>4. \A t, u \in TagIds : tags'[t] = tags'[u] /\ tags'[t] # NoName => t = u
  BY <1>1 DEF TablesFit
<1>5. TablesFit'
  BY <1>1, <1>2, <1>3, <1>4 DEF TablesFit
<1>6. \A e \in Edits : \A t \in Made(e) :
        /\ t \in TagIds /\ edits[e].made[t] # NoName /\ tags[t] = NoName
        /\ \A u \in TagIds : tags[u] # edits[e].made[t]
  BY DEF TInv, EditsFit, EditFits, Made
<1>7. \A e \in Edits : edits[e].pc = "commit" => \A t \in edits[e].picked : t \in TagIds /\ t # s
  BY DEF SharedTag, TInv, EditsFit, EditRecords
<1> QED BY <1>1, <1>5, <1>6, <1>7

\* A tag goes with its links, and nobody has its row locked.
LEMMA DeleteTagKeeps == ASSUME TInv, NEW t \in TagIds, DeleteTag(t) PROVE TInv'
<1>1. /\ tags' = [tags EXCEPT ![t] = NoName] /\ UNCHANGED <<used, edits, merges>> /\ ~SharedTag(t)
      /\ links' = {l \in links : l[2] # t} \cup {} /\ ~LockedTag(t)
  BY DEF DeleteTag
<1>2. \A m \in Merges : \A u \in merges[m].locked : u \in TagIds /\ u # t /\ tags[u] # NoName
  BY <1>1 DEF LockedTag, TInv, MergesFit, MergeFits, MergeRecords
<1>3. merges' = [m \in Merges |-> IF m \in {} THEN [IdleMerge EXCEPT !.pc = "done"] ELSE merges[m]]
  BY <1>1 DEF TInv, MergesFit
<1>4. /\ TablesFit'
      /\ \A u \in TagIds \ {t} : tags'[u] = tags[u]
      /\ \A e \in Edits : \A u \in Made(e) :
           tags'[u] = NoName /\ \A v \in TagIds : tags'[v] # edits[e].made[u]
      /\ \A e \in Edits : edits[e].pc = "commit" =>
           \A u \in edits[e].picked : tags[u] # NoName => tags'[u] # NoName
  <2> DEFINE new == {}
  <2>1. /\ new \in SUBSET (TaggedDocs \X (TagIds \ {t})) /\ \A l \in new : tags[l[2]] # NoName
        /\ links' = {l \in links : l[2] # t} \cup new
    BY <1>1
  <2> HIDE DEF new
  <2> QED BY <1>1, <2>1, DeletedTables
<1>5. {} \in SUBSET Merges
  OBVIOUS
<1>6. \A m \in Merges \ {} : \A u \in merges[m].locked :
        tags'[u] # NoName /\ \A d \in TaggedDocs : <<d, u>> \in links' => <<d, u>> \in links
  BY <1>1, <1>2, <1>4
<1> QED BY <1>1, <1>3, <1>4, <1>5, <1>6, TablesChange

\* A merge deletes the row it has locked, and what it links has another one locked.
LEMMA TargetLocked ==
  ASSUME TInv, NEW m \in Merges, merges[m].pc = "copied"
  PROVE  /\ MergeTarget(m) \in merges[m].locked /\ MergeTarget(m) # merges[m].source
         /\ merges[m].source \in merges[m].locked /\ merges[m].locked \subseteq TagIds
         /\ merges[m].copied \subseteq TaggedDocs
         /\ ~SharedTag(merges[m].source)
<1>1. MergeFits(m) /\ merges[m] \in MergeRecords
  BY DEF TInv, MergesFit
<1>2. \E t \in merges[m].locked : t # merges[m].source
  BY <1>1 DEF MergeFits, HasTarget
<1>3. ~SharedTag(merges[m].source)
  BY <1>1 DEF MergeFits, SharedTag, TInv, EditsFit, EditFits, LockedTag
<1> QED BY <1>1, <1>2, <1>3 DEF MergeTarget, MergeFits, MergeRecords

\* The commit of a merge moves the links and removes the row of its source.
LEMMA CommitMergeKeeps == ASSUME TInv, NEW m \in Merges, CommitMerge(m) PROVE TInv'
<1> DEFINE s == merges[m].source
           new == merges[m].copied \X {MergeTarget(m)}
<1>1. /\ merges[m].pc = "copied" /\ EndMerge(m) /\ UNCHANGED <<used, edits>>
      /\ tags' = [tags EXCEPT ![s] = NoName] /\ links' = {l \in links : l[2] # s} \cup new
  BY DEF CommitMerge
<1>2. \A k \in Merges : \A t \in merges[k].locked : t \in TagIds /\ tags[t] # NoName
  BY DEF TInv, MergesFit, MergeFits, MergeRecords
<1>3. /\ s \in TagIds /\ ~SharedTag(s) /\ new \in SUBSET (TaggedDocs \X (TagIds \ {s}))
      /\ \A l \in new : tags[l[2]] # NoName
  BY <1>1, <1>2, TargetLocked
<1>4. \A k \in Merges \ {m} : s \notin merges[k].locked /\ MergeTarget(m) \notin merges[k].locked
  BY <1>1, TargetLocked DEF TInv, MergesFit, LocksApart
<1> HIDE DEF s
<1>5. /\ TablesFit'
      /\ \A u \in TagIds \ {s} : tags'[u] = tags[u]
      /\ \A e \in Edits : \A u \in Made(e) :
           tags'[u] = NoName /\ \A v \in TagIds : tags'[v] # edits[e].made[u]
      /\ \A e \in Edits : edits[e].pc = "commit" =>
           \A u \in edits[e].picked : tags[u] # NoName => tags'[u] # NoName
  <2> HIDE DEF new
  <2> QED BY <1>1, <1>3, DeletedTables
<1>6. \A k \in Merges \ {m} : \A u \in merges[k].locked :
        tags'[u] # NoName /\ \A d \in TaggedDocs : <<d, u>> \in links' => <<d, u>> \in links
  BY <1>1, <1>2, <1>4, <1>5
<1> QED BY <1>1, <1>5, <1>6, TablesChangeWithMerge

-----------------------------------------------------------------------------
\* Every step of tags keeps the invariant.
LEMMA TagsStepKeeps == TInv /\ [TagsNext]_tagVars => TInv'
<1> SUFFICES ASSUME TInv, [TagsNext]_tagVars PROVE TInv'
  OBVIOUS
<1>1. CASE UNCHANGED tagVars
  <2>1. UNCHANGED <<tags, used, links, edits, merges>>
    BY <1>1 DEF tagVars
  <2> QED BY <2>1
          DEF TInv, TablesFit, EditsFit, MergesFit, EditFits, MergeFits, LocksApart, Apart, Made,
                  LockedTag, HasTarget
<1>2. ASSUME NEW e \in Edits, EditStep(e) PROVE TInv'
  <2>1. LinksRejected(e) \/ AbortEdit(e) => EndEdit(e) /\ UNCHANGED <<tags, used, links, merges>>
    BY DEF LinksRejected, AbortEdit
  <2> QED BY <1>2, <2>1, EditEnds, ClearKeeps, PickKeeps, InsertKeeps, CommitEditKeeps DEF EditStep
<1>3. ASSUME NEW m \in Merges, MergeStep(m) PROVE TInv'
  <2>1. TagNotFound(m) \/ AbortMerge(m) => EndMerge(m) /\ UNCHANGED <<tags, used, links, edits>>
    BY DEF TagNotFound, AbortMerge
  <2> QED BY <1>3, <2>1, MergeEnds, LockKeeps, RenameKeeps, CopyKeeps, CommitMergeKeeps
          DEF MergeStep
<1>4. CASE TagsNext
  BY <1>2, <1>3, <1>4, EditBegins, BeginMergeKeeps, DeleteTagKeeps DEF TagsNext
<1> QED BY <1>1, <1>4

\* The invariant of tags.
LEMMA TagsStay == TagsSpec => []TInv
BY TagsAtFirst, TagsStepKeeps, PTL DEF TagsSpec

\* It contains the types.
LEMMA TagsFit == TInv => TagsTypeOK
BY DEF TInv, TablesFit, EditsFit, MergesFit, EditRecords, MergeRecords, TagsTypeOK

\* The row of a merge that has copied its links goes with its own commit, never otherwise.
LEMMA MergedAwayKeepsLinks ==
  ASSUME TInv, [TagsNext]_tagVars, NEW m \in Merges, NEW d \in TaggedDocs,
         merges[m].pc = "copied", tags'[merges[m].source] = NoName,
         <<d, merges[m].source>> \in links
  PROVE  <<d, MergeTarget(m)>> \in links'
<1> DEFINE s == merges[m].source
<1>1. /\ s \in merges[m].locked /\ s \in TagIds /\ tags[s] # NoName /\ d \in merges[m].copied
      /\ LockedTag(s) /\ tags \in [TagIds -> Names \cup {NoName}]
  BY TargetLocked DEF TInv, TablesFit, MergesFit, MergeFits, LockedTag
<1>2. ASSUME UNCHANGED tags PROVE FALSE
  BY <1>1, <1>2
<1>3. ASSUME NEW e \in Edits, CommitEdit(e) PROVE FALSE
  <2>1. tags' = [t \in TagIds |-> IF t \in Made(e) THEN edits[e].made[t] ELSE tags[t]]
    BY <1>3 DEF CommitEdit
  <2> QED BY <1>1, <2>1 DEF Made
<1>4. ASSUME NEW k \in Merges, RenameTag(k) PROVE FALSE
  <2>1. merges[k].name # NoName
    BY <1>4, TagsAssumption DEF RenameTag, TInv, MergesFit, MergeFits
  <2> QED BY <1>1, <1>4, <2>1 DEF RenameTag
<1>5. ASSUME NEW k \in Merges, CommitMerge(k) PROVE <<d, MergeTarget(m)>> \in links'
  <2>1. tags' = [tags EXCEPT ![merges[k].source] = NoName] /\ merges[k].pc = "copied"
        /\ links' = {l \in links : l[2] # merges[k].source}
                      \cup (merges[k].copied \X {MergeTarget(k)})
    BY <1>5 DEF CommitMerge
  <2>2. merges[k].source = s
    BY <1>1, <2>1
  <2>3. k = m
    BY <1>1, <2>1, <2>2, TargetLocked DEF TInv, MergesFit, LocksApart
  <2> QED BY <1>1, <2>1, <2>3
<1>6. ASSUME NEW t \in TagIds, DeleteTag(t) PROVE FALSE
  BY <1>1, <1>6 DEF DeleteTag
<1>7. ASSUME NEW e \in Edits, EditStep(e) PROVE <<d, MergeTarget(m)>> \in links'
  BY <1>2, <1>3, <1>7 DEF EditStep, ClearLinks, PickTags, InsertLinks, LinksRejected, AbortEdit
<1>8. ASSUME NEW k \in Merges, MergeStep(k) PROVE <<d, MergeTarget(m)>> \in links'
  BY <1>2, <1>4, <1>5, <1>8 DEF MergeStep, LockRow, TagNotFound, CopyLinks, AbortMerge
<1> QED BY <1>2, <1>6, <1>7, <1>8 DEF TagsNext, tagVars, BeginPatch, BeginEnrich, BeginMerge

\* Types of every variable; names stay unique among the tags of a user and no link
\* outlives its tag, whatever edits, merges and deletions run at the same time.
THEOREM TagsTyped == TagsSpec => []TagsTypeOK
BY TagsStay, TagsFit, PTL

\* A document that has a tag when it is merged away has the other tag afterwards.
THEOREM MergesKeepLinks == TagsSpec => MergeKeepsLinks
<1>1. ASSUME TInv, [TagsNext]_tagVars
      PROVE  [\A m \in Merges, d \in TaggedDocs :
                /\ merges[m].pc = "copied" /\ tags'[merges[m].source] = NoName
                /\ <<d, merges[m].source>> \in links
                => <<d, MergeTarget(m)>> \in links']_tagVars
  BY <1>1, MergedAwayKeepsLinks
<1> QED BY <1>1, TagsStay, PTL DEF TagsSpec, MergeKeepsLinks

-----------------------------------------------------------------------------
(* Conversations.  A client that reads page by page misses nothing.        *)
(*                                                                         *)
(* What the scan has seen is what lies before its cursor.  A page is a set *)
(* of the first rows after it, so its last row exists (LastOf: every finite*)
(* set that is ordered has a last element); a turn that is stored later has*)
(* a later time and is not among those the scan is to find.                *)

\* A finite set that is ordered by R has a last element.
LEMMA LastOf ==
  ASSUME NEW S, IsFiniteSet(S), S # {}, NEW R,
         \A x, y, z \in S : <<x, y>> \in R /\ <<y, z>> \in R => <<x, z>> \in R,
         \A x, y \in S : x = y \/ <<x, y>> \in R \/ <<y, x>> \in R
  PROVE  \E m \in S : \A k \in S : k = m \/ <<k, m>> \in R
<1> DEFINE HasLast(T) == \E m \in T : \A k \in T : k = m \/ <<k, m>> \in R
           Bad == {T \in FiniteSubsetsOf(S) : T # {} /\ ~HasLast(T)}
<1>1. SUFFICES ASSUME Bad # {} PROVE FALSE
  <2>1. S \in FiniteSubsetsOf(S)
    BY DEF FiniteSubsetsOf
  <2> QED BY <1>1, <2>1
<1>2. PICK T \in Bad : \A U \in Bad : <<U, T>> \notin StrictSubsetOrdering(S)
  BY <1>1, FS_StrictSubsetOrderingWellFounded, WFMin
<1>3. T \in SUBSET S /\ IsFiniteSet(T) /\ T # {} /\ ~HasLast(T)
  BY <1>2 DEF FiniteSubsetsOf
<1>4. PICK x \in T : TRUE
  BY <1>3
<1> DEFINE U == T \ {x}
<1>5. U \in FiniteSubsetsOf(S) /\ <<U, T>> \in StrictSubsetOrdering(S)
  BY <1>3, <1>4, FS_RemoveElement DEF FiniteSubsetsOf, StrictSubsetOrdering
<1>6. U = {} \/ HasLast(U)
  BY <1>2, <1>5
<1>7. CASE U = {}
  BY <1>3, <1>4, <1>7
<1>8. CASE HasLast(U)
  <2>1. PICK m \in U : \A k \in U : k = m \/ <<k, m>> \in R
    BY <1>8
  <2>2. x \in S /\ m \in S /\ x # m /\ \A k \in T : k \in S /\ (k = x \/ k = m \/ <<k, m>> \in R)
    BY <1>3, <1>4, <2>1
  <2>3. CASE <<x, m>> \in R
    BY <1>3, <2>1, <2>2, <2>3
  <2>4. CASE <<m, x>> \in R
    BY <1>3, <1>4, <2>2, <2>4
  <2> QED BY <2>2, <2>3, <2>4
<1> QED BY <1>6, <1>7, <1>8

-----------------------------------------------------------------------------
(* Conversations.                                                          *)

Stored(m) == messages[m].role # "none"
Readable(m) == messages[m].role \in {"user", "assistant"}

MessageRow == [conv : Conversations \cup {NoConversation}, at : Nat,
               role : {"none", "user", "assistant", "deleted"}]
RequestRecord == [pc : {"idle", "answering", "persisting", "done"},
                  kind : {"new", "ask", "regenerate"}, conv : Conversations \cup {NoConversation},
                  removed : SUBSET Rows, known : SUBSET Rows, at : Nat]
ScanRecord == [pc : {"idle", "reading", "done"}, way : {"asc", "desc"},
               conv : Conversations \cup {NoConversation}, cursor : Nat \X Nat,
               got : SUBSET Rows, start : SUBSET Rows, twice : BOOLEAN]

\* A request has a conversation and takes the time of its transaction once; what a
\* regeneration is to replace is part of what it found.
QuestionFits(r) ==
  /\ questions[r].pc \in {"answering", "persisting"} => questions[r].conv \in Conversations
  /\ questions[r].at < chatTime
  /\ questions[r].pc \in {"idle", "answering"} => questions[r].at = 0
  /\ questions[r].pc = "persisting" => questions[r].at # 0
  /\ \A q \in Questions \ {r} : questions[r].at # 0 => questions[q].at # questions[r].at
  /\ questions[r].removed \subseteq questions[r].known

\* A row that was ever stored has the time of its request, which is over.
MessageFits(m) ==
  /\ Stored(m) => /\ questions[m[1]].pc = "done"
                  /\ messages[m].at = questions[m[1]].at /\ messages[m].at # 0
  /\ Readable(m) => messages[m].conv \in Conversations /\ Exists(messages[m].conv)

\* What a scan has handed out is all there is up to its cursor.
Beyond(m) == Behind(scan.way, Place(m), scan.cursor)
AtStart == scan.cursor = <<0, 0>>
ScanFits ==
  /\ ~scan.twice
  /\ \A m \in scan.start : Stored(m) /\ messages[m].conv = scan.conv
  /\ \A m \in scan.got : Stored(m)
  /\ scan.pc = "reading" =>
       /\ scan.conv \in Conversations
       /\ AtStart => scan.got = {}
       /\ ~AtStart => /\ \A m \in scan.got : ~Beyond(m)
                      /\ \A m \in scan.start : Readable(m) => m \in scan.got \/ Beyond(m)
  /\ scan.pc = "done" => \A m \in scan.start : Readable(m) => m \in scan.got

CInv ==
  /\ conversations \in [Conversations -> {"none", "untouched", "renamed", "deleted"}]
  /\ messages \in [Rows -> MessageRow] /\ \A m \in Rows : MessageFits(m)
  /\ IsFiniteSet({m \in Rows : Stored(m)})
  /\ questions \in [Questions -> RequestRecord] /\ \A r \in Questions : QuestionFits(r)
  /\ \A r \in Questions : \A m \in questions[r].known : Stored(m)
  /\ chatTime \in Nat
  /\ scan \in ScanRecord /\ ScanFits

-----------------------------------------------------------------------------
\* At first nothing is stored, asked or read.
LEMMA ChatAtFirst == ChatInit => CInv
<1> SUFFICES ASSUME ChatInit PROVE CInv
  OBVIOUS
<1>1. NoMessage \in MessageRow /\ NewRequest \in RequestRecord /\ NoScan \in ScanRecord
  BY DEF NoMessage, MessageRow, NewRequest, RequestRecord, NoScan, ScanRecord
<1>2. \A m \in Rows : ~Stored(m) /\ MessageFits(m)
  BY DEF ChatInit, NoMessage, Stored, MessageFits, Readable
<1>3. IsFiniteSet({m \in Rows : Stored(m)})
  BY <1>2, FS_EmptySet
<1>4. \A r \in Questions : QuestionFits(r)
  BY DEF ChatInit, NewRequest, QuestionFits
<1>5. ScanFits
  BY DEF ChatInit, NoScan, ScanFits
<1>6. \A r \in Questions : questions[r].known = {}
  BY DEF ChatInit, NewRequest
<1> QED BY <1>1, <1>2, <1>3, <1>4, <1>5, <1>6 DEF ChatInit, CInv

\* Different rows have different places.
LEMMA PlacesDiffer ==
  ASSUME CInv, NEW m \in Rows, NEW k \in Rows, Stored(m), Stored(k), m # k
  PROVE  /\ Place(m) \in Nat \X Nat /\ Place(m) # <<0, 0>>
         /\ After(Place(m), Place(k)) \/ After(Place(k), Place(m))
<1>1. /\ m[1] \in Questions /\ k[1] \in Questions /\ m[2] \in {1, 2} /\ k[2] \in {1, 2}
      /\ m[1] # k[1] \/ m[2] # k[2]
  BY DEF Rows
<1>2. /\ messages[m].at = questions[m[1]].at /\ messages[k].at = questions[k[1]].at
      /\ messages[m].at \in Nat /\ messages[k].at \in Nat /\ messages[m].at # 0
  BY DEF CInv, MessageFits, MessageRow
<1>3. m[1] # k[1] => messages[m].at # messages[k].at
  BY <1>1, <1>2 DEF CInv, QuestionFits
<1> QED BY <1>1, <1>2, <1>3 DEF Place, After

\* The places of rows, forward or backward, are ordered.
LEMMA BehindOrders ==
  ASSUME NEW way, NEW p \in Nat \X Nat, NEW q \in Nat \X Nat, NEW s \in Nat \X Nat
  PROVE  /\ Behind(way, p, q) => ~Behind(way, q, p)
         /\ Behind(way, p, q) /\ Behind(way, q, s) => Behind(way, p, s)
         /\ ~Behind(way, p, p)
BY DEF Behind, After

-----------------------------------------------------------------------------
(* A page.                                                                 *)

Before(unread, way, m) == {k \in unread : Behind(way, Place(m), Place(k))}

\* A page is the first rows in the order of the scan, and has a last one.
LEMMA PageHasLast ==
  ASSUME CInv, NEW way \in {"asc", "desc"}, NEW unread, IsFiniteSet(unread), unread # {},
         \A m \in unread : m \in Rows /\ Stored(m),
         NEW shown, shown = {m \in unread : Cardinality(Before(unread, way, m)) < PageSize}
  PROVE  /\ \A m \in shown, k \in unread : Behind(way, Place(m), Place(k)) => k \in shown
         /\ \E m \in shown : shown \subseteq Before(unread, way, m) \cup {m}
<1> DEFINE Ahead(m) == Before(unread, way, m)
<1>1. \A m \in unread : Place(m) \in Nat \X Nat
  BY DEF CInv, MessageRow, Place, Rows
<1>2. ASSUME NEW m \in unread, NEW k \in unread
      PROVE  m = k \/ Behind(way, Place(m), Place(k)) \/ Behind(way, Place(k), Place(m))
  BY <1>2, PlacesDiffer DEF Behind
<1>3. ASSUME NEW m \in unread PROVE IsFiniteSet(Ahead(m)) /\ Cardinality(Ahead(m)) \in Nat
  BY <1>3, FS_Subset, FS_CardinalityType DEF Before
<1>4. ASSUME NEW m \in unread, NEW k \in unread, Behind(way, Place(m), Place(k))
      PROVE  Cardinality(Ahead(k)) <= Cardinality(Ahead(m))
  <2>1. Ahead(k) \in SUBSET Ahead(m)
    BY <1>1, <1>4, BehindOrders DEF Before
  <2> QED BY <1>3, <2>1, FS_Subset
<1>5. \A m \in shown, k \in unread : Behind(way, Place(m), Place(k)) => k \in shown
  BY <1>3, <1>4, ChatAssumption
<1>6. shown # {}
  <2> DEFINE R == {e \in unread \X unread : Behind(way, Place(e[1]), Place(e[2]))}
  <2>1. \A x, y, z \in unread : <<x, y>> \in R /\ <<y, z>> \in R => <<x, z>> \in R
    BY <1>1, BehindOrders
  <2>2. \A x, y \in unread : x = y \/ <<x, y>> \in R \/ <<y, x>> \in R
    BY <1>2
  <2> HIDE DEF R
  <2>3. PICK m \in unread : \A k \in unread : k = m \/ <<k, m>> \in R
    BY <2>1, <2>2, LastOf
  <2>4. Ahead(m) = {}
    BY <1>1, <2>3, BehindOrders DEF R, Before
  <2>5. Cardinality(Ahead(m)) = 0
    BY <2>4, FS_EmptySet
  <2> QED BY <2>5, ChatAssumption
<1>7. \E m \in shown : shown \subseteq Ahead(m) \cup {m}
  <2> DEFINE R == {e \in shown \X shown : Behind(way, Place(e[2]), Place(e[1]))}
  <2>1. IsFiniteSet(shown) /\ shown \subseteq unread
    BY FS_Subset
  <2>2. \A x, y, z \in shown : <<x, y>> \in R /\ <<y, z>> \in R => <<x, z>> \in R
    BY <1>1, BehindOrders
  <2>3. \A x, y \in shown : x = y \/ <<x, y>> \in R \/ <<y, x>> \in R
    BY <1>2, <2>1
  <2> HIDE DEF R
  <2>4. PICK m \in shown : \A k \in shown : k = m \/ <<k, m>> \in R
    BY ONLY <1>6, <2>1, <2>2, <2>3, LastOf, SMTT(30)
  <2> QED BY <2>1, <2>4 DEF R, Before
<1> QED BY <1>5, <1>7

\* A page adds the rows up to its last one, none of them for a second time; the last page
\* has all the rest.
LEMMA ReadPageKeeps == CInv /\ ReadPage => CInv'
<1> SUFFICES ASSUME CInv, ReadPage PROVE CInv'
  OBVIOUS
<1> DEFINE unread == Unread(scan.conv, scan.way, scan.cursor)
           Ahead(m) == {k \in unread : Behind(scan.way, Place(m), Place(k))}
           shown == {m \in unread : Cardinality(Ahead(m)) < PageSize}
           last == CHOOSE m \in shown : shown \subseteq Ahead(m) \cup {m}
<1>1. /\ scan.pc = "reading" /\ scan \in ScanRecord /\ ScanFits
      /\ UNCHANGED <<conversations, messages, questions, chatTime>>
      /\ scan' = [scan EXCEPT !.got = scan.got \cup shown,
                              !.twice = scan.twice \/ shown \cap scan.got # {},
                              !.pc = IF shown = unread THEN "done" ELSE "reading",
                              !.cursor = IF shown = unread THEN scan.cursor ELSE Place(last)]
  BY DEF CInv, ReadPage
<1>2. /\ unread \subseteq Rows /\ \A m \in unread : Stored(m) /\ Readable(m)
           /\ (AtStart \/ Beyond(m))
      /\ \A m \in Rows : Readable(m) /\ messages[m].conv = scan.conv /\ (AtStart \/ Beyond(m)) =>
           m \in unread
  BY DEF Unread, RowsOf, Stored, Readable, AtStart, Beyond
<1>3. IsFiniteSet(unread)
  <2>1. unread \subseteq {m \in Rows : Stored(m)}
    BY <1>2
  <2> HIDE DEF unread
  <2> QED BY <2>1, FS_Subset DEF CInv
<1>4. \A m \in Rows : Place(m) \in Nat \X Nat
  BY DEF CInv, MessageRow, Place, Rows
<1>5. shown \subseteq unread /\ scan.way \in {"asc", "desc"} /\ scan.cursor \in Nat \X Nat
      /\ scan.got \subseteq Rows /\ scan.start \subseteq Rows
  BY <1>1 DEF ScanRecord
<1>6. shown \cap scan.got = {}
  BY <1>1, <1>2, <1>5 DEF ScanFits
<1>7. shown # unread => /\ \A m \in shown, k \in unread : Behind(scan.way, Place(m), Place(k)) =>
                             k \in shown
                     /\ last \in shown /\ shown \subseteq Ahead(last) \cup {last}
  <2> SUFFICES ASSUME shown # unread
               PROVE  /\ \A m \in shown, k \in unread : Behind(scan.way, Place(m), Place(k)) =>
                           k \in shown
                      /\ \E m \in shown : shown \subseteq Ahead(m) \cup {m}
    OBVIOUS
  <2>1. \A m : Ahead(m) = Before(unread, scan.way, m)
    BY DEF Before
  <2>2. unread # {}
    OBVIOUS
  <2>3. shown = {m \in unread : Cardinality(Before(unread, scan.way, m)) < PageSize}
    BY <2>1
  <2>4. \A m \in unread : m \in Rows /\ Stored(m)
    BY <1>2
  <2> HIDE DEF unread, shown, Ahead
  <2> QED BY <1>3, <1>5, <2>1, <2>2, <2>3, <2>4, PageHasLast
<1> HIDE DEF unread, Ahead, shown, last
<1>8. CASE shown = unread
  <2>1. /\ scan' \in ScanRecord /\ scan'.pc = "done" /\ scan'.start = scan.start /\ ~scan'.twice
        /\ scan'.got = scan.got \cup unread /\ scan'.conv = scan.conv
    BY <1>1, <1>2, <1>5, <1>6, <1>8 DEF ScanRecord, ScanFits
  <2>2. ASSUME NEW m \in scan.start, Readable(m) PROVE m \in scan.got \cup unread
    <3>1. CASE AtStart
      BY <1>1, <1>2, <1>5, <2>2, <3>1 DEF ScanFits
    <3>2. CASE ~AtStart
      BY <1>1, <1>2, <1>5, <2>2, <3>2 DEF ScanFits
    <3> QED BY <3>1, <3>2
  <2>3. ScanFits'
    BY <1>1, <1>2, <2>1, <2>2 DEF ScanFits, Stored, Readable
  <2> QED BY <1>1, <2>1, <2>3 DEF CInv, MessageFits, QuestionFits, Stored, Readable, Exists
<1>9. CASE shown # unread
  <2>1. /\ last \in Rows /\ Place(last) \in Nat \X Nat /\ Place(last) # <<0, 0>>
        /\ (AtStart \/ Beyond(last))
        /\ last \in unread
    <3>1. last \in Rows /\ Stored(last) /\ last \in unread
      BY <1>2, <1>5, <1>7, <1>9
    <3>2. messages[last].at # 0 /\ Place(last)[1] = messages[last].at
      BY <3>1 DEF CInv, MessageFits, Place
    <3> QED BY <1>2, <1>4, <3>1, <3>2
  <2>2. /\ scan' \in ScanRecord /\ scan'.pc = "reading" /\ scan'.start = scan.start /\ ~scan'.twice
        /\ scan'.got = scan.got \cup shown /\ scan'.conv = scan.conv /\ scan'.way = scan.way
        /\ scan'.cursor = Place(last)
    BY <1>1, <1>2, <1>5, <1>6, <1>9, <2>1 DEF ScanRecord, ScanFits
  <2>3. ASSUME NEW m \in scan.got \cup shown PROVE ~Behind(scan.way, Place(m), Place(last))
    <3>1. CASE m \in shown
      <4>1. m = last \/ Behind(scan.way, Place(last), Place(m))
        BY <1>7, <1>9, <3>1 DEF Ahead
      <4> QED BY <1>2, <1>4, <1>5, <2>1, <3>1, <4>1, BehindOrders
    <3>2. CASE m \in scan.got
      <4>1. ~AtStart /\ ~Beyond(m) /\ m \in Rows
        BY <1>1, <1>5, <3>2 DEF ScanFits
      <4> QED BY <1>4, <1>5, <2>1, <4>1, BehindOrders DEF Beyond
    <3> QED BY <3>1, <3>2
  <2>4. ASSUME NEW m \in scan.start, Readable(m)
        PROVE  m \in scan.got \cup shown \/ Behind(scan.way, Place(m), Place(last))
    <3>1. m \in scan.got \/ m \in unread
      <4>1. CASE AtStart
        BY <1>1, <1>2, <1>5, <2>4, <4>1 DEF ScanFits
      <4>2. CASE ~AtStart
        BY <1>1, <1>2, <1>5, <2>4, <4>2 DEF ScanFits
      <4> QED BY <4>1, <4>2
    <3>2. ASSUME m \in unread, m # last
          PROVE  Behind(scan.way, Place(m), Place(last)) \/ Behind(scan.way, Place(last), Place(m))
      BY <1>2, <2>1, <3>2, PlacesDiffer DEF Behind
    <3> QED BY <1>7, <1>9, <2>1, <3>1, <3>2
  <2>5. ScanFits'
    <3>1. /\ \A m \in Rows : Stored(m)' = Stored(m) /\ Readable(m)' = Readable(m)
          /\ \A m \in Rows : Place(m)' = Place(m) /\ messages'[m] = messages[m]
          /\ \A m : Beyond(m)' = Behind(scan.way, Place(m)', Place(last))
      BY <1>1, <2>2 DEF Stored, Readable, Place, Beyond
    <3>2. /\ \A m \in scan'.got : Stored(m)
          /\ \A m \in scan.start : Stored(m) /\ messages[m].conv = scan.conv
      BY <1>1, <1>2, <1>5, <2>2 DEF ScanFits
    <3> QED BY <1>1, <1>2, <1>5, <2>2, <2>1, <2>3, <2>4, <3>1, <3>2 DEF ScanFits, AtStart
  <2> QED BY <1>1, <2>2, <2>5 DEF CInv, MessageFits, QuestionFits, Stored, Readable, Exists
<1> QED BY <1>8, <1>9

-----------------------------------------------------------------------------
(* The other steps.                                                        *)

\* A scan is not disturbed by rows that are new, or no longer readable.
LEMMA ScanKept ==
  ASSUME CInv, UNCHANGED scan,
         \A m \in Rows : Stored(m) => /\ Stored(m)' /\ (Readable(m)' => Readable(m))
                                      /\ messages'[m].at = messages[m].at
                                      /\ messages'[m].conv = messages[m].conv
  PROVE  scan' \in ScanRecord /\ ScanFits'
<1>1. scan \in ScanRecord /\ ScanFits /\ scan.start \subseteq Rows /\ scan.got \subseteq Rows
  BY DEF CInv, ScanRecord
<1>2. ASSUME NEW m \in Rows, Stored(m)
      PROVE  Stored(m)' /\ Place(m)' = Place(m) /\ Beyond(m)' = Beyond(m)
             /\ (Readable(m)' => Readable(m)) /\ messages'[m].conv = messages[m].conv
  BY <1>2 DEF Place, Beyond
<1>3. AtStart' = AtStart
  BY DEF AtStart
<1> QED BY <1>1, <1>2, <1>3 DEF ScanFits

\* A request goes on: what is stored stays as it is.
LEMMA RequestGoes ==
  ASSUME CInv, NEW r \in Questions, NEW request \in RequestRecord,
         questions' = [questions EXCEPT ![r] = request],
         questions[r].pc # "done", request.pc # "idle",
         request.pc = "answering" => request.conv \in Conversations /\ request.at = 0,
         request.pc \notin {"answering", "persisting"} => request.at = questions[r].at,
         request.pc = "persisting" =>
           request.at = chatTime /\ chatTime # 0 /\ request.conv = questions[r].conv
           /\ questions[r].pc = "answering",
         request.removed \subseteq request.known, \A m \in request.known : Stored(m),
         chatTime' = IF request.pc = "persisting" THEN chatTime + 1 ELSE chatTime,
         UNCHANGED <<conversations, messages, scan>>
  PROVE  CInv'
<1>1. questions' \in [Questions -> RequestRecord] /\ chatTime' \in Nat /\ chatTime \in Nat
  BY DEF CInv
<1>2. \A q \in Questions : questions[q].at \in Nat /\ questions[q].at < chatTime /\ QuestionFits(q)
  BY DEF CInv, QuestionFits, RequestRecord
<1>3. ASSUME NEW q \in Questions PROVE QuestionFits(q)'
  <2>1. CASE q = r
    <3>1. questions'[q] = request
      BY <2>1 DEF CInv
    <3>2. request.at < chatTime'
      BY <1>1, <1>2 DEF RequestRecord
    <3>3. \A p \in Questions \ {r} : request.at # 0 => questions'[p].at # request.at
      BY <1>1, <1>2 DEF CInv, QuestionFits, RequestRecord
    <3> QED BY <1>2, <2>1, <3>1, <3>2, <3>3 DEF QuestionFits, RequestRecord
  <2>2. CASE q # r
    <3>1. questions'[q] = questions[q] /\ questions'[r] = request
      BY <2>2 DEF CInv
    <3>2. questions[q].at # 0 => request.at # questions[q].at
      BY <1>1, <1>2, <2>2 DEF QuestionFits, RequestRecord
    <3>3. ASSUME NEW p \in Questions \ {q}, questions[q].at # 0
          PROVE  questions'[p].at # questions[q].at
      BY <1>2, <3>1, <3>2, <3>3 DEF QuestionFits, CInv
    <3> QED BY <1>1, <1>2, <3>1, <3>3 DEF QuestionFits
  <2> QED BY <2>1, <2>2
<1>4. ASSUME NEW m \in Rows PROVE MessageFits(m)'
  <2>1. Stored(m) => questions'[m[1]] = questions[m[1]]
    BY DEF CInv, MessageFits, Rows
  <2> QED BY <2>1 DEF CInv, MessageFits, Stored, Readable, Exists
<1>5. scan' \in ScanRecord /\ ScanFits'
  BY ScanKept DEF Stored, Readable
<1>6. \A q \in Questions : \A m \in questions'[q].known : Stored(m)'
  BY <1>1 DEF CInv, Stored
<1> QED BY <1>1, <1>3, <1>4, <1>5, <1>6 DEF CInv, Stored

\* A request that prepares an answer knows of rows that are stored.
LEMMA PrepareKeeps ==
  ASSUME CInv, NEW r \in Questions, NEW c \in Conversations,
         PrepareNew(r, c) \/ \E kind \in {"ask", "regenerate"} : Prepare(r, c, kind)
  PROVE  CInv'
<1>1. RowsOf(c) \in SUBSET Rows /\ TrailingTurn(c) \subseteq RowsOf(c)
      /\ \A m \in RowsOf(c) : Stored(m)
  BY DEF RowsOf, TrailingTurn, Latest, Stored
<1>2. CASE PrepareNew(r, c)
  <2> DEFINE request == [NewRequest EXCEPT !.pc = "answering", !.kind = "new", !.conv = c]
  <2>1. /\ request \in RequestRecord /\ request.pc = "answering" /\ request.conv = c
        /\ request.at = 0 /\ request.removed = {} /\ request.known = {}
    BY DEF NewRequest, RequestRecord
  <2>2. questions' = [questions EXCEPT ![r] = request] /\ questions[r].pc # "done"
        /\ UNCHANGED <<conversations, messages, scan, chatTime>>
    BY <1>2 DEF PrepareNew
  <2> HIDE DEF request
  <2> QED BY <2>1, <2>2, RequestGoes
<1>3. ASSUME NEW kind \in {"ask", "regenerate"}, Prepare(r, c, kind) PROVE CInv'
  <2> DEFINE request == [NewRequest EXCEPT !.pc = "answering", !.kind = kind, !.conv = c,
                           !.known = RowsOf(c),
                           !.removed = IF kind = "regenerate" THEN TrailingTurn(c) ELSE {}]
  <2>1. /\ request \in RequestRecord /\ request.pc = "answering" /\ request.conv = c
        /\ request.at = 0 /\ request.removed \subseteq request.known
        /\ \A m \in request.known : Stored(m)
    BY <1>1 DEF NewRequest, RequestRecord
  <2>2. questions' = [questions EXCEPT ![r] = request] /\ questions[r].pc # "done"
        /\ UNCHANGED <<conversations, messages, scan, chatTime>>
    BY <1>3 DEF Prepare
  <2> HIDE DEF request
  <2> QED BY <2>1, <2>2, RequestGoes
<1> QED BY <1>2, <1>3

\* A request that fails stores nothing.
LEMMA FailureKeeps ==
  ASSUME CInv, NEW r \in Questions, AnswerFails(r) \/ PersistFails(r)
  PROVE  CInv'
<1> DEFINE request == [questions[r] EXCEPT !.pc = "done"]
<1>1. request \in RequestRecord /\ request.pc = "done" /\ request.at = questions[r].at
      /\ request.removed \subseteq request.known /\ \A m \in request.known : Stored(m)
  BY DEF CInv, RequestRecord, QuestionFits
<1>2. questions' = [questions EXCEPT ![r] = request] /\ questions[r].pc # "done"
      /\ UNCHANGED <<conversations, messages, scan, chatTime>>
  BY DEF AnswerFails, PersistFails
<1> HIDE DEF request
<1> QED BY <1>1, <1>2, RequestGoes

\* A request that begins to store its turn takes a time that no other has.
LEMMA BeginPersistKeeps ==
  ASSUME CInv, NEW r \in Questions, BeginPersist(r)
  PROVE  CInv'
<1> DEFINE request == [questions[r] EXCEPT !.pc = "persisting", !.at = chatTime]
<1>1. request \in RequestRecord /\ request.pc = "persisting" /\ request.at = chatTime
      /\ request.removed \subseteq request.known /\ \A m \in request.known : Stored(m)
      /\ request.conv = questions[r].conv
  BY DEF CInv, RequestRecord, QuestionFits
<1>2. questions' = [questions EXCEPT ![r] = request] /\ questions[r].pc = "answering"
      /\ UNCHANGED <<conversations, messages, scan>> /\ chatTime' = chatTime + 1
  BY DEF BeginPersist
<1>3. chatTime \in Nat /\ questions[r].at < chatTime /\ questions[r].at \in Nat
  BY DEF CInv, QuestionFits, RequestRecord
<1>4. chatTime # 0
  BY <1>3
<1>5. request.pc # "idle" /\ questions[r].pc # "done"
      /\ chatTime' = IF request.pc = "persisting" THEN chatTime + 1 ELSE chatTime
  BY <1>1, <1>2
<1>6. /\ request.pc = "answering" => request.conv \in Conversations /\ request.at = 0
      /\ request.pc \notin {"answering", "persisting"} => request.at = questions[r].at
  BY <1>1
<1>7. request.pc = "persisting" =>
        request.at = chatTime /\ chatTime # 0 /\ request.conv = questions[r].conv
        /\ questions[r].pc = "answering"
  BY <1>1, <1>2, <1>4
<1>8. /\ request \in RequestRecord /\ request.removed \subseteq request.known
      /\ \A m \in request.known : Stored(m)
      /\ questions' = [questions EXCEPT ![r] = request]
      /\ UNCHANGED <<conversations, messages, scan>>
  BY <1>1, <1>2
<1> HIDE DEF request
<1> QED BY <1>5, <1>6, <1>7, <1>8, RequestGoes

\* A turn is stored in rows that were free, and what it replaces stays unreadable.
LEMMA PersistKeeps ==
  ASSUME CInv, NEW r \in Questions, NEW rank \in {1, 2}, Persist(r, rank)
  PROVE  CInv'
<1> DEFINE c == questions[r].conv
           request == [questions[r] EXCEPT !.pc = "done"]
           New(m) == Inserted(r, m, questions[r].kind # "regenerate", rank)
<1>1. /\ questions[r].pc = "persisting" /\ c \in Conversations
      /\ conversations'[c] \in {"untouched", "renamed"}
      /\ questions[r].at \in Nat /\ questions[r].at # 0
      /\ questions \in [Questions -> RequestRecord]
      /\ conversations \in [Conversations -> {"none", "untouched", "renamed", "deleted"}]
      /\ messages \in [Rows -> MessageRow] /\ UNCHANGED <<scan, chatTime>> /\ chatTime \in Nat
  BY DEF Persist, CInv, QuestionFits, RequestRecord, Exists
<1>2. request \in RequestRecord /\ questions' = [questions EXCEPT ![r] = request]
      /\ questions' \in [Questions -> RequestRecord]
  BY <1>1 DEF Persist, RequestRecord
<1>3. conversations' \in [Conversations -> {"none", "untouched", "renamed", "deleted"}]
      /\ \A d \in Conversations : Exists(d) => Exists(d)'
  BY <1>1 DEF Persist, Exists
<1>4. ASSUME NEW m \in Rows, m[1] = r
      PROVE  /\ ~Stored(m) /\ messages'[m] = New(m) /\ New(m) \in MessageRow
             /\ Stored(m)' => messages'[m].at = questions[r].at /\ messages'[m].conv = c
  <2>1. ~Stored(m)
    BY <1>1, <1>4 DEF CInv, MessageFits
  <2>2. messages'[m] = New(m)
    BY <1>4 DEF Persist
  <2>3. New(m) = messages[m] \/ \E role \in {"user", "assistant"} :
          New(m) = [conv |-> c, at |-> questions[r].at, role |-> role]
    BY DEF Inserted
  <2>4. New(m) \in MessageRow
    BY <1>1, <2>3 DEF MessageRow
  <2> QED BY <2>1, <2>2, <2>3, <2>4 DEF Stored
<1>5. ASSUME NEW m \in Rows, m[1] # r
      PROVE  /\ messages'[m] \in MessageRow /\ messages'[m].at = messages[m].at
             /\ messages'[m].conv = messages[m].conv
             /\ (Readable(m)' => Readable(m)) /\ (Stored(m)' <=> Stored(m))
  <2>1. messages'[m] = IF m \in questions[r].removed THEN Removed(m) ELSE messages[m]
    BY <1>5 DEF Persist
  <2>2. m \in questions[r].removed => Stored(m)
    BY DEF CInv, QuestionFits
  <2> QED BY <1>1, <2>1, <2>2 DEF Removed, MessageRow, Stored, Readable
<1>6. messages' \in [Rows -> MessageRow]
  <2>1. DOMAIN messages' = Rows /\ messages' = [m \in Rows |-> messages'[m]]
    BY DEF Persist
  <2> QED BY <1>4, <1>5, <2>1
<1>7. ASSUME NEW m \in Rows PROVE MessageFits(m)'
  <2>1. CASE m[1] = r
    <3>1. questions'[r].pc = "done" /\ questions'[r].at = questions[r].at
      BY <1>1, <1>2 DEF RequestRecord
    <3>2. Readable(m)' => Stored(m)'
      BY DEF Readable, Stored
    <3> QED BY <1>1, <1>4, <2>1, <3>1, <3>2 DEF MessageFits, Exists
  <2>2. CASE m[1] # r
    <3>1. questions'[m[1]] = questions[m[1]]
      BY <1>1, <1>2, <2>2 DEF Rows
    <3>2. MessageFits(m)
      BY DEF CInv
    <3> QED BY <1>3, <1>5, <2>2, <3>1, <3>2 DEF MessageFits, Exists
  <2> QED BY <2>1, <2>2
<1>8. IsFiniteSet({m \in Rows : Stored(m)}')
  <2> DEFINE old == {m \in Rows : Stored(m)}
             two == {<<r, 1>>, <<r, 2>>}
  <2>1. IsFiniteSet(old) /\ IsFiniteSet(two)
    <3>1. two = ({} \cup {<<r, 1>>}) \cup {<<r, 2>>}
      OBVIOUS
    <3> HIDE DEF two
    <3> QED BY <3>1, FS_EmptySet, FS_AddElement DEF CInv
  <2>2. IsFiniteSet(old \cup two)
    BY <2>1, FS_Union
  <2>3. {m \in Rows : Stored(m)}' \subseteq old \cup two
    BY <1>5 DEF Rows
  <2> HIDE DEF old, two
  <2> QED BY <2>2, <2>3, FS_Subset
<1>9. ASSUME NEW q \in Questions
      PROVE  QuestionFits(q)' /\ \A m \in questions'[q].known : Stored(m)'
  <2>1. /\ questions'[q].at = questions[q].at /\ questions'[q].removed = questions[q].removed
        /\ questions'[q].known = questions[q].known /\ questions'[q].conv = questions[q].conv
        /\ questions'[q].pc = IF q = r THEN "done" ELSE questions[q].pc
        /\ \A p \in Questions : questions'[p].at = questions[p].at
    BY <1>1, <1>2 DEF RequestRecord
  <2>2. \A m \in questions[q].known : m \in Rows /\ Stored(m)'
    BY <1>4, <1>5 DEF CInv, RequestRecord
  <2> QED BY <1>1, <2>1, <2>2 DEF CInv, QuestionFits
<1>10. scan' \in ScanRecord /\ ScanFits'
  BY <1>1, <1>4, <1>5, ScanKept
<1> QED BY <1>1, <1>2, <1>3, <1>6, <1>7, <1>8, <1>9, <1>10 DEF CInv

\* A deletion leaves rows unreadable that are readable only with their conversation.
LEMMA ConversationKeeps ==
  ASSUME CInv, NEW c \in Conversations, UpdateTitle(c) \/ DeleteConversation(c)
  PROVE  CInv'
<1>1. /\ conversations \in [Conversations -> {"none", "untouched", "renamed", "deleted"}]
      /\ messages \in [Rows -> MessageRow] /\ UNCHANGED <<questions, scan, chatTime>>
  BY DEF CInv, UpdateTitle, DeleteConversation
<1>2. conversations' \in [Conversations -> {"none", "untouched", "renamed", "deleted"}]
      /\ \A d \in Conversations : d # c => conversations'[d] = conversations[d]
  BY <1>1 DEF UpdateTitle, DeleteConversation
<1>3. ASSUME NEW m \in Rows
      PROVE  /\ messages'[m] \in MessageRow /\ messages'[m].at = messages[m].at
             /\ messages'[m].conv = messages[m].conv /\ (Stored(m)' <=> Stored(m))
             /\ Readable(m)' => Readable(m) /\ (messages[m].conv = c => Exists(c)')
  <2>1. CASE UpdateTitle(c)
    BY <1>1, <2>1 DEF UpdateTitle, Stored, Readable, Exists
  <2>2. CASE DeleteConversation(c)
    <3>1. messages'[m] = IF m \in RowsOf(c) THEN Removed(m) ELSE messages[m]
      BY <2>2 DEF DeleteConversation
    <3>2. m \in RowsOf(c) <=> messages[m].conv = c /\ Readable(m)
      BY DEF RowsOf, Readable
    <3> QED BY <1>1, <3>1, <3>2 DEF Removed, MessageRow, Stored, Readable
  <2> QED BY <2>1, <2>2
<1>4. messages' \in [Rows -> MessageRow]
  <2>1. messages' = [m \in Rows |-> messages'[m]]
    BY <1>1 DEF UpdateTitle, DeleteConversation
  <2> QED BY <1>3, <2>1
<1>5. ASSUME NEW m \in Rows PROVE MessageFits(m)'
  <2>1. Readable(m)' => Exists(messages[m].conv)'
    BY <1>2, <1>3 DEF CInv, MessageFits, Exists
  <2> QED BY <1>1, <1>3, <2>1 DEF CInv, MessageFits
<1>6. {m \in Rows : Stored(m)}' = {m \in Rows : Stored(m)}
  BY <1>3
<1>7. scan' \in ScanRecord /\ ScanFits'
  BY <1>1, <1>3, ScanKept
<1>8. \A r \in Questions : QuestionFits(r)' /\ \A m \in questions'[r].known : Stored(m)'
  BY <1>1, <1>3 DEF CInv, QuestionFits, RequestRecord
<1> QED BY <1>1, <1>2, <1>4, <1>5, <1>6, <1>7, <1>8 DEF CInv

\* A client that begins to read has everything before it.
LEMMA BeginScanKeeps ==
  ASSUME CInv, NEW c \in Conversations, NEW way \in {"asc", "desc"}, BeginPageScan(c, way)
  PROVE  CInv'
<1>1. /\ UNCHANGED <<conversations, messages, questions, chatTime>>
      /\ scan' = [NoScan EXCEPT !.pc = "reading", !.way = way, !.conv = c, !.start = RowsOf(c)]
  BY DEF BeginPageScan
<1>2. RowsOf(c) \in SUBSET Rows /\ \A m \in RowsOf(c) : Stored(m) /\ messages[m].conv = c
  BY DEF RowsOf, Stored
<1>3. /\ scan' \in ScanRecord /\ scan'.pc = "reading" /\ scan'.conv = c /\ scan'.got = {}
      /\ scan'.start = RowsOf(c) /\ ~scan'.twice /\ scan'.cursor = <<0, 0>>
  BY <1>1, <1>2 DEF NoScan, ScanRecord
<1>4. ScanFits'
  BY <1>1, <1>2, <1>3 DEF ScanFits, AtStart, Stored
<1> QED BY <1>1, <1>3, <1>4 DEF CInv, MessageFits, QuestionFits, Stored, Readable, Exists

\* Every step of conversations keeps the invariant.
LEMMA ChatStepKeeps == CInv /\ [ChatNext]_chatVars => CInv'
<1> SUFFICES ASSUME CInv, [ChatNext]_chatVars PROVE CInv'
  OBVIOUS
<1>1. CASE UNCHANGED chatVars
  <2>1. UNCHANGED <<conversations, messages, questions, scan, chatTime>>
    BY <1>1 DEF chatVars
  <2> QED BY <2>1 DEF CInv, MessageFits, QuestionFits, ScanFits, Stored, Readable, Exists, AtStart,
                  Beyond, Place
<1>2. CASE ChatNext
  BY <1>2, PrepareKeeps, FailureKeeps, BeginPersistKeeps, PersistKeeps, ConversationKeeps,
     BeginScanKeeps, ReadPageKeeps DEF ChatNext
<1> QED BY <1>1, <1>2

\* The invariant of conversations.
LEMMA ChatStays == ChatSpec => []CInv
BY ChatAtFirst, ChatStepKeeps, PTL DEF ChatSpec

\* What the scan has seen and the types follow from the invariant.
LEMMA ChatFits == CInv => ScansComplete /\ ChatTypeOK
<1> SUFFICES ASSUME CInv PROVE ScansComplete /\ ChatTypeOK
  OBVIOUS
<1>1. ScansComplete
  BY DEF CInv, ScanFits, ScansComplete, Readable
<1>2. \A m \in Rows : Readable(m) => Exists(messages[m].conv)
  BY DEF CInv, MessageFits
<1>3. ChatTypeOK
  BY <1>2 DEF CInv, ChatTypeOK, MessageRow, RequestRecord, ScanRecord, Readable
<1> QED BY <1>1, <1>3

\* Only the rows that a regeneration found go with it.
LEMMA PersistRemovesKnown ==
  ASSUME CInv, [ChatNext]_chatVars, NEW r \in Questions, NEW m \in Rows,
         questions[r].pc = "persisting", questions'[r].pc = "done",
         Readable(m), messages'[m].role = "deleted"
  PROVE  m \in questions[r].known
<1>1. ASSUME UNCHANGED messages PROVE FALSE
  BY <1>1 DEF Readable
<1>2. ASSUME UNCHANGED questions PROVE FALSE
  BY <1>2
<1>3. ASSUME NEW q \in Questions, NEW rank \in {1, 2}, Persist(q, rank)
      PROVE  m \in questions[r].known
  <2>1. q = r
    BY <1>3 DEF Persist, CInv
  <2>2. m[1] # r
    BY DEF Readable, CInv, MessageFits, Stored
  <2>3. messages'[m] = IF m \in questions[r].removed THEN Removed(m) ELSE messages[m]
    BY <1>3, <2>1, <2>2 DEF Persist
  <2> QED BY <2>3 DEF CInv, QuestionFits, Readable
<1>4. ASSUME NEW c \in Conversations, UpdateTitle(c) \/ DeleteConversation(c) PROVE FALSE
  BY <1>2, <1>4 DEF UpdateTitle, DeleteConversation
<1> QED BY <1>1, <1>2, <1>3, <1>4 DEF ChatNext, chatVars, PrepareNew, Prepare, AnswerFails,
           BeginPersist, PersistFails, BeginPageScan, ReadPage

-----------------------------------------------------------------------------
\* Whatever is stored, replaced and deleted while a client reads a conversation page by
\* page, in whatever pages, a scan that is over has seen every message that was there all
\* the time, and none twice.
THEOREM ScansAreComplete == ChatSpec => []ScansComplete
BY ChatStays, ChatFits, PTL

\* Types of every variable, and no message without its conversation.
THEOREM ChatTyped == ChatSpec => []ChatTypeOK
BY ChatStays, ChatFits, PTL

\* A regeneration takes away what it found when it was prepared and nothing that was
\* stored while the model answered.
THEOREM NewerTurnsAreKept == ChatSpec => NewerTurnsKept
<1>1. ASSUME CInv, [ChatNext]_chatVars
      PROVE  [\A r \in Questions, m \in Rows :
                /\ questions[r].pc = "persisting" /\ questions'[r].pc = "done"
                /\ messages[m].role \in {"user", "assistant"} /\ messages'[m].role = "deleted"
                => m \in questions[r].known]_chatVars
  BY <1>1, PersistRemovesKnown DEF Readable
<1> QED BY <1>1, ChatStays, PTL DEF ChatSpec, NewerTurnsKept

-----------------------------------------------------------------------------
(* Text.  Chunks are in order, bounded, of one page and section, and leave *)
(* no character out, for texts of any length.                              *)
(*                                                                         *)
(* A character is in a chunk, among the parts that wait for the next chunk,*)
(* or in the rest of a long paragraph (Covered); the overlap of two pieces *)
(* of a long paragraph is more than what is stripped from both.            *)

ParagraphRecord == [start : Nat, length : Nat, page : Nat, section : Nat]
ChunkRecord == [start : Nat, end : Nat, chars : Nat, page : Nat, section : Nat]
PartsRecord == [length : Nat, start : Nat, end : Nat]

EndOf(p) == p.start + p.length
RightIn(c, txt) ==
  /\ c.chars = c.end - c.start
  /\ \A i \in 1 .. Len(txt) :
       Overlapping(c, txt[i]) => c.page = txt[i].page /\ c.section = txt[i].section

\* Chunks that are faithful to a text and end before a place.
Good(cs, txt, cur) ==
  /\ \A k \in 1 .. Len(cs) : RightIn(cs[k], txt) /\ Bounded(cs[k]) /\ cs[k].end <= cur
  /\ \A k \in 1 .. Len(cs) - 1 : InOrder(cs[k], cs[k + 1])

Holding(cs, at) == \E k \in 1 .. Len(cs) : Holds(cs[k], at)

\* Paragraphs end before the cursor, and before the last one begins.
TextFits(txt, cur) ==
  /\ \A i \in 1 .. Len(txt) : EndOf(txt[i]) + Gap <= cur
  /\ \A i \in 1 .. Len(txt) - 1 : EndOf(txt[i]) <= txt[Len(txt)].start

\* Parts reach up to the cursor, are of one page and section, and go on where the
\* last chunk ends, or before.
PartsFit(ps, cs, txt, cur, pg, sec) ==
  ps.length > 0 =>
    /\ ps.length = ps.end - ps.start /\ ps.length <= MaxChunk + Overlap + Gap
    /\ ps.end + Gap = cur
    /\ \A i \in 1 .. Len(txt) : EndOf(txt[i]) > ps.start => txt[i].page = pg /\ txt[i].section = sec
    /\ cs # <<>> => cs[Len(cs)].start < ps.start /\ cs[Len(cs)].end < ps.end

\* A long paragraph is the last one; its pieces overlap by more than what is stripped
\* from both of them.
SplitFits ==
  phase = "split" =>
    /\ text # <<>> /\ Long.length > MaxChunk /\ from + Overlap < Long.length
    /\ page = Long.page /\ section = Long.section
    /\ from = 0 /\ chunks # <<>> => chunks[Len(chunks)].end <= Long.start
    /\ from > 0 => /\ chunks # <<>> /\ chunks[Len(chunks)].start < Long.start + from
                   /\ chunks[Len(chunks)].end <= Long.start + from + Overlap

\* Every character is in a chunk, in the parts or in what is left of a long paragraph.
Covered(cs, ps, txt, ph, fr) ==
  \A i \in 1 .. Len(txt) : \A at \in txt[i].start .. (txt[i].start + txt[i].length - 1) :
    \/ Holding(cs, at)
    \/ ps.length > 0 /\ ps.start <= at /\ at < ps.end
    \/ ph = "split" /\ i = Len(txt) /\ (fr > 0 => at >= txt[i].start + fr + Overlap - 1)

ChInv ==
  /\ ChunksTypeOK
  /\ TextFits(text, cursor) /\ Good(chunks, text, cursor)
  /\ PartsFit(parts, chunks, text, cursor, page, section)
  /\ phase # "read" => parts.length = 0
  /\ SplitFits
  /\ Covered(chunks, parts, text, phase, from)
  /\ phase = "done" => persisted = Len(chunks)

-----------------------------------------------------------------------------
\* At first there is no text and no chunk.
LEMMA ChunksAtFirst == ChunksInit => ChInv
<1> SUFFICES ASSUME ChunksInit PROVE ChInv
  OBVIOUS
<1>1. ChunksTypeOK
  BY DEF ChunksInit, ChunksTypeOK, NoParts, NoPage, NoSection
<1>2. /\ TextFits(text, cursor) /\ Good(chunks, text, cursor)
      /\ Covered(chunks, parts, text, phase, from)
  BY DEF ChunksInit, TextFits, Good, Covered
<1>3. parts.length = 0 /\ phase = "read"
  BY DEF ChunksInit, NoParts
<1> QED BY <1>1, <1>2, <1>3 DEF ChInv, PartsFit, SplitFits

\* A chunk that follows the last one.
LEMMA AppendGood ==
  ASSUME NEW cs \in Seq(ChunkRecord), NEW c \in ChunkRecord, NEW txt, NEW cur, Good(cs, txt, cur),
         RightIn(c, txt), Bounded(c), c.end <= cur, cs # <<>> => InOrder(cs[Len(cs)], c)
  PROVE  /\ Append(cs, c) \in Seq(ChunkRecord) /\ Append(cs, c) # <<>>
         /\ Len(Append(cs, c)) = Len(cs) + 1 /\ Append(cs, c)[Len(cs) + 1] = c
         /\ Good(Append(cs, c), txt, cur)
         /\ \A at : Holding(Append(cs, c), at) <=> Holding(cs, at) \/ Holds(c, at)
<1> DEFINE new == Append(cs, c)
<1>1. /\ new \in Seq(ChunkRecord) /\ Len(new) = Len(cs) + 1 /\ new[Len(cs) + 1] = c
      /\ Len(cs) \in Nat /\ new # <<>> /\ \A k \in 1 .. Len(cs) : new[k] = cs[k]
  BY AppendProperties, LenProperties
<1> HIDE DEF new
<1>2. \A k \in 1 .. Len(new) : k \in 1 .. Len(cs) \/ k = Len(cs) + 1
  BY <1>1
<1>3. \A k \in 1 .. Len(new) : RightIn(new[k], txt) /\ Bounded(new[k]) /\ new[k].end <= cur
  BY <1>1, <1>2 DEF Good
<1>4. ASSUME NEW k \in 1 .. Len(new) - 1 PROVE InOrder(new[k], new[k + 1])
  <2>1. CASE k = Len(cs)
    <3>1. cs # <<>> /\ k \in 1 .. Len(cs)
      BY <1>1, <2>1
    <3> QED BY <1>1, <2>1, <3>1
  <2>2. CASE k # Len(cs)
    <3>1. k \in 1 .. Len(cs) - 1 /\ k \in 1 .. Len(cs) /\ k + 1 \in 1 .. Len(cs)
      BY <1>1, <2>2
    <3> QED BY <1>1, <3>1 DEF Good
  <2> QED BY <2>1, <2>2
<1>5. \A at : Holding(new, at) <=> Holding(cs, at) \/ Holds(c, at)
  BY <1>1, <1>2 DEF Holding
<1> QED BY <1>1, <1>3, <1>4, <1>5 DEF new, Good

\* Where a character of a paragraph lies.
LEMMA ParagraphEnds ==
  ASSUME NEW p \in ParagraphRecord
  PROVE  EndOf(p) \in Nat /\ p.start \in Nat /\ p.length \in Nat /\ p.start <= EndOf(p)
BY DEF ParagraphRecord, EndOf

\* A paragraph that follows the last one changes nothing for the chunks before it.
LEMMA SeenGood ==
  ASSUME NEW cs \in Seq(ChunkRecord), NEW txt \in Seq(ParagraphRecord), NEW cur \in Nat,
         NEW p \in ParagraphRecord, p.start >= cur, Good(cs, txt, cur), TextFits(txt, cur)
  PROVE  /\ Append(txt, p) \in Seq(ParagraphRecord) /\ Len(Append(txt, p)) = Len(txt) + 1
         /\ Append(txt, p)[Len(txt) + 1] = p /\ \A i \in 1 .. Len(txt) : Append(txt, p)[i] = txt[i]
         /\ EndOf(p) + Gap \in Nat /\ EndOf(p) + Gap >= cur
         /\ TextFits(Append(txt, p), EndOf(p) + Gap)
         /\ Good(cs, Append(txt, p), EndOf(p) + Gap)
<1> DEFINE new == Append(txt, p)
<1>1. /\ new \in Seq(ParagraphRecord) /\ Len(new) = Len(txt) + 1 /\ new[Len(txt) + 1] = p
      /\ Len(txt) \in Nat /\ \A i \in 1 .. Len(txt) : new[i] = txt[i] /\ txt[i] \in ParagraphRecord
  BY AppendProperties, ElementOfSeq, LenProperties
<1> HIDE DEF new
<1>2. \A i \in 1 .. Len(new) : i \in 1 .. Len(txt) \/ i = Len(txt) + 1
  BY <1>1
<1>3. EndOf(p) + Gap \in Nat /\ EndOf(p) + Gap >= cur /\ EndOf(p) >= cur
  BY DEF EndOf, Gap, ParagraphRecord
<1>4. ASSUME NEW i \in 1 .. Len(txt) PROVE EndOf(txt[i]) + Gap <= cur /\ EndOf(txt[i]) \in Nat
  <2>1. txt[i] \in ParagraphRecord
    BY <1>1
  <2>2. EndOf(txt[i]) \in Nat
    BY <2>1, ParagraphEnds
  <2> QED BY <2>2 DEF TextFits
<1>5. TextFits(new, EndOf(p) + Gap)
  <2>1. ASSUME NEW i \in 1 .. Len(new) PROVE EndOf(new[i]) + Gap <= EndOf(p) + Gap
    <3>1. CASE i = Len(txt) + 1
      BY <1>1, <1>3, <3>1 DEF Gap
    <3>2. CASE i \in 1 .. Len(txt)
      <4>1. new[i] = txt[i] /\ EndOf(txt[i]) + 2 <= cur /\ EndOf(txt[i]) \in Nat
        BY <1>1, <1>4, <3>2 DEF Gap
      <4>2. EndOf(p) \in Nat /\ EndOf(p) >= cur
        BY <1>3, ParagraphEnds
      <4> QED BY <4>1, <4>2 DEF Gap
    <3> QED BY <1>2, <3>1, <3>2
  <2>2. \A i \in 1 .. Len(new) - 1 : EndOf(new[i]) <= new[Len(new)].start
    BY <1>1, <1>2, <1>4 DEF Gap, ParagraphRecord
  <2> QED BY <2>1, <2>2 DEF TextFits
<1>6. ASSUME NEW k \in 1 .. Len(cs) PROVE RightIn(cs[k], new) /\ cs[k].end <= EndOf(p) + Gap
  <2>1. cs[k] \in ChunkRecord /\ RightIn(cs[k], txt) /\ cs[k].end <= cur /\ cs[k].end \in Nat
    <3>1. cs[k] \in ChunkRecord
      BY ElementOfSeq
    <3> QED BY <3>1 DEF Good, ChunkRecord
  <2>2. ~Overlapping(cs[k], p)
    BY <2>1 DEF Overlapping, ParagraphRecord
  <2>3. RightIn(cs[k], new)
    BY <1>1, <1>2, <2>1, <2>2 DEF RightIn
  <2> QED BY <1>3, <2>1, <2>3
<1> QED BY <1>1, <1>3, <1>5, <1>6 DEF new, Good

\* What is left when the parts become a chunk.
LEMMA FlushedFits ==
  ASSUME ChInv, phase = "read"
  PROVE  /\ Flushed \in Seq(ChunkRecord) /\ Good(Flushed, text, cursor)
         /\ \A i \in 1 .. Len(text) :
              \A at \in text[i].start .. (text[i].start + text[i].length - 1) :
              Holding(Flushed, at)
         /\ parts.length > 0 => Flushed # <<>> /\ Flushed[Len(Flushed)] = Built
<1>1. /\ chunks \in Seq(ChunkRecord) /\ parts \in PartsRecord /\ page \in Nat /\ section \in Nat
      /\ text \in Seq(ParagraphRecord) /\ cursor \in Nat
  BY DEF ChInv, ChunksTypeOK, ChunkRecord, PartsRecord, ParagraphRecord
<1>2. CASE parts.length = 0
  BY <1>1, <1>2 DEF Flushed, ChInv, Covered, PartsRecord
<1>3. CASE parts.length # 0
  <2>1. /\ parts.length > 0 /\ parts.length = parts.end - parts.start
        /\ parts.length <= MaxChunk + Overlap + Gap
        /\ parts.end + Gap = cursor /\ parts.start \in Nat /\ parts.end \in Nat
        /\ parts.length \in Nat
        /\ \A i \in 1 .. Len(text) :
             EndOf(text[i]) > parts.start => text[i].page = page /\ text[i].section = section
        /\ chunks # <<>> => chunks[Len(chunks)].start < parts.start
             /\ chunks[Len(chunks)].end < parts.end
    BY <1>1, <1>3 DEF ChInv, PartsFit, PartsRecord
  <2>2. /\ Built \in ChunkRecord /\ Built.start = parts.start /\ Built.end = parts.end
        /\ Built.chars = parts.length /\ Built.page = page /\ Built.section = section
    BY <1>1, <2>1 DEF Built, ChunkRecord
  <2>3. RightIn(Built, text)
    BY <2>1, <2>2 DEF RightIn, Overlapping, EndOf
  <2>4. Bounded(Built) /\ Built.end <= cursor
    BY <1>1, <2>1, <2>2 DEF Bounded, Gap
  <2>5. chunks # <<>> => InOrder(chunks[Len(chunks)], Built)
    BY <2>1, <2>2 DEF InOrder
  <2>6. Flushed = Append(chunks, Built)
    BY <1>3 DEF Flushed
  <2>7. /\ Flushed \in Seq(ChunkRecord) /\ Flushed # <<>> /\ Len(Flushed) = Len(chunks) + 1
        /\ Flushed[Len(chunks) + 1] = Built /\ Good(Flushed, text, cursor)
        /\ \A at : Holding(Flushed, at) <=> Holding(chunks, at) \/ Holds(Built, at)
    BY <1>1, <2>2, <2>3, <2>4, <2>5, <2>6, AppendGood DEF ChInv
  <2>8. ASSUME NEW i \in 1 .. Len(text),
               NEW at \in text[i].start .. (text[i].start + text[i].length - 1)
        PROVE  Holding(Flushed, at)
    <3>1. Holding(chunks, at) \/ (parts.start <= at /\ at < parts.end)
      BY DEF ChInv, Covered
    <3> QED BY <2>2, <2>7, <3>1 DEF Holds
  <2> QED BY <2>7, <2>8
<1> QED BY <1>2, <1>3

-----------------------------------------------------------------------------
(* Paragraphs.                                                             *)

\* The last chunk of a text of faithful chunks.
LEMMA LastChunkEnds ==
  ASSUME NEW cs \in Seq(ChunkRecord), NEW txt, NEW cur, Good(cs, txt, cur), cs # <<>>
  PROVE  /\ cs[Len(cs)].start \in Nat /\ cs[Len(cs)].end \in Nat
         /\ cs[Len(cs)].start < cs[Len(cs)].end /\ cs[Len(cs)].end <= cur
<1>1. Len(cs) \in 1 .. Len(cs)
  BY LenProperties
<1>2. cs[Len(cs)] \in ChunkRecord /\ RightIn(cs[Len(cs)], txt) /\ Bounded(cs[Len(cs)])
      /\ cs[Len(cs)].end <= cur
  BY <1>1, ElementOfSeq DEF Good
<1> HIDE DEF ChunkRecord
<1> DEFINE c == cs[Len(cs)]
<1>3. c \in ChunkRecord /\ c.chars = c.end - c.start /\ 0 < c.chars
  BY <1>2 DEF RightIn, Bounded
<1> HIDE DEF c
<1>4. c.start \in Nat /\ c.end \in Nat /\ c.start < c.end
  BY <1>3 DEF ChunkRecord
<1> QED BY <1>2, <1>4 DEF c

\* What a paragraph is that was read.
LEMMA ParagraphIs ==
  ASSUME ChInv, NEW marker \in BOOLEAN, NEW heading \in BOOLEAN, NEW length \in Nat
  PROVE  LET p == Paragraph(marker, heading, length) IN
         /\ p \in ParagraphRecord /\ p.start >= cursor /\ p.length = length
         /\ ~marker => p.start = cursor /\ p.page = page
         /\ ~marker /\ ~heading => p.section = section
<1>1. Len(text) \in Nat /\ cursor \in Nat /\ page \in Nat /\ section \in Nat
  BY LenProperties DEF ChInv, ChunksTypeOK
<1> QED BY <1>1, ChunkSizes DEF Paragraph, ParagraphRecord, NoSection

\* What reading a paragraph does to the text.
LEMMA ParagraphSeen ==
  ASSUME NEW p \in ParagraphRecord, Seen(p)
  PROVE  /\ text' = Append(text, p) /\ cursor' = EndOf(p) + Gap
         /\ page' = p.page /\ section' = p.section
BY DEF Seen, EndOf

\* What every paragraph leaves when the chunks before it are cs.
LEMMA ReadFits ==
  ASSUME ChInv, NEW p \in ParagraphRecord, p.start >= cursor, Seen(p),
         NEW cs \in Seq(ChunkRecord), Good(cs, text, cursor), Store(cs)
  PROVE  /\ text' \in Seq(ParagraphRecord) /\ cursor' \in Nat /\ page' \in Nat /\ section' \in Nat
         /\ chunks' = cs /\ persisted' \in Nat
         /\ TextFits(text', cursor') /\ Good(cs, text', cursor')
         /\ Len(text') = Len(text) + 1 /\ Len(text) \in Nat /\ text' # <<>>
         /\ text'[Len(text')] = p /\ (\A i \in 1 .. Len(text) : text'[i] = text[i])
         /\ \A i \in 1 .. Len(text') : i \in 1 .. Len(text) \/ i = Len(text')
         /\ cursor' = EndOf(p) + Gap
         /\ \A i \in 1 .. Len(text) : EndOf(text[i]) <= p.start
         /\ cs # <<>> => cs[Len(cs)].start < p.start /\ cs[Len(cs)].end <= p.start
<1>1. text \in Seq(ParagraphRecord) /\ cursor \in Nat /\ Len(text) \in Nat
      /\ TextFits(text, cursor) /\ Len(cs) \in Nat
  BY LenProperties DEF ChInv, ChunksTypeOK, ParagraphRecord
<1>2. /\ text' = Append(text, p) /\ cursor' = EndOf(p) + Gap /\ page' = p.page
      /\ section' = p.section
  BY ParagraphSeen
<1>3. /\ text' \in Seq(ParagraphRecord) /\ Len(text') = Len(text) + 1 /\ text'[Len(text) + 1] = p
      /\ (\A i \in 1 .. Len(text) : text'[i] = text[i]) /\ cursor' \in Nat
      /\ TextFits(text', cursor') /\ Good(cs, text', cursor')
  BY <1>1, <1>2, SeenGood
<1>4. p.page \in Nat /\ p.section \in Nat /\ p.start \in Nat
  BY DEF ParagraphRecord
<1>5. chunks' = cs /\ persisted' = (Len(cs) \div StoreBatch) * StoreBatch
  BY DEF Store
<1>6. persisted' \in Nat
  <2> DEFINE q == Len(cs) \div StoreBatch
  <2>1. q \in Nat
    BY <1>1, ChunkSizes
  <2> HIDE DEF q
  <2> QED BY <1>5, <2>1, ChunkSizes DEF q
<1>7. ASSUME NEW i \in 1 .. Len(text) PROVE EndOf(text[i]) <= p.start
  <2>1. EndOf(text[i]) + Gap <= cursor /\ text[i] \in ParagraphRecord
    BY <1>1, ElementOfSeq DEF TextFits
  <2>2. EndOf(text[i]) \in Nat
    BY <2>1, ParagraphEnds
  <2> QED BY <1>1, <1>4, <2>1, <2>2 DEF Gap
<1>8. cs # <<>> => cs[Len(cs)].start < p.start /\ cs[Len(cs)].end <= p.start
  BY <1>1, <1>4, LastChunkEnds
<1>9. text' # <<>> /\ \A i \in 1 .. Len(text') : i \in 1 .. Len(text) \/ i = Len(text')
  BY <1>1, <1>3
<1> QED BY <1>1, <1>2, <1>3, <1>4, <1>5, <1>6, <1>7, <1>8, <1>9

\* Parts that begin with a paragraph and hold nothing else.
LEMMA FirstPart ==
  ASSUME NEW p \in ParagraphRecord, p.length \in Lengths, p.length <= MaxChunk
  PROVE  /\ [length |-> p.length, start |-> p.start, end |-> p.start + p.length] \in PartsRecord
         /\ p.length > 0 /\ p.length <= MaxChunk + Overlap + Gap /\ p.start + p.length = EndOf(p)
         /\ EndOf(p) > p.start /\ p.start \in Nat /\ EndOf(p) \in Nat
BY ParagraphEnds, ChunkSizes DEF PartsRecord, EndOf, ParagraphRecord, Gap

\* A marker, a heading or a long paragraph ends the chunk before it.
LEMMA BreakKeeps ==
  ASSUME ChInv, More, NEW p \in ParagraphRecord, p.start >= cursor, Seen(p), Store(Flushed),
         from' \in Nat,
         \/ p.length = 0 /\ parts' = NoParts /\ phase' = phase
         \/ /\ p.length \in Lengths /\ p.length > MaxChunk /\ parts' = NoParts
            /\ phase' = "split" /\ from' = 0
         \/ /\ p.length \in Lengths /\ p.length <= MaxChunk /\ phase' = phase
            /\ parts' = [length |-> p.length, start |-> p.start, end |-> p.start + p.length]
  PROVE  ChInv'
<1>1. phase = "read"
  BY DEF More
<1>2. /\ Flushed \in Seq(ChunkRecord) /\ Good(Flushed, text, cursor)
      /\ \A i \in 1 .. Len(text) : \A at \in text[i].start .. (text[i].start + text[i].length - 1) :
           Holding(Flushed, at)
  BY <1>1, FlushedFits
<1>3. /\ text' \in Seq(ParagraphRecord) /\ cursor' \in Nat /\ page' \in Nat /\ section' \in Nat
      /\ chunks' = Flushed /\ persisted' \in Nat
      /\ TextFits(text', cursor') /\ Good(chunks', text', cursor')
      /\ Len(text') = Len(text) + 1 /\ Len(text) \in Nat /\ text' # <<>>
      /\ text'[Len(text')] = p /\ (\A i \in 1 .. Len(text) : text'[i] = text[i])
      /\ (\A i \in 1 .. Len(text') : i \in 1 .. Len(text) \/ i = Len(text'))
      /\ cursor' = EndOf(p) + Gap
      /\ (\A i \in 1 .. Len(text) : EndOf(text[i]) <= p.start)
      /\ chunks' # <<>> => chunks'[Len(chunks')].start < p.start
           /\ chunks'[Len(chunks')].end <= p.start
  BY <1>2, ReadFits
<1>4. page' = p.page /\ section' = p.section /\ p.start \in Nat /\ EndOf(p) \in Nat
  BY ParagraphSeen, ParagraphEnds
<1>5. /\ parts' \in PartsRecord /\ phase' \in {"read", "split"}
      /\ (phase' # "read" => parts'.length = 0)
  BY <1>1, FirstPart DEF NoParts, PartsRecord
<1>6. ChunksTypeOK'
  BY <1>2, <1>3, <1>5 DEF ChunksTypeOK, ParagraphRecord, ChunkRecord, PartsRecord
<1>7. PartsFit(parts', chunks', text', cursor', page', section')
  <2>1. CASE parts' = NoParts
    BY <2>1 DEF PartsFit, NoParts
  <2>2. CASE parts' # NoParts
    <3>1. /\ parts' = [length |-> p.length, start |-> p.start, end |-> p.start + p.length]
          /\ p.length > 0 /\ p.length <= MaxChunk + Overlap + Gap /\ p.start + p.length = EndOf(p)
          /\ EndOf(p) > p.start
      BY <2>2, FirstPart
    <3>2. parts'.length = p.length /\ parts'.start = p.start /\ parts'.end = EndOf(p)
      BY <3>1
    <3>3. p.length = EndOf(p) - p.start
      BY <1>4, ParagraphEnds DEF EndOf
    <3>4. ASSUME NEW i \in 1 .. Len(text)
          PROVE  EndOf(text'[i]) <= p.start /\ EndOf(text'[i]) \in Nat
      <4>1. text'[i] = text[i] /\ EndOf(text[i]) <= p.start
        BY <1>3
      <4>2. text'[i] \in ParagraphRecord
        <5>1. i \in 1 .. Len(text')
          BY <1>3
        <5> QED BY <1>3, <5>1, ElementOfSeq
      <4> QED BY <4>1, <4>2, ParagraphEnds
    <3>5. ASSUME NEW i \in 1 .. Len(text'), EndOf(text'[i]) > p.start
          PROVE  text'[i].page = page' /\ text'[i].section = section'
      <4>1. i \notin 1 .. Len(text)
        BY <1>4, <3>4, <3>5
      <4> QED BY <1>3, <1>4, <4>1
    <3>6. chunks' # <<>> => chunks'[Len(chunks')].start < p.start
            /\ chunks'[Len(chunks')].end < EndOf(p)
      <4>1. chunks' # <<>> => chunks'[Len(chunks')].end \in Nat
        BY <1>2, <1>3, LastChunkEnds
      <4> QED BY <1>3, <1>4, <3>1, <4>1
    <3> QED BY <1>3, <3>1, <3>2, <3>3, <3>5, <3>6 DEF PartsFit
  <2> QED BY <2>1, <2>2
<1>8. SplitFits'
  <2> SUFFICES ASSUME phase' = "split" PROVE SplitFits'
    BY DEF SplitFits
  <2>1. p.length \in Lengths /\ p.length > MaxChunk /\ from' = 0
    BY <1>1
  <2>2. 0 + Overlap < p.length
    <3>1. /\ p.length \in Nat /\ MaxChunk \in Nat /\ ChunkSize \in Nat /\ Overlap \in Nat
          /\ CutWindow \in Nat
          /\ Overlap + CutWindow + 1 < ChunkSize /\ ChunkSize <= MaxChunk
      BY <2>1, ChunkSizes
    <3> QED BY <2>1, <3>1
  <2>3. Long' = p
    BY <1>3 DEF Long
  <2> QED BY <1>3, <1>4, <2>1, <2>2, <2>3 DEF SplitFits
<1>9. Covered(chunks', parts', text', phase', from')
  <2> SUFFICES ASSUME NEW i \in 1 .. Len(text'),
                      NEW at \in text'[i].start .. (text'[i].start + text'[i].length - 1)
               PROVE  \/ Holding(chunks', at)
                      \/ parts'.length > 0 /\ parts'.start <= at /\ at < parts'.end
                      \/ phase' = "split" /\ i = Len(text')
                         /\ (from' > 0 => at >= text'[i].start + from' + Overlap - 1)
    BY DEF Covered
  <2>1. CASE i \in 1 .. Len(text)
    BY <1>2, <1>3, <2>1
  <2>2. CASE i = Len(text')
    <3>1. at \in Int /\ p.start <= at /\ at <= p.start + p.length - 1 /\ p.length \in Nat
      BY <1>3, <1>4, <2>2, ParagraphEnds
    <3>2. CASE p.length = 0
      BY <1>4, <3>1, <3>2
    <3>3. CASE phase' = "split" /\ from' = 0
      BY <2>2, <3>3
    <3>4. CASE parts' = [length |-> p.length, start |-> p.start, end |-> p.start + p.length]
               /\ p.length \in Lengths
      <4>1. p.length > 0
        <5>1. p.length \in Nat \ {0}
          BY <3>4, ChunkSizes
        <5> QED BY <5>1
      <4>2. parts'.length = p.length /\ parts'.start = p.start /\ parts'.end = p.start + p.length
        BY <3>4
      <4>3. at < p.start + p.length
        BY <1>4, <3>1
      <4> QED BY <3>1, <4>1, <4>2, <4>3
    <3> QED BY <3>2, <3>3, <3>4
  <2> QED BY <1>3, <2>1, <2>2
<1> QED BY <1>1, <1>3, <1>5, <1>6, <1>7, <1>8, <1>9 DEF ChInv

\* A page marker, and a paragraph that cannot join the parts before it, end the chunk.
LEMMA ReadBreaksKeep ==
  ASSUME ChInv,
         \/ ReadMarker
         \/ \E length \in Lengths : \E marker, heading \in BOOLEAN :
              ReadBreak(marker, heading, length) \/ ReadLong(marker, heading, length)
  PROVE  ChInv'
<1>1. from \in Nat
  BY DEF ChInv, ChunksTypeOK
<1>2. CASE ReadMarker
  <2> DEFINE p == Paragraph(TRUE, FALSE, 0)
  <2>1. p \in ParagraphRecord /\ p.start >= cursor /\ p.length = 0
    BY ParagraphIs
  <2>2. More /\ Store(Flushed) /\ parts' = NoParts /\ Seen(p) /\ phase' = phase /\ from' = from
    BY <1>2 DEF ReadMarker
  <2> HIDE DEF p
  <2> QED BY <1>1, <2>1, <2>2, BreakKeeps
<1>3. ASSUME NEW length \in Lengths, NEW marker \in BOOLEAN, NEW heading \in BOOLEAN,
             ReadBreak(marker, heading, length) \/ ReadLong(marker, heading, length)
      PROVE  ChInv'
  <2> DEFINE p == Paragraph(marker, heading, length)
  <2>1. p \in ParagraphRecord /\ p.start >= cursor /\ p.length = length
    BY ParagraphIs, ChunkSizes
  <2>2. CASE ReadBreak(marker, heading, length)
    <3>1. /\ More /\ Store(Flushed) /\ Seen(p) /\ phase' = phase /\ from' = from
          /\ length <= MaxChunk
          /\ parts' = [length |-> length, start |-> p.start, end |-> p.start + length]
      BY <2>2 DEF ReadBreak
    <3> HIDE DEF p
    <3> QED BY <1>1, <2>1, <3>1, BreakKeeps
  <2>3. CASE ReadLong(marker, heading, length)
    <3>1. /\ More /\ Store(Flushed) /\ Seen(p) /\ phase' = "split" /\ from' = 0 /\ length > MaxChunk
          /\ parts' = NoParts
      BY <2>3 DEF ReadLong
    <3> HIDE DEF p
    <3> QED BY <2>1, <3>1, BreakKeeps
  <2> QED BY <1>3, <2>2, <2>3
<1> QED BY <1>2, <1>3


-----------------------------------------------------------------------------
\* A paragraph joins the parts there are, or begins them.
LEMMA JoinKeeps ==
  ASSUME ChInv, NEW length \in Lengths, JoinParagraph(length)
  PROVE  ChInv'
<1> DEFINE p == Paragraph(FALSE, FALSE, length)
<1>1. /\ p \in ParagraphRecord /\ p.start >= cursor /\ p.length = length /\ p.start = cursor
      /\ p.page = page /\ p.section = section /\ length \in Nat \ {0}
  BY ParagraphIs, ChunkSizes
<1>2. /\ More /\ length <= MaxChunk /\ ~TooLong(length) /\ Store(chunks) /\ Seen(p)
      /\ phase' = phase /\ from' = from
      /\ parts' = [length |-> Joined(length), end |-> p.start + length,
                   start |-> IF parts.length = 0 THEN p.start ELSE parts.start]
  BY DEF JoinParagraph
<1> HIDE DEF p
<1>3. /\ phase = "read" /\ chunks \in Seq(ChunkRecord) /\ Good(chunks, text, cursor) /\ from \in Nat
      /\ parts \in PartsRecord /\ cursor \in Nat
      /\ parts.length \in Nat /\ parts.start \in Nat /\ parts.end \in Nat
  BY <1>2 DEF More, ChInv, ChunksTypeOK, ChunkRecord, PartsRecord
<1>4. /\ text' \in Seq(ParagraphRecord) /\ cursor' \in Nat /\ page' \in Nat /\ section' \in Nat
      /\ chunks' = chunks /\ persisted' \in Nat
      /\ TextFits(text', cursor') /\ Good(chunks', text', cursor')
      /\ Len(text') = Len(text) + 1 /\ Len(text) \in Nat
      /\ text'[Len(text')] = p /\ (\A i \in 1 .. Len(text) : text'[i] = text[i])
      /\ (\A i \in 1 .. Len(text') : i \in 1 .. Len(text) \/ i = Len(text'))
      /\ cursor' = EndOf(p) + Gap
      /\ (\A i \in 1 .. Len(text) : EndOf(text[i]) <= p.start)
      /\ chunks # <<>> => chunks[Len(chunks)].start < p.start /\ chunks[Len(chunks)].end <= p.start
  BY <1>1, <1>2, <1>3, ReadFits
<1>5. /\ page' = page /\ section' = section /\ EndOf(p) = p.start + length /\ EndOf(p) \in Nat
      /\ p.start \in Nat
  BY <1>1, <1>2, ParagraphSeen, ParagraphEnds DEF EndOf
<1>6. /\ parts'.length = Joined(length) /\ parts'.end = EndOf(p)
      /\ parts'.start = IF parts.length = 0 THEN p.start ELSE parts.start
      /\ Joined(length) \in Nat /\ Joined(length) > 0 /\ parts' \in PartsRecord
  <2>1. Joined(length) \in Nat /\ Joined(length) > 0
    BY <1>1, <1>3 DEF Joined, Gap
  <2> QED BY <1>2, <1>3, <1>5, <2>1 DEF PartsRecord
<1>7. parts.length > 0 =>
        /\ parts.length = parts.end - parts.start /\ parts.end + Gap = cursor
        /\ \A i \in 1 .. Len(text) :
             EndOf(text[i]) > parts.start => text[i].page = page /\ text[i].section = section
        /\ chunks # <<>> => chunks[Len(chunks)].start < parts.start
             /\ chunks[Len(chunks)].end < parts.end
  BY DEF ChInv, PartsFit
<1>8. ChunksTypeOK'
  BY <1>2, <1>3, <1>4, <1>6 DEF ChunksTypeOK, ParagraphRecord, ChunkRecord, PartsRecord
<1>9. PartsFit(parts', chunks', text', cursor', page', section')
  <2>1. parts'.length = parts'.end - parts'.start /\ parts'.end + Gap = cursor'
    <3>1. CASE parts.length = 0
      BY <1>1, <1>4, <1>5, <1>6, <3>1 DEF Joined
    <3>2. CASE parts.length # 0
      <4>1. parts.length > 0
        BY <1>3, <3>2
      <4>2. Joined(length) = parts.length + 2 + length /\ parts.end + 2 = cursor
        BY <1>7, <3>2, <4>1 DEF Joined, Gap
      <4>3. Joined(length) = EndOf(p) - parts.start
        <5>1. parts.length = parts.end - parts.start
          BY <1>7, <4>1
        <5>2. p.start = parts.end + 2 /\ length \in Nat
          BY <1>1, <4>2
        <5>3. EndOf(p) = parts.end + 2 + length
          BY <1>3, <1>5, <5>2
        <5>4. EndOf(p) - parts.start = parts.length + 2 + length
          BY <1>3, <5>1, <5>2, <5>3
        <5> QED BY <4>2, <5>4
      <4>4. parts'.start = parts.start /\ parts'.end = EndOf(p) /\ parts'.length = Joined(length)
        BY <1>6, <3>2
      <4>5. cursor' = EndOf(p) + Gap
        BY <1>4
      <4> QED BY <4>3, <4>4, <4>5
    <3> QED BY <3>1, <3>2
  <2>2. parts'.length <= MaxChunk + Overlap + Gap
    <3>1. MaxChunk \in Nat /\ Overlap \in Nat /\ ChunkSize \in Nat /\ ChunkSize <= MaxChunk
      BY ChunkSizes
    <3>2. Joined(length) <= MaxChunk
      <4>1. CASE parts.length = 0
        BY <1>2, <4>1 DEF Joined
      <4>2. CASE parts.length # 0
        <5>1. parts.length > 0
          BY <1>3, <4>2
        <5>2. ~(Joined(length) > ChunkSize) \/ ~(Joined(length) > MaxChunk)
          BY <1>2, <5>1 DEF TooLong
        <5> QED BY <1>6, <3>1, <5>2
      <4> QED BY <4>1, <4>2
    <3> QED BY <1>6, <3>1, <3>2 DEF Gap
  <2>3. ASSUME NEW i \in 1 .. Len(text'), EndOf(text'[i]) > parts'.start
        PROVE  text'[i].page = page' /\ text'[i].section = section'
    <3>1. CASE i = Len(text')
      BY <1>1, <1>4, <1>5, <3>1
    <3>2. CASE i \in 1 .. Len(text)
      <4>1. EndOf(text[i]) <= p.start /\ EndOf(text[i]) \in Nat /\ text'[i] = text[i]
        BY <1>4, <3>2, ParagraphEnds, ElementOfSeq
      <4>2. parts.length > 0 /\ EndOf(text[i]) > parts.start
        BY <1>3, <1>5, <1>6, <2>3, <4>1
      <4> QED BY <1>5, <1>7, <3>2, <4>1, <4>2
    <3> QED BY <1>4, <3>1, <3>2
  <2>4. chunks' # <<>> => chunks'[Len(chunks')].start < parts'.start
          /\ chunks'[Len(chunks')].end < parts'.end
    <3> SUFFICES ASSUME chunks # <<>>
                 PROVE  chunks[Len(chunks)].start < parts'.start
                          /\ chunks[Len(chunks)].end < parts'.end
      BY <1>4
    <3>1. chunks[Len(chunks)].end \in Nat /\ EndOf(p) > p.start
      BY <1>1, <1>3, <1>5, LastChunkEnds
    <3>2. CASE parts.length = 0
      BY <1>4, <1>5, <1>6, <3>1, <3>2
    <3>3. CASE parts.length # 0
      <4>1. parts.length > 0 /\ parts.end < EndOf(p)
        BY <1>1, <1>3, <1>5, <1>7, <3>3 DEF Gap
      <4> QED BY <1>3, <1>5, <1>6, <1>7, <3>1, <4>1
    <3> QED BY <3>2, <3>3
  <2> QED BY <2>1, <2>2, <2>3, <2>4 DEF PartsFit
<1>10. Covered(chunks', parts', text', phase', from')
  <2> SUFFICES ASSUME NEW i \in 1 .. Len(text'),
                      NEW at \in text'[i].start .. (text'[i].start + text'[i].length - 1)
               PROVE  Holding(chunks', at)
                        \/ (parts'.length > 0 /\ parts'.start <= at /\ at < parts'.end)
    BY DEF Covered
  <2>1. CASE i \in 1 .. Len(text)
    <3>1. at \in Int
      OBVIOUS
    <3>2. Holding(chunks, at) \/ (parts.length > 0 /\ parts.start <= at /\ at < parts.end)
      BY <1>3, <1>4, <2>1 DEF ChInv, Covered
    <3>3. parts.length > 0 => parts.end < EndOf(p) /\ parts.length # 0
      <4>1. parts.length > 0 => parts.end + 2 = p.start
        BY <1>1, <1>7 DEF Gap
      <4>2. p.start \in Nat /\ EndOf(p) \in Nat /\ EndOf(p) >= p.start
        BY <1>1, <1>5
      <4>3. parts.end \in Nat /\ (parts.length > 0 => parts.length # 0)
        BY <1>3
      <4> QED BY <4>1, <4>2, <4>3
    <3>4. /\ Joined(length) \in Nat /\ Joined(length) > 0 /\ parts'.length = Joined(length)
          /\ parts'.end = EndOf(p) /\ EndOf(p) \in Nat
      BY <1>5, <1>6
    <3>5. CASE Holding(chunks, at)
      BY <1>4, <3>5
    <3>6. CASE parts.length > 0 /\ parts.start <= at /\ at < parts.end
      <4>1. parts'.start = parts.start
        BY <1>3, <1>6, <3>6
      <4> QED BY <1>3, <3>1, <3>3, <3>4, <3>6, <4>1
    <3> QED BY <3>2, <3>5, <3>6
  <2>2. CASE i = Len(text')
    <3>1. at \in Int /\ p.start <= at /\ at <= p.start + length - 1
      BY <1>1, <1>4, <1>5, <2>2
    <3>2. parts'.start <= p.start
      <4>1. CASE parts.length = 0
        BY <1>5, <1>6, <4>1
      <4>2. CASE parts.length # 0
        <5>1. parts.length > 0
          BY <1>3, <4>2
        <5>2. parts.end + 2 = p.start /\ parts.length = parts.end - parts.start
          BY <1>1, <1>7, <5>1 DEF Gap
        <5>3. parts'.start = parts.start
          BY <1>6, <4>2
        <5> QED BY <1>3, <1>5, <5>1, <5>2, <5>3
      <4> QED BY <4>1, <4>2
    <3>3. parts'.start \in Nat
      BY <1>3, <1>5, <1>6
    <3> QED BY <1>1, <1>5, <1>6, <3>1, <3>2, <3>3
  <2> QED BY <1>4, <2>1, <2>2
<1>11. SplitFits' /\ phase' = "read"
  BY <1>2, <1>3 DEF SplitFits
<1> QED BY <1>4, <1>8, <1>9, <1>10, <1>11 DEF ChInv

\* The parts are full: the next ones begin with what these end with.
LEMMA StartOverKeeps ==
  ASSUME ChInv, NEW length \in Lengths, NEW tail \in 0 .. Overlap, StartOver(length, tail)
  PROVE  ChInv'
<1> DEFINE p == Paragraph(FALSE, FALSE, length)
<1>1. /\ p \in ParagraphRecord /\ p.start >= cursor /\ p.length = length /\ p.start = cursor
      /\ p.page = page /\ p.section = section /\ length \in Nat \ {0}
  BY ParagraphIs, ChunkSizes
<1>2. /\ More /\ length <= MaxChunk /\ parts.length > 0 /\ tail \in Tails /\ Store(Flushed)
      /\ Seen(p)
      /\ phase' = phase /\ from' = from /\ parts' = NextParts(tail, p)
  BY DEF StartOver, TooLong
<1> HIDE DEF p
<1>3. /\ phase = "read" /\ from \in Nat /\ parts \in PartsRecord /\ cursor \in Nat
      /\ parts.length \in Nat /\ parts.start \in Nat /\ parts.end \in Nat
  BY <1>2 DEF More, ChInv, ChunksTypeOK, PartsRecord
<1>4. /\ Flushed \in Seq(ChunkRecord) /\ Good(Flushed, text, cursor)
      /\ \A i \in 1 .. Len(text) : \A at \in text[i].start .. (text[i].start + text[i].length - 1) :
           Holding(Flushed, at)
      /\ Flushed # <<>> /\ Flushed[Len(Flushed)] = Built
  BY <1>2, <1>3, FlushedFits
<1>5. /\ text' \in Seq(ParagraphRecord) /\ cursor' \in Nat /\ page' \in Nat /\ section' \in Nat
      /\ chunks' = Flushed /\ persisted' \in Nat
      /\ TextFits(text', cursor') /\ Good(chunks', text', cursor')
      /\ Len(text') = Len(text) + 1 /\ Len(text) \in Nat
      /\ text'[Len(text')] = p /\ (\A i \in 1 .. Len(text) : text'[i] = text[i])
      /\ (\A i \in 1 .. Len(text') : i \in 1 .. Len(text) \/ i = Len(text'))
      /\ cursor' = EndOf(p) + Gap
      /\ (\A i \in 1 .. Len(text) : EndOf(text[i]) <= p.start)
  BY <1>1, <1>2, <1>4, ReadFits
<1>6. /\ page' = page /\ section' = section /\ EndOf(p) = p.start + length /\ EndOf(p) \in Nat
      /\ p.start \in Nat
  BY <1>1, <1>2, ParagraphSeen, ParagraphEnds DEF EndOf
<1>7. /\ parts.length = parts.end - parts.start /\ parts.end + Gap = cursor
      /\ \A i \in 1 .. Len(text) :
           EndOf(text[i]) > parts.start => text[i].page = page /\ text[i].section = section
  BY <1>2 DEF ChInv, PartsFit
<1>8. tail \in Nat /\ tail <= Overlap /\ tail < parts.length /\ Overlap \in Nat /\ MaxChunk \in Nat
  <2>1. tail \in Nat /\ tail <= Overlap /\ Overlap \in Nat /\ MaxChunk \in Nat
    BY ChunkSizes
  <2>2. CASE parts.length <= Overlap
    BY <1>2, <1>3, <2>1, <2>2 DEF Tails
  <2>3. CASE ~(parts.length <= Overlap)
    BY <1>3, <2>1, <2>3
  <2> QED BY <2>1, <2>2, <2>3
<1> DEFINE begin == IF tail = 0 THEN p.start ELSE parts.end - tail
<1>9. begin \in Nat /\ parts.start < begin /\ begin <= p.start
  <2>1. p.start = parts.end + 2 /\ parts.start < parts.end
    BY <1>1, <1>2, <1>3, <1>7 DEF Gap
  <2>2. tail \in Nat /\ parts.end - tail > parts.start
    BY <1>3, <1>7, <1>8
  <2>3. parts.end - tail \in Nat /\ parts.end - tail <= p.start
    BY <1>3, <2>1, <2>2
  <2> QED BY <1>3, <1>6, <2>1, <2>2, <2>3
<1>10. /\ parts'.start = begin /\ parts'.end = EndOf(p)
       /\ parts'.length = IF tail = 0 THEN length ELSE tail + Gap + length
  <2>1. tail # 0 => Larger(parts.end - tail, parts.start) = parts.end - tail
    BY <1>3, <1>7, <1>8 DEF Larger
  <2> QED BY <1>1, <1>2, <1>6, <2>1 DEF NextParts
<1>11. /\ parts'.length \in Nat /\ parts'.length > 0 /\ parts'.length = EndOf(p) - begin
       /\ parts'.length <= MaxChunk + Overlap + Gap
  <2>1. CASE tail = 0
    BY <1>1, <1>2, <1>6, <1>8, <1>10, <2>1 DEF Gap
  <2>2. CASE tail # 0
    <3>1. parts'.length = tail + 2 + length /\ parts.end + 2 = p.start
      BY <1>1, <1>7, <1>10, <2>2 DEF Gap
    <3> QED BY <1>1, <1>2, <1>3, <1>6, <1>8, <2>2, <3>1 DEF Gap
  <2> QED BY <2>1, <2>2
<1> HIDE DEF begin
<1>12. parts' \in PartsRecord
  BY <1>2, <1>6, <1>9, <1>10, <1>11 DEF NextParts, PartsRecord
<1>13. ChunksTypeOK'
  BY <1>2, <1>3, <1>4, <1>5, <1>12 DEF ChunksTypeOK, ParagraphRecord, ChunkRecord, PartsRecord
<1>14. PartsFit(parts', chunks', text', cursor', page', section')
  <2>1. ASSUME NEW i \in 1 .. Len(text'), EndOf(text'[i]) > parts'.start
        PROVE  text'[i].page = page' /\ text'[i].section = section'
    <3>1. CASE i = Len(text')
      BY <1>1, <1>5, <1>6, <3>1
    <3>2. CASE i \in 1 .. Len(text)
      <4>1. EndOf(text[i]) \in Nat /\ text'[i] = text[i]
        BY <1>5, <3>2, ParagraphEnds, ElementOfSeq
      <4>2. EndOf(text[i]) > parts.start
        BY <1>3, <1>9, <1>10, <2>1, <4>1
      <4> QED BY <1>6, <1>7, <3>2, <4>1, <4>2
    <3> QED BY <1>5, <3>1, <3>2
  <2>2. chunks'[Len(chunks')].start < parts'.start /\ chunks'[Len(chunks')].end < parts'.end
    <3>1. chunks'[Len(chunks')].start = parts.start /\ chunks'[Len(chunks')].end = parts.end
      BY <1>4, <1>5 DEF Built
    <3>2. parts.end < EndOf(p)
      BY <1>1, <1>3, <1>6, <1>7 DEF Gap
    <3> QED BY <1>9, <1>10, <3>1, <3>2
  <2> QED BY <1>5, <1>10, <1>11, <2>1, <2>2 DEF PartsFit
<1>15. Covered(chunks', parts', text', phase', from')
  <2> SUFFICES ASSUME NEW i \in 1 .. Len(text'),
                      NEW at \in text'[i].start .. (text'[i].start + text'[i].length - 1)
               PROVE  Holding(chunks', at)
                        \/ (parts'.length > 0 /\ parts'.start <= at /\ at < parts'.end)
    BY DEF Covered
  <2>1. CASE i \in 1 .. Len(text)
    BY <1>4, <1>5, <2>1
  <2>2. CASE i = Len(text')
    <3>1. text'[i] = p /\ p.length = length
      BY <1>1, <1>5, <2>2
    <3>2. p.start \in Nat /\ length \in Nat /\ begin \in Nat /\ begin <= p.start
      BY <1>1, <1>6, <1>9
    <3>3. at \in Int /\ p.start <= at /\ at <= p.start + length - 1
      BY <3>1, <3>2
    <3>4. /\ parts'.length > 0 /\ parts'.start = begin /\ parts'.end = p.start + length
      BY <1>6, <1>10, <1>11
    <3> QED BY <3>2, <3>3, <3>4
  <2> QED BY <1>5, <2>1, <2>2
<1>16. SplitFits' /\ phase' = "read"
  BY <1>2, <1>3 DEF SplitFits
<1> QED BY <1>5, <1>13, <1>14, <1>15, <1>16 DEF ChInv


-----------------------------------------------------------------------------
(* Long paragraphs, and the end.                                           *)

\* Where the pieces of a long paragraph of n characters are cut.
LEMMA CutsFit ==
  ASSUME NEW n \in Nat, Long.length = n, from \in Nat, from + Overlap < n, NEW end \in Cuts
  PROVE  /\ end \in Nat /\ from < end /\ end <= n /\ end - from <= ChunkSize
         /\ end < n => /\ end - from > Overlap + 2
                       /\ Larger(end - Overlap, from + 1) = end - Overlap
<1>1. /\ Overlap \in Nat /\ CutWindow \in Nat \ {0} /\ ChunkSize \in Nat
      /\ Overlap + CutWindow + 1 < ChunkSize
  BY ChunkSizes
<1>2. CASE Target = n
  <2>1. end = n
    BY <1>2 DEF Cuts
  <2>2. n <= from + ChunkSize
    BY <1>1, <1>2 DEF Target, Smaller
  <2> QED BY <1>1, <2>1, <2>2
<1>3. CASE Target # n
  <2>1. Target = from + ChunkSize /\ from + ChunkSize < n
    BY <1>1, <1>3 DEF Target, Smaller
  <2>2. Larger(from, Target - CutWindow) = from + ChunkSize - CutWindow
    BY <1>1, <2>1 DEF Larger
  <2>3. end \in (from + ChunkSize - CutWindow + 1) .. (from + ChunkSize)
    BY <1>3, <2>1, <2>2 DEF Cuts
  <2>4. end \in Nat /\ from < end /\ end <= n /\ end - from <= ChunkSize /\ end - from > Overlap + 2
    BY <1>1, <2>1, <2>3
  <2>5. Larger(end - Overlap, from + 1) = end - Overlap
    BY <1>1, <2>4 DEF Larger
  <2> QED BY <2>4, <2>5
<1> QED BY <1>2, <1>3

\* Where a piece of such a paragraph is, whatever is stripped from it.
LEMMA PieceNumbers ==
  ASSUME NEW n \in Nat, NEW at \in Nat, NEW end \in Nat, NEW leading \in {0, 1},
         NEW trailing \in {0, 1},
         NEW begin \in Nat, NEW overlap \in Nat, NEW size \in Nat, overlap > 1, at + overlap < n,
         at < end, end <= n, end - at <= size, end = n => trailing = 0,
         end < n => end - at > overlap + 2
  PROVE  /\ 0 < end - trailing - (at + leading) /\ end - trailing - (at + leading) <= size
         /\ end - trailing - (at + leading) \in Nat
         /\ begin + end - trailing - (begin + at + leading) = end - trailing - (at + leading)
         /\ begin + at + leading \in Nat /\ begin + end - trailing \in Nat
         /\ begin + end - trailing <= begin + n /\ begin + at + overlap < begin + end - trailing
<1>1. CASE end = n
  <2>1. trailing = 0
    BY <1>1
  <2> QED BY <1>1, <2>1
<1>2. CASE end # n
  <2>1. end < n
    BY <1>2
  <2>2. end - at > overlap + 2
    BY <2>1
  <2> QED BY <2>1, <2>2
<1> QED BY <1>1, <1>2

\* Where the overlap begins lies behind what is stripped at the start of a piece, and what
\* is stripped at its end lies in the overlap.
LEMMA OverlapNumbers ==
  ASSUME NEW base \in Nat, NEW start \in Nat, NEW end \in Nat, NEW overlap \in Nat, overlap > 1,
         NEW leading \in {0, 1}, NEW trailing \in {0, 1}, NEW at \in Int
  PROVE  /\ at >= base + start + overlap - 1 => base + start + leading <= at
         /\ ~(at < base + end - trailing) => at >= base + (end - overlap) + overlap - 1
OBVIOUS

\* A piece of a long paragraph covers what the pieces before it left.
LEMMA SplitKeeps ==
  ASSUME ChInv, NEW end \in Int, NEW leading \in 0 .. 1, NEW trailing \in 0 .. 1,
         SplitLong(end, leading, trailing)
  PROVE  ChInv'
<1> DEFINE n == Long.length
           begin == Long.start
           c == Piece(end, leading, trailing)
<1>1. /\ phase = "split" /\ end \in Cuts /\ (leading = 1 => from > 0) /\ (trailing = 1 => end < n)
      /\ Store(Append(chunks, c)) /\ UNCHANGED <<text, cursor, parts, page, section>>
      /\ end >= n => phase' = "read" /\ from' = 0
      /\ ~(end >= n) => phase' = phase /\ from' = Larger(end - Overlap, from + 1)
  BY DEF SplitLong
<1>2. /\ text \in Seq(ParagraphRecord) /\ chunks \in Seq(ChunkRecord) /\ parts \in PartsRecord
      /\ page \in Nat /\ section \in Nat /\ cursor \in Nat /\ from \in Nat /\ parts.length = 0
      /\ TextFits(text, cursor) /\ Good(chunks, text, cursor)
  BY <1>1 DEF ChInv, ChunksTypeOK, ParagraphRecord, ChunkRecord, PartsRecord
<1>3. /\ text # <<>> /\ n > MaxChunk /\ from + Overlap < n /\ page = Long.page
      /\ section = Long.section
      /\ from = 0 /\ chunks # <<>> => chunks[Len(chunks)].end <= begin
      /\ from > 0 => /\ chunks # <<>> /\ chunks[Len(chunks)].start < begin + from
                     /\ chunks[Len(chunks)].end <= begin + from + Overlap
  BY <1>1 DEF ChInv, SplitFits
<1>4. Len(text) \in 1 .. Len(text) /\ Len(text) \in Nat /\ Long \in ParagraphRecord
  BY <1>2, <1>3, LenProperties, ElementOfSeq DEF Long
<1>5. n \in Nat /\ begin \in Nat /\ EndOf(Long) = begin + n /\ begin + n + Gap <= cursor
  BY <1>2, <1>4, ParagraphEnds DEF EndOf, TextFits, Long
<1>6. /\ end \in Nat /\ from < end /\ end <= n /\ end - from <= ChunkSize
      /\ end < n => end - from > Overlap + 2 /\ Larger(end - Overlap, from + 1) = end - Overlap
  BY <1>1, <1>2, <1>3, <1>5, CutsFit
<1>7. /\ Overlap \in Nat /\ Overlap > 1 /\ ChunkSize \in Nat /\ MaxChunk \in Nat
      /\ ChunkSize <= MaxChunk
  BY ChunkSizes
<1>8. leading \in {0, 1} /\ trailing \in {0, 1} /\ (from = 0 => leading = 0)
        /\ (end = n => trailing = 0)
  BY <1>1, <1>2, <1>5
<1>9. /\ c.start = begin + from + leading /\ c.end = begin + end - trailing
      /\ c.chars = end - trailing - (from + leading) /\ c.page = page /\ c.section = section
  BY DEF Piece
<1>10. /\ c.start \in Nat /\ c.end \in Nat /\ c.chars \in Nat /\ c.chars = c.end - c.start
       /\ 0 < c.chars /\ c.chars <= ChunkSize /\ c.end <= begin + n
  <2> HIDE DEF n, begin, c
  <2>1. /\ n \in Nat /\ begin \in Nat /\ from \in Nat /\ end \in Nat /\ from + Overlap < n
        /\ from < end /\ end <= n /\ end - from <= ChunkSize
        /\ end < n => end - from > Overlap + 2
    BY <1>2, <1>3, <1>5, <1>6
  <2> QED BY <1>7, <1>8, <1>9, <2>1, PieceNumbers
<1>11. c \in ChunkRecord
  BY <1>2, <1>9, <1>10 DEF Piece, ChunkRecord
<1> HIDE DEF n, begin, c
<1>12. RightIn(c, text)
  <2>1. ASSUME NEW i \in 1 .. Len(text), Overlapping(c, text[i])
        PROVE  c.page = text[i].page /\ c.section = text[i].section
    <3>1. CASE i = Len(text)
      BY <1>3, <1>9, <3>1 DEF Long
    <3>2. CASE i # Len(text)
      <4>1. i \in 1 .. Len(text) - 1 /\ text[i] \in ParagraphRecord
        BY <1>2, <1>4, <3>2, ElementOfSeq
      <4>2. EndOf(text[i]) <= begin /\ EndOf(text[i]) \in Nat
        BY <1>2, <4>1, ParagraphEnds DEF TextFits, Long, begin
      <4>3. c.start < EndOf(text[i])
        BY <2>1 DEF Overlapping, EndOf
      <4> QED BY <1>2, <1>5, <1>8, <1>9, <1>10, <4>2, <4>3
    <3> QED BY <3>1, <3>2
  <2> QED BY <1>10, <2>1 DEF RightIn
<1>13. Bounded(c) /\ c.end <= cursor
  BY <1>2, <1>5, <1>7, <1>10 DEF Bounded, Gap
<1>14. chunks # <<>> => InOrder(chunks[Len(chunks)], c)
  <2> SUFFICES ASSUME chunks # <<>> PROVE InOrder(chunks[Len(chunks)], c)
    OBVIOUS
  <2> DEFINE last == chunks[Len(chunks)]
  <2>1. last.start \in Nat /\ last.end \in Nat /\ last.start < last.end
    BY <1>2, LastChunkEnds
  <2>2. from = 0 => last.end <= begin
    BY <1>3
  <2>3. from > 0 => last.start < begin + from /\ last.end <= begin + from + Overlap
    BY <1>3
  <2> HIDE DEF last
  <2>4. CASE from = 0
    <3>1. c.start = begin /\ c.start < c.end
      BY <1>5, <1>8, <1>9, <1>10, <2>4
    <3> QED BY <1>5, <1>10, <2>1, <2>2, <2>4, <3>1 DEF InOrder, last
  <2>5. CASE from # 0
    <3>1. from > 0
      BY <1>2, <2>5
    <3>2. begin + from <= c.start
      BY <1>2, <1>5, <1>8, <1>9
    <3>3. begin + from + Overlap < c.end
      BY <1>2, <1>3, <1>5, <1>6, <1>7, <1>8, <1>9, PieceNumbers
    <3>4. last.start < begin + from /\ last.end <= begin + from + Overlap
      BY <2>3, <3>1
    <3>5. last.start < c.start
      BY <1>2, <1>5, <1>10, <2>1, <3>2, <3>4
    <3>6. last.end < c.end
      <4>1. begin + from + Overlap \in Nat /\ c.end \in Nat /\ last.end \in Nat
        BY <1>2, <1>5, <1>7, <1>10, <2>1
      <4> QED BY <3>3, <3>4, <4>1
    <3> QED BY <3>5, <3>6 DEF InOrder, last
  <2> QED BY <2>4, <2>5
<1>15. /\ chunks' \in Seq(ChunkRecord) /\ chunks' # <<>> /\ chunks'[Len(chunks')] = c
       /\ Good(chunks', text, cursor)
       /\ \A at : Holding(chunks', at) <=> Holding(chunks, at) \/ Holds(c, at)
  <2>1. chunks' = Append(chunks, c)
    BY <1>1 DEF Store
  <2> QED BY <1>2, <1>11, <1>12, <1>13, <1>14, <2>1, AppendGood
<1>16. persisted' \in Nat
  <2> DEFINE q == Len(chunks') \div StoreBatch
  <2>1. Len(chunks') \in Nat
    BY <1>15, LenProperties
  <2>2. q \in Nat
    BY <2>1, ChunkSizes
  <2>3. persisted' = q * StoreBatch
    BY <1>1 DEF Store
  <2> HIDE DEF q
  <2> QED BY <2>2, <2>3, ChunkSizes
<1>17. /\ phase' \in {"read", "split"} /\ from' \in Nat /\ parts'.length = 0
       /\ end < n => phase' = "split" /\ from' = end - Overlap /\ from' > from + 2
       /\ end = n => phase' = "read" /\ from' = 0
  <2>1. CASE end < n
    <3>1. ~(end >= n)
      BY <1>5, <1>6, <2>1
    <3>2. phase' = "split" /\ from' = end - Overlap
      BY <1>1, <1>6, <2>1, <3>1
    <3> QED BY <1>1, <1>2, <1>6, <1>7, <2>1, <3>2
  <2>2. CASE end = n
    BY <1>1, <1>2, <1>5, <2>2
  <2> QED BY <1>5, <1>6, <2>1, <2>2
<1>18. ChunksTypeOK'
  BY <1>1, <1>2, <1>15, <1>16, <1>17 DEF ChunksTypeOK, ParagraphRecord, ChunkRecord, PartsRecord
<1>19. SplitFits'
  <2> SUFFICES ASSUME phase' = "split" PROVE SplitFits'
    BY DEF SplitFits
  <2>1. end < n /\ from' = end - Overlap /\ from' > from + 2 /\ Long' = Long
    BY <1>1, <1>5, <1>6, <1>17 DEF Long
  <2>2. from' + Overlap < n /\ from' > 0 /\ from' # 0
    BY <1>2, <1>6, <1>7, <2>1
  <2>3. c.start < begin + from' /\ c.end <= begin + from' + Overlap
    BY <1>2, <1>5, <1>6, <1>7, <1>8, <1>9, <2>1
  <2> QED BY <1>1, <1>3, <1>15, <2>1, <2>2, <2>3 DEF SplitFits, n, begin
<1>20. Covered(chunks', parts', text', phase', from')
  <2> SUFFICES ASSUME NEW i \in 1 .. Len(text),
                      NEW at \in text[i].start .. (text[i].start + text[i].length - 1)
               PROVE  \/ Holding(chunks', at)
                      \/ phase' = "split" /\ i = Len(text')
                         /\ (from' > 0 => at >= text[i].start + from' + Overlap - 1)
    BY <1>1 DEF Covered
  <2>1. Holding(chunks, at)
          \/ (i = Len(text) /\ (from > 0 => at >= text[i].start + from + Overlap - 1))
    BY <1>1, <1>2 DEF ChInv, Covered
  <2>2. CASE Holding(chunks, at)
    BY <1>15, <2>2
  <2>3. CASE i = Len(text) /\ (from > 0 => at >= text[i].start + from + Overlap - 1)
    <3>1. /\ at \in Int /\ begin <= at /\ at <= begin + n - 1
          /\ (from > 0 => at >= begin + from + Overlap - 1)
      BY <2>3 DEF begin, n, Long
    <3>0. /\ begin \in Nat /\ from \in Nat /\ end \in Nat /\ Overlap \in Nat /\ Overlap > 1
          /\ leading \in {0, 1} /\ trailing \in {0, 1}
      BY <1>2, <1>5, <1>6, <1>7, <1>8
    <3>2. c.start <= at
      <4>1. CASE from = 0
        BY <1>5, <1>8, <1>9, <3>1, <4>1
      <4>2. CASE from # 0
        <5>1. from > 0
          BY <1>2, <4>2
        <5>2. at >= begin + from + Overlap - 1
          BY <3>1, <5>1
        <5> QED BY <1>9, <3>0, <3>1, <5>2, OverlapNumbers
      <4> QED BY <4>1, <4>2
    <3>3. CASE at < c.end
      BY <1>15, <3>2, <3>3 DEF Holds
    <3>4. CASE ~(at < c.end)
      <4>1. end < n
        BY <1>5, <1>6, <1>8, <1>9, <3>1, <3>4
      <4>2. at >= begin + from' + Overlap - 1
        <5>1. from' = end - Overlap
          BY <1>17, <4>1
        <5>2. ~(at < begin + end - trailing)
          BY <1>9, <3>4
        <5>3. at >= begin + (end - Overlap) + Overlap - 1
          BY <3>0, <3>1, <5>2, OverlapNumbers
        <5> QED BY <5>1, <5>3
      <4> QED BY <1>1, <1>17, <2>3, <4>1, <4>2 DEF begin, Long
    <3> QED BY <3>3, <3>4
  <2> QED BY <2>1, <2>2, <2>3
<1>21. PartsFit(parts', chunks', text', cursor', page', section')
  BY <1>17 DEF PartsFit
<1> QED BY <1>1, <1>2, <1>15, <1>17, <1>18, <1>19, <1>20, <1>21 DEF ChInv

\* At the end of the text the parts that are left become the last chunk.
LEMMA EndKeeps == ASSUME ChInv, EndText PROVE ChInv'
<1>1. /\ phase = "read" /\ phase' = "done" /\ parts' = NoParts
      /\ chunks' = Flushed /\ persisted' = Len(Flushed)
      /\ UNCHANGED <<text, cursor, page, section, from>>
  BY DEF EndText
<1>2. /\ Flushed \in Seq(ChunkRecord) /\ Good(Flushed, text, cursor)
      /\ \A i \in 1 .. Len(text) : \A at \in text[i].start .. (text[i].start + text[i].length - 1) :
           Holding(Flushed, at)
  BY <1>1, FlushedFits
<1>3. parts' \in PartsRecord /\ parts'.length = 0 /\ persisted' \in Nat
  BY <1>1, <1>2, LenProperties DEF NoParts, PartsRecord
<1>4. ChunksTypeOK'
  BY <1>1, <1>2, <1>3 DEF ChInv, ChunksTypeOK, ChunkRecord, PartsRecord
<1>5. Covered(chunks', parts', text', phase', from')
  BY <1>1, <1>2 DEF Covered
<1>6. PartsFit(parts', chunks', text', cursor', page', section') /\ SplitFits'
  BY <1>1, <1>3 DEF PartsFit, SplitFits
<1> QED BY <1>1, <1>2, <1>3, <1>4, <1>5, <1>6 DEF ChInv

\* Every step of chunking keeps the invariant.
LEMMA ChunksStepKeeps == ChInv /\ [ChunksNext]_chunkVars => ChInv'
<1> SUFFICES ASSUME ChInv, [ChunksNext]_chunkVars PROVE ChInv'
  OBVIOUS
<1>1. CASE UNCHANGED chunkVars
  <2>1. UNCHANGED <<phase, text, cursor, parts, page, section, from, chunks, persisted>>
    BY <1>1 DEF chunkVars
  <2> QED BY <2>1 DEF ChInv, ChunksTypeOK, SplitFits, Long
<1>2. ASSUME NEW end \in (from + 1) .. (from + ChunkSize), NEW leading \in 0 .. 1,
             NEW trailing \in 0 .. 1,
             SplitLong(end, leading, trailing)
      PROVE  ChInv'
  <2>1. end \in Int
    OBVIOUS
  <2> QED BY <1>2, <2>1, SplitKeeps
<1>3. ASSUME NEW length \in Lengths,
             \/ \E marker, heading \in BOOLEAN :
                  ReadBreak(marker, heading, length) \/ ReadLong(marker, heading, length)
             \/ JoinParagraph(length)
             \/ \E tail \in 0 .. Overlap : StartOver(length, tail)
      PROVE  ChInv'
  BY <1>3, ReadBreaksKeep, JoinKeeps, StartOverKeeps
<1>4. CASE ReadMarker \/ EndText
  BY <1>4, ReadBreaksKeep, EndKeeps
<1> QED BY <1>1, <1>2, <1>3, <1>4 DEF ChunksNext

\* It contains the types and what the chunks promise.
LEMMA ChunksFit == ChInv => ChunksFaithful /\ ChunksTypeOK
<1> SUFFICES ASSUME ChInv PROVE ChunksFaithful
  BY DEF ChInv
<1>1. \A k \in 1 .. Len(chunks) : RightPlace(chunks[k]) /\ Bounded(chunks[k])
  BY DEF ChInv, Good, RightIn, RightPlace
<1>2. \A k \in 1 .. Len(chunks) - 1 : InOrder(chunks[k], chunks[k + 1])
  BY DEF ChInv, Good
<1>3. ASSUME phase = "done" PROVE AllStored
  <2>1. parts.length = 0 /\ persisted = Len(chunks)
    BY <1>3 DEF ChInv
  <2>2. \A i \in 1 .. Len(text) : \A at \in text[i].start .. (text[i].start + text[i].length - 1) :
          Holding(chunks, at)
    BY <1>3, <2>1 DEF ChInv, Covered
  <2> QED BY <2>1, <2>2 DEF AllStored, Holding
<1> QED BY <1>1, <1>2, <1>3 DEF ChunksFaithful

\* The invariant of chunking.
LEMMA ChunksStay == ChunksSpec => []ChInv
BY ChunksAtFirst, ChunksStepKeeps, PTL DEF ChunksSpec

-----------------------------------------------------------------------------
\* Whatever the lengths of the paragraphs, the sizes, the overlap and the places where
\* long paragraphs can be cut: every chunk is where it claims to be, on its page and in
\* its section, within the limit and behind the one before it, and when the text is over
\* every character of it is in a chunk that was stored.
THEOREM ChunksAreFaithful == ChunksSpec => []ChunksFaithful
BY ChunksStay, ChunksFit, PTL

\* Types of every variable.
THEOREM ChunksTyped == ChunksSpec => []ChunksTypeOK
BY ChunksStay, ChunksFit, PTL

-----------------------------------------------------------------------------
(* The loop that deletes files.                                            *)

\* Every step of the loop keeps the types.
LEMMA LoopStep == DeletionLoopTypeOK /\ [LoopNext]_loopVars => DeletionLoopTypeOK'
<1> SUFFICES ASSUME DeletionLoopTypeOK, [LoopNext]_loopVars PROVE DeletionLoopTypeOK'
  OBVIOUS
<1> USE DEF DeletionLoopTypeOK
<1>1. CASE UNCHANGED loopVars
  BY <1>1 DEF loopVars
<1>2. ASSUME NEW r \in Deletes, CommitRows(r) \/ Notify(r) \/ SetEvent(r) PROVE DeletionLoopTypeOK'
  BY <1>2 DEF CommitRows, Notify, SetEvent
<1>3. CASE Woken \/ IntervalOver \/ ClearEvent \/ ReadOutbox \/ StopLoop \/ ShutdownTimeout
  BY <1>3 DEF Woken, IntervalOver, ClearEvent, ReadOutbox, StopLoop, ShutdownTimeout
<1>4. CASE StartBatch
  BY <1>4 DEF StartBatch, Schedule
<1>5. CASE TaskDone
  <2> DEFINE failures == CASE batch = "returned" -> 0
                           [] batch = "cancelled" -> report.failures
                           [] OTHER -> IF report.failures < MaxFailures
                                       THEN report.failures + 1 ELSE MaxFailures
  <2>1. failures \in 0 .. MaxFailures
    BY DeletionLoopBounds
  <2>2. report' = [started |-> FALSE, failures |-> failures] /\ batch' = "none"
        /\ UNCHANGED <<deletes, loopAt, event, seen, missed>>
    BY <1>5 DEF TaskDone
  <2> HIDE DEF failures
  <2> QED BY <2>1, <2>2
<1>6. ASSUME NEW result \in {"returned", "raised"}, ThreadEnds(result) PROVE DeletionLoopTypeOK'
  BY <1>6 DEF ThreadEnds
<1> HIDE DEF DeletionLoopTypeOK
<1>7. CASE LoopNext
  BY <1>2, <1>3, <1>4, <1>5, <1>6, <1>7 DEF LoopNext
<1> QED BY <1>1, <1>7

\* Readiness says that a batch has begun exactly while the registry tracks one.
THEOREM LoopTyped == LoopSpec => []DeletionLoopTypeOK
<1>1. LoopInit => DeletionLoopTypeOK
  <2>1. 0 \in 0 .. MaxFailures
    BY DeletionLoopBounds
  <2> SUFFICES ASSUME LoopInit PROVE DeletionLoopTypeOK
    OBVIOUS
  <2>2. report \in [started : BOOLEAN, failures : 0 .. MaxFailures] /\ report.started = TRUE
    BY <2>1 DEF LoopInit
  <2>3. deletes \in [Deletes -> {"idle", "committed", "notified"}] /\ batch = "running"
        /\ missed \in SUBSET Deletes /\ loopAt = "waiting" /\ event = FALSE /\ seen = FALSE
    BY DEF LoopInit
  <2> QED BY <2>2, <2>3 DEF DeletionLoopTypeOK
<1> QED BY <1>1, LoopStep, PTL DEF LoopSpec

-----------------------------------------------------------------------------
(* The composition.                                                        *)

\* A behaviour of the composition is one of each part: the part it is about takes the
\* steps of its own next-state relation, and the others rest.
THEOREM DocumentsParts ==
  MCSpec => Spec /\ RebuildSpec /\ ChatSpec /\ TagsSpec /\ ChunksSpec /\ LoopSpec
<1>1. MCInit => Init /\ RebuildInit /\ ChatInit /\ TagsInit /\ ChunksInit /\ LoopInit
  BY DEF MCInit
<1>2. [MCNext]_mcvars =>
        /\ [Next]_vars /\ [RebuildNext]_rebuildVars /\ [ChatNext]_chatVars
        /\ [TagsNext]_tagVars /\ [ChunksNext]_chunkVars /\ [LoopNext]_loopVars
  BY DEF MCNext, mcvars, Rest
<1> QED
  BY <1>1, <1>2, PTL
     DEF MCSpec, Spec, RebuildSpec, ChatSpec, TagsSpec, ChunksSpec, LoopSpec

\* The variables of every part have their types, and what the type invariants say beyond
\* types.
THEOREM DocumentsTyped == MCSpec => []DocumentsTypeOK
<1>1. MCSpec => [](part \in Parts)
  <2>1. MCInit => part \in Parts
    BY DEF MCInit
  <2>2. part \in Parts /\ [MCNext]_mcvars => (part \in Parts)'
    BY DEF MCNext, mcvars
  <2> QED
    BY <2>1, <2>2, PTL DEF MCSpec
<1>2. /\ TypeOK /\ RebuildTypeOK /\ ChatTypeOK /\ TagsTypeOK /\ ChunksTypeOK
      /\ DeletionLoopTypeOK /\ part \in Parts
      => DocumentsTypeOK
  BY PartsAssumption DEF DocumentsTypeOK
<1> QED
  BY <1>1, <1>2, DocumentsParts, OutboxTypeOK, RebuildTyped, ChatTyped, TagsTyped,
     ChunksTyped, LoopTyped, PTL

=============================================================================
