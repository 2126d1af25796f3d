------------------------------ MODULE DocumentTags ------------------------------
(***************************************************************************)
(* The tags of one user: rows of tags and of document_tags, the requests   *)
(* that replace the tags of a document, the indexing worker that adds its  *)
(* own, and renames that merge a tag into the one that has the name.       *)
(*                                                                         *)
(* Transactions are READ COMMITTED and wait for rows that others changed   *)
(* or locked; a variable holds what is committed, the records of the       *)
(* transactions what they have done so far.  Two that wait for each other  *)
(* are taken apart by PostgreSQL, which lets one fail.                     *)
(***************************************************************************)
EXTENDS Naturals, FiniteSets

CONSTANTS
  TaggedDocs, \* documents
  Names, NoName,
  MaxTags,    \* bound: tags have the ids 1 .. MaxTags, in the order of their UUIDs
  Edits,      \* transactions that set the tags of a document
  Merges,     \* calls of update_tag
  TagLimit,   \* DOCUMENT_TAG_LIMIT
  NoTaggedDoc

ASSUME TagsAssumption ==
  NoName \notin Names /\ NoTaggedDoc \notin TaggedDocs /\ MaxTags \in Nat /\ TagLimit \in Nat

VARIABLES
  tags,    \* [TagIds -> the name of the row, or NoName]
  used,    \* ids that were given out
  links,   \* document_tags
  edits,   \* [Edits -> transaction]
  merges   \* [Merges -> transaction]

tagVars == <<tags, used, links, edits, merges>>

-----------------------------------------------------------------------------
TagIds == 1 .. MaxTags
NoTag == 0

\* cleared are the links the transaction has deleted, made the tags it has inserted,
\* [TagIds -> name], picked all it links.
IdleEdit == [pc |-> "idle", kind |-> "patch", doc |-> NoTaggedDoc, names |-> {}, cleared |-> {},
             made |-> [t \in TagIds |-> NoName], picked |-> {}]
IdleMerge == [pc |-> "idle", source |-> NoTag, name |-> NoName, todo |-> {}, locked |-> {},
              copied |-> {}]

NamesOf(d) == {tags[t] : t \in {u \in TagIds : <<d, u>> \in links}}
Named(n) == {t \in TagIds : tags[t] = n}
Made(e) == {t \in TagIds : edits[e].made[t] # NoName}

\* UPDATE documents; the worker's comes with the flush of its links.
HoldsFile(e) == \/ edits[e].pc \in {"clear", "pick", "link", "commit"} /\ edits[e].kind = "patch"
                \/ edits[e].pc = "commit" /\ edits[e].kind = "enrich"
FileFree(e) == \A f \in Edits \ {e} : edits[f].doc = edits[e].doc => ~HoldsFile(f)

\* Links that a transaction deleted and did not commit, of a document or of a tag.
Clearing(e) == edits[e].pc \in {"pick", "link", "commit"}
LinksFree(e) == \A f \in Edits \ {e} :
  Clearing(f) /\ edits[f].doc = edits[e].doc => edits[f].cleared = {}
TagLinksFree(t) == \A e \in Edits : Clearing(e) => t \notin edits[e].cleared

\* FOR UPDATE of update_tag against the key-share locks of foreign keys.
LockedTag(t) == \E m \in Merges : t \in merges[m].locked
SharedTag(t) == \E e \in Edits : edits[e].pc = "commit" /\ t \in edits[e].picked

\* Names whose rows are inserted and not committed.
Pending(e) == UNION {{edits[f].made[t] : t \in Made(f)} : f \in Edits \ {e}}

EditGoes(e, pc) == edits' = [edits EXCEPT ![e].pc = pc]
EndEdit(e) == edits' = [edits EXCEPT ![e] = [IdleEdit EXCEPT !.pc = "done"]]
EndMerge(m) == merges' = [merges EXCEPT ![m] = [IdleMerge EXCEPT !.pc = "done"]]

-----------------------------------------------------------------------------
(* set_document_tags.                                                      *)

\* update_document with tags: UPDATE documents comes first.  A new document, of an
\* upload or a note, has no links yet and goes the same way.
BeginPatch(e, d, names) ==
  /\ edits[e].pc = "idle" /\ Cardinality(names) <= TagLimit
  /\ \A f \in Edits \ {e} : edits[f].doc = d => ~HoldsFile(f)
  /\ edits' = [edits EXCEPT ![e] = [IdleEdit EXCEPT !.pc = "clear", !.doc = d, !.names = names]]
  /\ UNCHANGED <<tags, used, links, merges>>

\* enrich_document, after the model has answered: the names that are stored come first,
\* generated ones take what is left of the limit.
BeginEnrich(e, d, generated) ==
  LET room == IF Cardinality(NamesOf(d)) >= TagLimit THEN 0
              ELSE TagLimit - Cardinality(NamesOf(d)) IN
  /\ edits[e].pc = "idle"
  /\ generated \cap NamesOf(d) = {} /\ Cardinality(generated) <= room
  /\ edits' = [edits EXCEPT ![e] = [IdleEdit EXCEPT !.pc = "clear", !.kind = "enrich", !.doc = d,
                                                    !.names = NamesOf(d) \cup generated]]
  /\ UNCHANGED <<tags, used, links, merges>>

\* DELETE of all links, which waits for those another transaction has deleted.
ClearLinks(e) ==
  /\ edits[e].pc = "clear" /\ LinksFree(e)
  /\ edits' = [edits EXCEPT ![e].pc = "pick",
                            ![e].cleared = {t \in TagIds : <<edits[e].doc, t>> \in links}]
  /\ UNCHANGED <<tags, used, links, merges>>

\* get_or_create_tag for every name; an INSERT waits for one of the same name.
PickTags(e) ==
  LET new == {n \in edits[e].names : Named(n) = {}} IN
  /\ edits[e].pc = "pick" /\ new \cap Pending(e) = {}
  /\ \E made \in [TagIds -> new \cup {NoName}] :
       /\ \A t \in TagIds : made[t] # NoName => t \notin used
       /\ \A n \in new : Cardinality({t \in TagIds : made[t] = n}) = 1
       /\ used' = used \cup {t \in TagIds : made[t] # NoName}
       /\ edits' = [edits EXCEPT ![e].pc = "link", ![e].made = made,
                                 ![e].picked = {t \in TagIds : \/ made[t] # NoName
                                                               \/ tags[t] \in edits[e].names}]
  /\ UNCHANGED <<tags, links, merges>>

\* The links can be inserted: their tags exist and nobody else has linked them.
Insertable(e) == \A t \in edits[e].picked \ Made(e) :
  tags[t] # NoName /\ (<<edits[e].doc, t>> \in links => t \in edits[e].cleared)

\* flush: the document of the worker is updated, links are inserted, and their foreign
\* keys wait for tags that are locked.
InsertLinks(e) ==
  /\ edits[e].pc = "link" /\ FileFree(e)
  /\ \A t \in edits[e].picked : ~LockedTag(t)
  /\ Insertable(e)
  /\ EditGoes(e, "commit")
  /\ UNCHANGED <<tags, used, links, merges>>

\* A tag is gone or was renamed away under its name, or a merge linked it meanwhile:
\* IntegrityError.
LinksRejected(e) ==
  /\ edits[e].pc = "link" /\ ~Insertable(e)
  /\ \A t \in edits[e].picked : ~LockedTag(t)
  /\ EndEdit(e)
  /\ UNCHANGED <<tags, used, links, merges>>

CommitEdit(e) ==
  LET d == edits[e].doc IN
  /\ edits[e].pc = "commit"
  /\ tags' = [t \in TagIds |-> IF t \in Made(e) THEN edits[e].made[t] ELSE tags[t]]
  /\ links' = {l \in links : l[1] # d \/ l[2] \notin edits[e].cleared}
              \cup ({d} \X edits[e].picked)
  /\ EndEdit(e)
  /\ UNCHANGED <<used, merges>>

\* The database, the connection or the process fails.
AbortEdit(e) ==
  /\ edits[e].pc \notin {"idle", "done"}
  /\ EndEdit(e)
  /\ UNCHANGED <<tags, used, links, merges>>

-----------------------------------------------------------------------------
(* update_tag and delete_tag.                                              *)

\* SELECT ... ORDER BY id FOR UPDATE finds the tag and the one that has the name.
BeginMerge(m, t, n) ==
  /\ merges[m].pc = "idle" /\ tags[t] # NoName
  /\ merges' = [merges EXCEPT ![m] = [IdleMerge EXCEPT !.pc = "lock", !.source = t, !.name = n,
                                                       !.todo = {t} \cup Named(n)]]
  /\ UNCHANGED <<tags, used, links, edits>>

\* What is looked at again once the lock is there.
StillMatches(m, t) ==
  tags[t] # NoName /\ (t = merges[m].source \/ tags[t] = merges[m].name)

\* Mutant of LockRow: the rows are read only.
LockRowShared(m, t) ==
  /\ merges[m].pc = "lock" /\ t \in merges[m].todo
  /\ \A u \in merges[m].todo : t <= u
  /\ merges' = [merges EXCEPT ![m].todo = merges[m].todo \ {t},
       ![m].locked = IF StillMatches(m, t) THEN merges[m].locked \cup {t} ELSE merges[m].locked]
  /\ UNCHANGED <<tags, used, links, edits>>

\* Mutant of LockRow: in the order of the request, the tag before the one with the name.
LockSourceFirst(m, t) ==
  /\ merges[m].pc = "lock" /\ t \in merges[m].todo
  /\ merges[m].source \in merges[m].todo => t = merges[m].source
  /\ ~LockedTag(t) /\ ~SharedTag(t)
  /\ merges' = [merges EXCEPT ![m].todo = merges[m].todo \ {t},
       ![m].locked = IF StillMatches(m, t) THEN merges[m].locked \cup {t} ELSE merges[m].locked]
  /\ UNCHANGED <<tags, used, links, edits>>

\* Rows are locked one by one, lowest id first.
LockRow(m, t) ==
  /\ merges[m].pc = "lock" /\ t \in merges[m].todo
  /\ \A u \in merges[m].todo : t <= u
  /\ ~LockedTag(t) /\ ~SharedTag(t)
  /\ merges' = [merges EXCEPT ![m].todo = merges[m].todo \ {t},
       ![m].locked = IF StillMatches(m, t) THEN merges[m].locked \cup {t} ELSE merges[m].locked]
  /\ UNCHANGED <<tags, used, links, edits>>

MergeTarget(m) == CHOOSE t \in merges[m].locked : t # merges[m].source
HasTarget(m) == merges[m].locked \ {merges[m].source} # {}

\* Nobody has the name: the tag gets it, unless somebody was faster.
RenameTag(m) ==
  LET n == merges[m].name IN
  /\ merges[m].pc = "lock" /\ merges[m].todo = {}
  /\ merges[m].source \in merges[m].locked /\ ~HasTarget(m)
  /\ \A e \in Edits : n \notin {edits[e].made[t] : t \in Made(e)}
  /\ tags' = IF Named(n) \subseteq {merges[m].source}
             THEN [tags EXCEPT ![merges[m].source] = n] ELSE tags
  /\ EndMerge(m)
  /\ UNCHANGED <<used, links, edits>>

\* The tag was deleted meanwhile: 404.
TagNotFound(m) ==
  /\ merges[m].pc = "lock" /\ merges[m].todo = {} /\ merges[m].source \notin merges[m].locked
  /\ EndMerge(m)
  /\ UNCHANGED <<tags, used, links, edits>>

\* _merge_tags: INSERT ... SELECT ... ON CONFLICT DO NOTHING.
CopyLinks(m) ==
  /\ merges[m].pc = "lock" /\ merges[m].todo = {}
  /\ merges[m].source \in merges[m].locked /\ HasTarget(m)
  /\ merges' = [merges EXCEPT ![m].pc = "copied",
                              ![m].copied = {d \in TaggedDocs : <<d, merges[m].source>> \in links}]
  /\ UNCHANGED <<tags, used, links, edits>>

\* DELETE FROM tags, whose cascade waits for links that others delete, and COMMIT.
CommitMerge(m) ==
  LET s == merges[m].source IN
  /\ merges[m].pc = "copied" /\ TagLinksFree(s)
  /\ tags' = [tags EXCEPT ![s] = NoName]
  /\ links' = {l \in links : l[2] # s} \cup (merges[m].copied \X {MergeTarget(m)})
  /\ EndMerge(m)
  /\ UNCHANGED <<used, edits>>

AbortMerge(m) ==
  /\ merges[m].pc \notin {"idle", "done"}
  /\ EndMerge(m)
  /\ UNCHANGED <<tags, used, links, edits>>

DeleteTag(t) ==
  /\ tags[t] # NoName /\ ~LockedTag(t) /\ ~SharedTag(t) /\ TagLinksFree(t)
  /\ tags' = [tags EXCEPT ![t] = NoName]
  /\ links' = {l \in links : l[2] # t}
  /\ UNCHANGED <<used, edits, merges>>

-----------------------------------------------------------------------------
TagsInit ==
  /\ tags = [t \in TagIds |-> NoName] /\ used = {}
  /\ links = {}
  /\ edits = [e \in Edits |-> IdleEdit]
  /\ merges = [m \in Merges |-> IdleMerge]

EditStep(e) == \/ ClearLinks(e) \/ PickTags(e) \/ InsertLinks(e) \/ LinksRejected(e)
               \/ CommitEdit(e) \/ AbortEdit(e)
MergeStep(m) == \/ \E t \in TagIds : LockRow(m, t)
                \/ RenameTag(m) \/ TagNotFound(m) \/ CopyLinks(m) \/ CommitMerge(m) \/ AbortMerge(m)

TagsNext ==
  \/ \E e \in Edits :
       \/ \E d \in TaggedDocs, names \in SUBSET Names : BeginPatch(e, d, names) \/ BeginEnrich(e, d, names)
       \/ EditStep(e)
  \/ \E m \in Merges :
       \/ \E t \in TagIds, n \in Names : BeginMerge(m, t, n)
       \/ MergeStep(m)
  \/ \E t \in TagIds : DeleteTag(t)

TagsSpec == TagsInit /\ [][TagsNext]_tagVars

-----------------------------------------------------------------------------
(* Properties.                                                             *)

\* Types of every variable; no two tags of a name, no link without its tag.
TagsTypeOK ==
  /\ tags \in [TagIds -> Names \cup {NoName}] /\ used \subseteq TagIds
  /\ links \subseteq TaggedDocs \X TagIds
  /\ edits \in [Edits -> [pc : {"idle", "clear", "pick", "link", "commit", "done"},
                          kind : {"patch", "enrich"}, doc : TaggedDocs \cup {NoTaggedDoc},
                          names : SUBSET Names, cleared : SUBSET TagIds,
                          made : [TagIds -> Names \cup {NoName}], picked : SUBSET TagIds]]
  /\ merges \in [Merges -> [pc : {"idle", "lock", "copied", "done"}, source : TagIds \cup {NoTag},
                            name : Names \cup {NoName}, todo : SUBSET TagIds,
                            locked : SUBSET TagIds, copied : SUBSET TaggedDocs]]
  /\ \A t, u \in TagIds : tags[t] = tags[u] /\ tags[t] # NoName => t = u
  /\ \A l \in links : tags[l[2]] # NoName

\* A document that had the tag at the moment it is merged away has the other one then:
\* no link slips in between the copy and the deletion, which would take it along.
MergeKeepsLinks ==
  [][\A m \in Merges, d \in TaggedDocs :
       /\ merges[m].pc = "copied" /\ tags'[merges[m].source] = NoName
       /\ <<d, merges[m].source>> \in links
       => <<d, MergeTarget(m)>> \in links']_tagVars

\* Merges never wait for each other in a circle, also when two tags get each other's
\* names.
MergesDoNotBlock ==
  ~\E m, n \in Merges :
     /\ m # n
     /\ merges[m].pc = "lock" /\ merges[n].pc = "lock"
     /\ merges[m].todo # {} /\ merges[m].todo \subseteq merges[n].locked
     /\ merges[n].todo # {} /\ merges[n].todo \subseteq merges[m].locked

=============================================================================
