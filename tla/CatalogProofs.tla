--------------------------- MODULE CatalogProofs ---------------------------
(***************************************************************************)
(* What the parts of MCCatalog keep for any number of releases, documents, *)
(* rows, links, requests and servers, and the theorems of the composition. *)
(*                                                                         *)
(*   catalog     The rows meet the release of the stamp, or what a resync  *)
(*               is about to write makes them meet the one it will stamp   *)
(*               (JobInv), while nobody else writes.                       *)
(*   document    An import that nothing disturbed has a row for each tool  *)
(*               it has got past, and every row is one it wrote or one it  *)
(*               read (Progress).                                          *)
(*   graph       A writer that read an edge before the decision is the     *)
(*               only one that may overwrite it.                           *)
(*   page        A request that will fetch the connector again is under    *)
(*               way (Mending), or what is under way settles the list that *)
(*               is shown (Settles).                                       *)
(*   server      What a modal writes has what it read; an answer of the    *)
(*               server is of the row as it is, unless requests overlapped.*)
(***************************************************************************)
EXTENDS MCCatalog, TLAPS

(* The catalog.                                                            *)

Places      == {"idle", "scan", "compare", "stamp", "diff", "read", "write", "reload"}
DiffRecords == [refresh : BOOLEAN, upToDate : BOOLEAN, safe : BOOLEAN]
JobRecords  == [pc : Places, mode : {"full", "safe"}, diff : DiffRecords \union {Absent},
                seen : StoredRecords \union {Absent}, disturbed : BOOLEAN]

\* The rows rs are what the release r asks for.
Meets(rs, r) ==
  \A n \in Names :
    IF r.tools[n] # Absent THEN rs[n] # Absent /\ rs[n].content = r.tools[n]
    ELSE rs[n] = Absent \/ rs[n].deprecated

\* They differ from it in what the safe mode writes only.
Near(rs, r) ==
  \A n \in Names :
    IF r.tools[n] # Absent THEN rs[n] # Absent /\ rs[n].content.endpoint = r.tools[n].endpoint
    ELSE rs[n] = Absent \/ rs[n].deprecated

\* A tool that was deprecated when it was read, and is not in the release, still is.
StillLeft(seen, rs, r) ==
  \A n \in Names : r.tools[n] = Absent /\ seen[n] # Absent /\ seen[n].deprecated =>
                     rs[n] = Absent \/ rs[n].deprecated

\* No switch has been moved by hand.
Switches(rs) == \A n \in Names : rs[n] # Absent => rs[n].enabled = ~ rs[n].deprecated

\* What a request or a scan may rely on at its place, b being its record.
JobInv(b, rs, r, e) ==
  /\ b.pc \in {"compare", "stamp", "write"} => b.seen \in StoredRecords
  /\ b.pc \in {"read", "write"} => b.diff \in DiffRecords /\ ~ Stops(b.diff, b.mode)
  /\ ~ b.disturbed =>
       /\ b.pc = "stamp" => Meets(rs, r)
       /\ b.pc \in {"read", "write"} /\ b.mode = "safe" => Near(rs, r)
       /\ b.pc = "write" => StillLeft(b.seen.rows, rs, r) /\ (b.mode = "safe" => Near(b.seen.rows, r))
  /\ b.pc = "write" /\ e = 0 => Switches(b.seen.rows)

CatTyped ==
  /\ catalog \in Releases /\ rowOf \in [Names -> RowsOrAbsent]
  /\ texts \in Texts /\ config \in Configs
  /\ served \in [Names -> Contents \union {Absent}]
  /\ job \in [Jobs -> JobRecords]
  /\ kept \subseteq Names /\ trusted \in BOOLEAN /\ own \in BOOLEAN /\ edits \in Nat

CatInv ==
  /\ CatTyped
  /\ edits = 0 => Switches(rowOf)
  /\ \A j \in Jobs : JobInv(job[j], rowOf, catalog, edits)
  /\ trusted => Meets(rowOf, config.version)
  /\ \A n \in kept : rowOf[n] # Absent /\ ~ rowOf[n].enabled

\* A row that is not absent is a record of a row.
LEMMA RowIs ==
  ASSUME NEW r \in RowsOrAbsent, r # Absent
  PROVE  /\ r \in RowRecords /\ r.content \in Contents
         /\ r.enabled \in BOOLEAN /\ r.deprecated \in BOOLEAN
BY DEF RowsOrAbsent, RowRecords

\* What a release holds, by the kinds of the constants.
LEMMA ReleaseIs ==
  ASSUME NEW r \in Releases, NEW n \in Names
  PROVE  /\ r.tools[n] # Absent => r.tools[n] \in Contents
         /\ r.instructions \in Texts
<1>1. r.tools[n] \in UNION {{q.tools[m] : m \in Names} : q \in Releases}
  OBVIOUS
<1>2. r.tools[n] # Absent => r.tools[n] \in Contents
  BY <1>1 DEF Contents
<1>3. r.instructions \in {q.instructions : q \in Releases}
  OBVIOUS
<1>4. r.instructions \in Texts
  BY <1>3 DEF Texts
<1> QED BY <1>2, <1>4

\* The fields of a job.
LEMMA JobIs ==
  ASSUME CatTyped, NEW j \in Jobs
  PROVE  /\ job[j] \in JobRecords /\ job[j].pc \in Places /\ job[j].mode \in {"full", "safe"}
         /\ job[j].disturbed \in BOOLEAN /\ job[j].diff \in DiffRecords \union {Absent}
         /\ job[j].seen \in StoredRecords \union {Absent}
BY DEF CatTyped, JobRecords

\* What the invariant says in the words of the properties.
LEMMA CatalogFromInv == CatInv => CatalogTypeOK /\ StampIsTrue /\ ManualDisableKept
<1> SUFFICES ASSUME CatInv PROVE CatalogTypeOK /\ StampIsTrue /\ ManualDisableKept
  OBVIOUS
<1>1. CatalogTypeOK
  <2>1. CatTyped
    BY DEF CatInv
  <2>2. ASSUME NEW j \in Jobs
        PROVE  /\ job[j].pc \in {"idle", "scan", "compare", "stamp", "diff", "read",
                                 "write", "reload"}
               /\ job[j].pc \in {"compare", "stamp", "write"} => job[j].seen # Absent
               /\ job[j].pc \in {"read", "write"} => ~Stops(job[j].diff, job[j].mode)
    <3>1. job[j].pc \in Places /\ JobInv(job[j], rowOf, catalog, edits)
      BY <2>1, JobIs DEF CatInv
    <3>2. Absent \notin StoredRecords
      BY CatalogAssumption
    <3>3. job[j].pc \in {"compare", "stamp", "write"} => job[j].seen # Absent
      BY <3>1, <3>2 DEF JobInv
    <3> QED BY <3>1, <3>3 DEF JobInv, Places
  <2>3. edits = 0 => \A n \in Names : rowOf[n] # Absent => rowOf[n].enabled = ~rowOf[n].deprecated
    BY DEF CatInv, Switches
  <2> QED BY <2>1, <2>2, <2>3 DEF CatalogTypeOK, CatTyped
<1>2. StampIsTrue
  BY DEF CatInv, StampIsTrue, Meets
<1>3. ManualDisableKept
  BY DEF CatInv, ManualDisableKept
<1> QED BY <1>1, <1>2, <1>3

\* What meets a release is near it.
LEMMA MeetsNear == ASSUME NEW rs, NEW r, Meets(rs, r) PROVE Near(rs, r)
BY DEF Meets, Near

\* What a resync makes of the row of a tool.
LEMMA AppliedIs ==
  ASSUME catalog \in Releases, rowOf \in [Names -> RowsOrAbsent], NEW seen \in [Names -> RowsOrAbsent],
         ~ Conflicts(seen), NEW n \in Names, NEW m \in {"full", "safe"}
  PROVE  /\ Applied(seen[n], n, m) \in RowsOrAbsent
         /\ catalog.tools[n] # Absent =>
              /\ \/ Applied(seen[n], n, m) = rowOf[n]
                 \/ Applied(seen[n], n, m) # Absent /\ Applied(seen[n], n, m).content = catalog.tools[n]
              /\ m = "full" => Applied(seen[n], n, m) # Absent /\ Applied(seen[n], n, m).content = catalog.tools[n]
              /\ seen[n] # Absent /\ seen[n].content.endpoint = catalog.tools[n].endpoint =>
                   Applied(seen[n], n, m) # Absent /\ Applied(seen[n], n, m).content = catalog.tools[n]
         /\ catalog.tools[n] = Absent =>
              /\ \/ Applied(seen[n], n, m) = rowOf[n]
                 \/ Applied(seen[n], n, m).deprecated
              /\ m = "full" => \/ Applied(seen[n], n, m) = Absent
                               \/ Applied(seen[n], n, m).deprecated
                               \/ Applied(seen[n], n, m) = rowOf[n] /\ seen[n] # Absent /\ seen[n].deprecated
         /\ (seen[n] # Absent => seen[n].enabled = ~ seen[n].deprecated)
            /\ (rowOf[n] # Absent => rowOf[n].enabled = ~ rowOf[n].deprecated)
            /\ Applied(seen[n], n, m) # Absent
              => Applied(seen[n], n, m).enabled = ~ Applied(seen[n], n, m).deprecated
         /\ seen[n] # Absent /\ ~ seen[n].enabled /\ ~ seen[n].deprecated /\ ~ rowOf[n].enabled =>
              Applied(seen[n], n, m) # Absent /\ ~ Applied(seen[n], n, m).enabled
<1> DEFINE a == Applied(seen[n], n, m)
           c == catalog.tools[n]
           r == seen[n]
           now == rowOf[n]
<1>1. r \in RowsOrAbsent /\ now \in RowsOrAbsent /\ (r = Absent <=> now = Absent)
  BY DEF Conflicts
<1>2. c # Absent => c \in Contents
  BY ReleaseIs
<1>3. Absent \notin RowRecords
  BY CatalogAssumption
<1>4. CASE c # Absent /\ r # Absent /\ m = "safe" /\ r.content.endpoint # c.endpoint
  <2>1. a = now
    BY <1>4 DEF Applied
  <2>2. r \in RowRecords /\ now \in RowRecords
    BY <1>1, <1>4, RowIs
  <2> HIDE DEF a, c, r, now
  <2>3. a \in RowsOrAbsent /\ a # Absent
    BY <1>1, <1>4, <2>1
  <2> QED BY <1>4, <2>1, <2>3 DEF a, c, r, now
<1>5. CASE c # Absent /\ r # Absent /\ ~ (m = "safe" /\ r.content.endpoint # c.endpoint)
  <2>1. a = Touched(r, c)
    BY <1>5 DEF Applied
  <2>2. r \in RowRecords /\ r.enabled \in BOOLEAN /\ r.deprecated \in BOOLEAN
    BY <1>1, <1>5, RowIs
  <2> HIDE DEF a, c, r, now
  <2>3. a = [content |-> c, enabled |-> r.deprecated \/ r.enabled, deprecated |-> FALSE]
    BY <2>1 DEF Touched
  <2>4. (r.deprecated \/ r.enabled) \in BOOLEAN
    BY <2>2
  <2>5. a \in RowRecords /\ a.content = c
    BY <1>2, <1>5, <2>3, <2>4 DEF RowRecords
  <2>6. a.enabled = (r.deprecated \/ r.enabled) /\ a.deprecated = FALSE
    BY <2>3
  <2>7. a # Absent /\ a \in RowsOrAbsent
    BY <1>3, <2>5 DEF RowsOrAbsent
  <2>8. r.enabled = ~ r.deprecated => a.enabled = ~ a.deprecated
    BY <2>2, <2>6
  <2>9. ~ r.enabled /\ ~ r.deprecated => ~ a.enabled
    BY <2>6
  <2> QED BY <1>5, <2>5, <2>7, <2>8, <2>9 DEF a, c, r, now
<1>6. CASE c # Absent /\ r = Absent
  <2>1. a = IF m = "full" THEN Row(c) ELSE now
    BY <1>6 DEF Applied
  <2>2. CASE m = "full"
    <3> HIDE DEF a, c, r, now
    <3>1. a = [content |-> c, enabled |-> TRUE, deprecated |-> FALSE]
      BY <2>1, <2>2 DEF Row
    <3>2. a \in RowRecords /\ a.content = c /\ a.enabled = ~ a.deprecated
      BY <1>2, <1>6, <3>1 DEF RowRecords
    <3>3. a # Absent /\ a \in RowsOrAbsent
      BY <1>3, <3>2 DEF RowsOrAbsent
    <3> QED BY <1>6, <3>2, <3>3 DEF a, c, r, now
  <2>3. CASE m # "full"
    <3>1. a = now
      BY <2>1, <2>3
    <3> HIDE DEF a, c, r, now
    <3>2. a \in RowsOrAbsent
      BY <1>1, <3>1
    <3> QED BY <1>1, <1>6, <2>3, <3>1, <3>2 DEF a, c, r, now
  <2> QED BY <2>2, <2>3
<1>7. CASE c = Absent /\ r # Absent
  <2>1. a = IF m = "full" THEN Left(r, now) ELSE now
    BY <1>7 DEF Applied
  <2>2. r \in RowRecords /\ now \in RowRecords /\ now # Absent
    BY <1>1, <1>7, RowIs
  <2>3. CASE m = "full" /\ ~ r.deprecated
    <3> HIDE DEF a, c, r, now
    <3>1. a = [now EXCEPT !.enabled = FALSE, !.deprecated = TRUE]
      BY <2>1, <2>3 DEF Left
    <3>2. a \in RowRecords /\ a.enabled = FALSE /\ a.deprecated = TRUE
      BY <2>2, <3>1 DEF RowRecords
    <3>3. a # Absent /\ a \in RowsOrAbsent
      BY <1>3, <3>2 DEF RowsOrAbsent
    <3>4. a.deprecated /\ ~ a.enabled /\ a.enabled = ~ a.deprecated
      BY <3>2
    <3> QED BY <1>7, <3>3, <3>4 DEF a, c, r, now
  <2>4. CASE ~ (m = "full" /\ ~ r.deprecated)
    <3>1. a = now /\ (m = "full" => r.deprecated)
      BY <2>1, <2>4 DEF Left
    <3> HIDE DEF a, c, r, now
    <3>2. a \in RowsOrAbsent /\ a # Absent
      BY <1>1, <2>2, <3>1
    <3> QED BY <1>7, <3>1, <3>2 DEF a, c, r, now
  <2> QED BY <2>3, <2>4
<1>8. CASE c = Absent /\ r = Absent
  <2>1. a = now
    BY <1>8 DEF Applied
  <2> HIDE DEF a, c, r, now
  <2>2. a \in RowsOrAbsent /\ a = Absent
    BY <1>1, <1>8, <2>1
  <2> QED BY <1>8, <2>1, <2>2 DEF a, c, r, now
<1> QED BY <1>4, <1>5, <1>6, <1>7, <1>8

\* A resync of the release that runs leaves of the rows what the others rely on.
LEMMA AppliedKeeps ==
  ASSUME catalog \in Releases, rowOf \in [Names -> RowsOrAbsent], NEW seen \in [Names -> RowsOrAbsent],
         ~ Conflicts(seen), NEW m \in {"full", "safe"}, NEW rs,
         rs = [n \in Names |-> Applied(seen[n], n, m)]
  PROVE  /\ rs \in [Names -> RowsOrAbsent]
         /\ Meets(rowOf, catalog) => Meets(rs, catalog)
         /\ Near(rowOf, catalog) => Near(rs, catalog)
         /\ \A was : StillLeft(was, rowOf, catalog) => StillLeft(was, rs, catalog)
         /\ m = "full" /\ StillLeft(seen, rowOf, catalog) => Meets(rs, catalog)
         /\ m = "safe" /\ Near(seen, catalog) /\ Near(rowOf, catalog) => Meets(rs, catalog)
         /\ Switches(seen) /\ Switches(rowOf) => Switches(rs)
<1>1. \A n \in Names :
         /\ rs[n] \in RowsOrAbsent
         /\ catalog.tools[n] # Absent =>
              /\ rs[n] = rowOf[n] \/ (rs[n] # Absent /\ rs[n].content = catalog.tools[n])
              /\ m = "full" => rs[n] # Absent /\ rs[n].content = catalog.tools[n]
              /\ seen[n] # Absent /\ seen[n].content.endpoint = catalog.tools[n].endpoint =>
                   rs[n] # Absent /\ rs[n].content = catalog.tools[n]
         /\ catalog.tools[n] = Absent =>
              /\ rs[n] = rowOf[n] \/ rs[n].deprecated
              /\ m = "full" => \/ rs[n] = Absent \/ rs[n].deprecated
                               \/ rs[n] = rowOf[n] /\ seen[n] # Absent /\ seen[n].deprecated
         /\ (seen[n] # Absent => seen[n].enabled = ~ seen[n].deprecated)
            /\ (rowOf[n] # Absent => rowOf[n].enabled = ~ rowOf[n].deprecated)
            /\ rs[n] # Absent => rs[n].enabled = ~ rs[n].deprecated
  <2> TAKE n \in Names
  <2>1. rs[n] = Applied(seen[n], n, m)
    OBVIOUS
  <2> QED BY <2>1, AppliedIs
<1>2. rs \in [Names -> RowsOrAbsent]
  <2>1. rs = [n \in Names |-> rs[n]]
    OBVIOUS
  <2> QED BY <1>1, <2>1
<1>3. ASSUME Meets(rowOf, catalog) PROVE Meets(rs, catalog)
  BY <1>1, <1>3 DEF Meets
<1>4. ASSUME Near(rowOf, catalog) PROVE Near(rs, catalog)
  BY <1>1, <1>4 DEF Near
<1>5. ASSUME NEW was, StillLeft(was, rowOf, catalog) PROVE StillLeft(was, rs, catalog)
  BY <1>1, <1>5 DEF StillLeft
<1>6. ASSUME m = "full", StillLeft(seen, rowOf, catalog) PROVE Meets(rs, catalog)
  BY <1>1, <1>6 DEF StillLeft, Meets
<1>7. ASSUME m = "safe", Near(seen, catalog), Near(rowOf, catalog) PROVE Meets(rs, catalog)
  BY <1>1, <1>7 DEF Near, Meets
<1>8. ASSUME Switches(seen), Switches(rowOf) PROVE Switches(rs)
  BY <1>1, <1>8 DEF Switches
<1> QED BY <1>2, <1>3, <1>4, <1>5, <1>6, <1>7, <1>8

\* What a request relies on stays when the rows stay or are written by a resync.
LEMMA OthersRely ==
  ASSUME NEW b, NEW rs, NEW new, NEW r, NEW e, JobInv(b, rs, r, e),
         Meets(rs, r) => Meets(new, r), Near(rs, r) => Near(new, r),
         \A was : StillLeft(was, rs, r) => StillLeft(was, new, r)
  PROVE  JobInv(b, new, r, e)
BY DEF JobInv

\* The diff says what differs.
LEMMA DiffIs ==
  ASSUME catalog \in Releases, rowOf \in [Names -> RowsOrAbsent]
  PROVE  /\ Diff \in DiffRecords
         /\ Diff.upToDate => Meets(rowOf, catalog)
         /\ Diff.safe => Near(rowOf, catalog)
<1> DEFINE same == AddedNames \union RemovedNames \union Structural \union Safe = {} /\ ~Refreshable
           few == ~same /\ AddedNames \union RemovedNames \union Structural = {}
<1>1. Diff = [refresh |-> Refreshable, upToDate |-> same, safe |-> few]
  BY DEF Diff
<1>2. Refreshable \in BOOLEAN /\ same \in BOOLEAN /\ few \in BOOLEAN
  BY DEF Refreshable
<1>3. ASSUME same PROVE Meets(rowOf, catalog)
  BY <1>3 DEF Meets, AddedNames, RemovedNames, Structural, Safe, BothNames
<1>4. ASSUME few PROVE Near(rowOf, catalog)
  BY <1>4 DEF Near, AddedNames, RemovedNames, Structural, BothNames
<1> HIDE DEF same, few
<1>5. Diff \in DiffRecords
  BY <1>1, <1>2 DEF DiffRecords
<1>6. Diff.upToDate = same /\ Diff.safe = few
  BY <1>1
<1> QED BY <1>3, <1>4, <1>5, <1>6

\* A step of one request or scan that writes no row.
LEMMA JobMoves ==
  ASSUME CatInv, UNCHANGED <<catalog, rowOf, texts, config, edits, kept, trusted, own>>,
         served' \in [Names -> Contents \union {Absent}],
         NEW j \in Jobs, NEW b \in JobRecords, job' = [job EXCEPT ![j] = b],
         JobInv(b, rowOf, catalog, edits)
  PROVE  CatInv'
<1>1. job \in [Jobs -> JobRecords] /\ CatTyped
  BY DEF CatInv, CatTyped
<1>2. job' \in [Jobs -> JobRecords] /\ \A i \in Jobs : job'[i] = IF i = j THEN b ELSE job[i]
  BY <1>1
<1>3. CatTyped'
  BY <1>1, <1>2 DEF CatTyped
<1>4. \A i \in Jobs : JobInv(job'[i], rowOf, catalog, edits)
  BY <1>2 DEF CatInv
<1> QED BY <1>3, <1>4 DEF CatInv

\* A job that is not under way relies on nothing.
LEMMA IdleRelies == ASSUME NEW rs, NEW r, NEW e PROVE Idle \in JobRecords /\ JobInv(Idle, rs, r, e)
<1>1. Idle \in JobRecords
  BY DEF Idle, JobRecords, Places
<1>2. Idle.pc = "idle"
  BY DEF Idle
<1> QED BY <1>1, <1>2 DEF JobInv

\* The reconciler compares a row with the release.
LEMMA DiffKeeps == ASSUME CatInv, NEW j \in Jobs, ResyncDiff(j) PROVE CatInv'
<1> DEFINE b == [job[j] EXCEPT !.pc = "read", !.diff = Diff]
<1>1. CatTyped /\ catalog \in Releases /\ rowOf \in [Names -> RowsOrAbsent] /\ job \in [Jobs -> JobRecords]
  BY DEF CatInv, CatTyped
<1>2. /\ UNCHANGED <<catalog, rowOf, texts, config, edits, kept, trusted, own>>
      /\ served' \in [Names -> Contents \union {Absent}]
  BY <1>1 DEF ResyncDiff, CatTyped
<1>3. CASE Stops(Diff, job[j].mode)
  <2>1. job' = [job EXCEPT ![j] = Idle]
    BY <1>3 DEF ResyncDiff, Ends
  <2> QED BY <1>2, <2>1, IdleRelies, JobMoves
<1>4. CASE ~ Stops(Diff, job[j].mode)
  <2>1. job' = [job EXCEPT ![j] = b]
    BY <1>1, <1>4 DEF ResyncDiff
  <2>2. Diff \in DiffRecords
    BY <1>1, DiffIs
  <2>3. job[j] \in JobRecords /\ job[j].mode \in {"full", "safe"}
    BY <1>1, JobIs
  <2>4. b \in JobRecords
    BY <2>2, <2>3 DEF JobRecords, Places
  <2>5. b.pc = "read" /\ b.diff = Diff /\ b.mode = job[j].mode
    BY <2>3 DEF JobRecords
  <2> HIDE DEF b
  <2>6. b.mode = "safe" => Near(rowOf, catalog)
    <3>1. b.mode = "safe" => Diff.safe
      BY <1>4, <2>5 DEF Stops
    <3> QED BY <1>1, <3>1, DiffIs
  <2>7. JobInv(b, rowOf, catalog, edits)
    BY <1>4, <2>2, <2>5, <2>6 DEF JobInv
  <2> QED BY <1>2, <2>1, <2>4, <2>7, JobMoves
<1> QED BY <1>3, <1>4

\* What a resync reads is what is stored.
LEMMA StoredIs ==
  ASSUME CatTyped
  PROVE  Stored \in StoredRecords /\ Stored.rows = rowOf /\ Stored.texts = texts /\ Stored.config = config
BY DEF CatTyped, Stored, StoredRecords

\* A resync reads the connector.
LEMMA ReadKeeps == ASSUME CatInv, NEW j \in Jobs, ResyncRead(j) PROVE CatInv'
<1> DEFINE b == [job[j] EXCEPT !.pc = "write", !.seen = Stored]
<1>1. CatTyped /\ catalog \in Releases /\ job \in [Jobs -> JobRecords]
  BY DEF CatInv, CatTyped
<1>2. /\ UNCHANGED <<catalog, rowOf, texts, config, edits, kept, trusted, own>>
      /\ served' \in [Names -> Contents \union {Absent}]
  BY <1>1 DEF ResyncRead, CatTyped
<1>3. job' = [job EXCEPT ![j] = b] /\ job[j].pc = "read"
  BY <1>1 DEF ResyncRead, At
<1>4. job[j] \in JobRecords /\ JobInv(job[j], rowOf, catalog, edits) /\ (edits = 0 => Switches(rowOf))
  BY <1>1, JobIs DEF CatInv
<1>5. Stored \in StoredRecords /\ Stored.rows = rowOf
  BY <1>1, StoredIs
<1>6. b \in JobRecords
  BY <1>4, <1>5 DEF JobRecords, Places
<1>7. b.pc = "write" /\ b.seen = Stored /\ b.diff = job[j].diff /\ b.mode = job[j].mode /\ b.disturbed = job[j].disturbed
  BY <1>4 DEF JobRecords
<1> HIDE DEF b
<1>8. StillLeft(rowOf, rowOf, catalog)
  BY DEF StillLeft
<1>9. JobInv(b, rowOf, catalog, edits)
  BY <1>3, <1>4, <1>5, <1>7, <1>8 DEF JobInv
<1> QED BY <1>2, <1>3, <1>6, <1>9, JobMoves

\* A resync fails or the process stops.
LEMMA FailsKeeps == ASSUME CatInv, NEW j \in Jobs, ResyncFails(j) PROVE CatInv'
<1>1. CatTyped
  BY DEF CatInv
<1>2. /\ UNCHANGED <<catalog, rowOf, texts, config, edits, kept, trusted, own>>
      /\ served' \in [Names -> Contents \union {Absent}]
      /\ job' = [job EXCEPT ![j] = Idle]
  BY <1>1 DEF ResyncFails, CatTyped, Ends
<1> QED BY <1>2, IdleRelies, JobMoves

\* An administrator starts a resync.
LEMMA StartKeeps == ASSUME CatInv, ResyncCatalog PROVE CatInv'
<1> DEFINE b == [Idle EXCEPT !.pc = "diff"]
<1>1. CatTyped
  BY DEF CatInv
<1>2. /\ UNCHANGED <<catalog, rowOf, texts, config, edits, kept, trusted, own>>
      /\ served' \in [Names -> Contents \union {Absent}]
      /\ job' = [job EXCEPT !["admin"] = b] /\ "admin" \in Jobs
  BY <1>1 DEF ResyncCatalog, CatTyped, Jobs
<1>3. Idle \in JobRecords
  BY IdleRelies
<1>4. b \in JobRecords /\ b.pc = "diff"
  BY <1>3 DEF JobRecords, Places
<1> HIDE DEF b
<1>5. JobInv(b, rowOf, catalog, edits)
  BY <1>4 DEF JobInv
<1> QED BY <1>2, <1>4, <1>5, JobMoves

\* What the registry serves of typed rows.
LEMMA ServedTyped ==
  ASSUME NEW rs \in [Names -> RowsOrAbsent]
  PROVE  Served(rs) \in [Names -> Contents \union {Absent}]
<1>1. \A n \in Names : rs[n] # Absent => rs[n].content \in Contents
  BY RowIs
<1> QED BY <1>1 DEF Served

\* The tools are registered again.
LEMMA ReloadKeeps == ASSUME CatInv, ResyncReload PROVE CatInv'
<1>1. rowOf \in [Names -> RowsOrAbsent]
  BY DEF CatInv, CatTyped
<1>2. /\ UNCHANGED <<catalog, rowOf, texts, config, edits, kept, trusted, own>>
      /\ job' = [job EXCEPT !["admin"] = Idle] /\ "admin" \in Jobs
  BY DEF ResyncReload, Ends, Jobs
<1>3. served' \in [Names -> Contents \union {Absent}]
  BY <1>1, ServedTyped DEF ResyncReload
<1> QED BY <1>2, <1>3, IdleRelies, JobMoves

\* The transaction of a resync is committed.
LEMMA WriteKeeps == ASSUME CatInv, NEW j \in Jobs, ResyncWrite(j) PROVE CatInv'
<1> DEFINE s == job[j].seen
           m == job[j].mode
           b == [job[j] EXCEPT !.pc = "reload"]
<1>1. /\ CatTyped /\ catalog \in Releases /\ rowOf \in [Names -> RowsOrAbsent] /\ config \in Configs
      /\ kept \subseteq Names /\ job \in [Jobs -> JobRecords] /\ own \in BOOLEAN
  BY DEF CatInv, CatTyped
<1>2. /\ job[j].pc = "write" /\ ~ Conflicts(s.rows)
      /\ rowOf' = [n \in Names |-> Applied(s.rows[n], n, m)]
      /\ texts' = IF job[j].diff.refresh THEN catalog.instructions ELSE s.texts
      /\ config' = [baseline |-> texts',
                    version  |-> IF m = "full" \/ job[j].diff.safe THEN catalog ELSE s.config.version]
      /\ trusted' = ~job[j].disturbed
      /\ kept' = {n \in kept : /\ s.rows[n] # Absent /\ ~s.rows[n].enabled
                               /\ ~s.rows[n].deprecated /\ ~rowOf'[n].deprecated}
      /\ own' = (own /\ s.texts = OwnText)
      /\ UNCHANGED <<catalog, served, deploys, edits, syncFaults>>
  BY DEF ResyncWrite, At
<1>3. job' = [job EXCEPT ![j] = b] \/ job' = [job EXCEPT ![j] = Idle]
  BY <1>1 DEF ResyncWrite, Ends
<1>4. JobInv(job[j], rowOf, catalog, edits) /\ job[j] \in JobRecords /\ m \in {"full", "safe"}
      /\ job[j].disturbed \in BOOLEAN
  BY <1>1, JobIs DEF CatInv
<1>5. s \in StoredRecords /\ job[j].diff \in DiffRecords /\ ~ Stops(job[j].diff, m)
  BY <1>2, <1>4 DEF JobInv
<1>6. s.rows \in [Names -> RowsOrAbsent] /\ s.texts \in Texts /\ s.config \in Configs
  BY <1>5 DEF StoredRecords
<1>7. /\ rowOf' \in [Names -> RowsOrAbsent]
      /\ Meets(rowOf, catalog) => Meets(rowOf', catalog)
      /\ Near(rowOf, catalog) => Near(rowOf', catalog)
      /\ \A was : StillLeft(was, rowOf, catalog) => StillLeft(was, rowOf', catalog)
      /\ m = "full" /\ StillLeft(s.rows, rowOf, catalog) => Meets(rowOf', catalog)
      /\ m = "safe" /\ Near(s.rows, catalog) /\ Near(rowOf, catalog) => Meets(rowOf', catalog)
      /\ Switches(s.rows) /\ Switches(rowOf) => Switches(rowOf')
  <2> HIDE DEF s, m
  <2> QED BY <1>1, <1>2, <1>4, <1>6, AppliedKeeps DEF m
<1>8. texts' \in Texts
  <2>1. catalog.instructions \in Texts
    BY <1>1 DEF Texts
  <2> QED BY <1>2, <1>6, <2>1
<1>9. config' \in Configs /\ config'.version = catalog
  <2>1. m = "full" \/ job[j].diff.safe
    BY <1>4, <1>5 DEF Stops
  <2>2. config' = [baseline |-> texts', version |-> catalog]
    BY <1>2, <2>1
  <2> QED BY <1>1, <1>8, <2>2 DEF Configs
<1>10. b \in JobRecords /\ b.pc = "reload"
  BY <1>4 DEF JobRecords, Places
<1> HIDE DEF b
<1>11. \E q \in JobRecords : /\ q = b \/ q = Idle
                             /\ job' = [job EXCEPT ![j] = q]
  BY <1>3, <1>10, IdleRelies
<1>12. PICK q \in JobRecords : (q = b \/ q = Idle) /\ job' = [job EXCEPT ![j] = q]
  BY <1>11
<1>13. job' \in [Jobs -> JobRecords] /\ \A i \in Jobs : job'[i] = IF i = j THEN q ELSE job[i]
  BY <1>1, <1>12
<1>14. JobInv(q, rowOf', catalog, edits)
  <2>1. JobInv(b, rowOf', catalog, edits)
    BY <1>10 DEF JobInv
  <2> QED BY <1>12, <2>1, IdleRelies
<1>15. \A i \in Jobs : JobInv(job'[i], rowOf', catalog, edits)
  <2> TAKE i \in Jobs
  <2>1. CASE i = j
    BY <1>13, <1>14, <2>1
  <2>2. CASE i # j
    <3>1. job'[i] = job[i] /\ JobInv(job[i], rowOf, catalog, edits)
      BY <1>13, <2>2 DEF CatInv
    <3>2. JobInv(job[i], rowOf', catalog, edits)
      BY <1>7, <3>1, OthersRely
    <3> QED BY <3>1, <3>2
  <2> QED BY <2>1, <2>2
<1>16. edits = 0 => Switches(rowOf')
  <2>1. edits = 0 => Switches(s.rows) /\ Switches(rowOf)
    BY <1>2, <1>4 DEF JobInv, CatInv
  <2> QED BY <1>7, <2>1
<1>17. ~ job[j].disturbed => Meets(rowOf', catalog)
  <2>1. CASE job[j].disturbed
    BY <2>1
  <2>2. CASE ~ job[j].disturbed
    <3>1. /\ StillLeft(s.rows, rowOf, catalog)
          /\ m = "safe" => Near(s.rows, catalog) /\ Near(rowOf, catalog)
      BY <1>2, <1>4, <2>2 DEF JobInv
    <3> QED BY <1>4, <1>7, <3>1
  <2> QED BY <2>1, <2>2
<1>18. ASSUME NEW n \in kept' PROVE rowOf'[n] # Absent /\ ~ rowOf'[n].enabled
  <2>1. n \in kept /\ n \in Names /\ s.rows[n] # Absent /\ ~s.rows[n].enabled /\ ~s.rows[n].deprecated
    BY <1>1, <1>2
  <2>2. ~ rowOf[n].enabled
    BY <2>1 DEF CatInv
  <2>3. rowOf'[n] = Applied(s.rows[n], n, m)
    BY <1>2, <2>1
  <2> HIDE DEF s, m
  <2> QED BY <1>1, <1>2, <1>4, <1>6, <2>1, <2>2, <2>3, AppliedIs DEF m
<1>19. CatTyped'
  <2>1. trusted' \in BOOLEAN /\ own' \in BOOLEAN
    <3>1. trusted' \in BOOLEAN
      BY <1>2
    <3>2. own' \in BOOLEAN
      BY <1>2
    <3> QED BY <3>1, <3>2
  <2>2. kept' \subseteq Names
    BY <1>1, <1>2
  <2> QED BY <1>1, <1>2, <1>7, <1>8, <1>9, <1>13, <2>1, <2>2 DEF CatTyped
<1>20. trusted' => Meets(rowOf', config'.version)
  BY <1>2, <1>9, <1>17
<1> QED BY <1>2, <1>15, <1>16, <1>18, <1>19, <1>20 DEF CatInv

\* The scan at start.
LEMMA ScanKeeps == ASSUME CatInv, Scan PROVE CatInv'
<1> DEFINE b == [job["boot"] EXCEPT !.pc = "compare", !.seen = Stored]
<1>0. "boot" \in Jobs
  BY DEF Jobs
<1>1. CatTyped /\ job \in [Jobs -> JobRecords]
  BY DEF CatInv, CatTyped
<1>2. /\ UNCHANGED <<catalog, rowOf, texts, config, edits, kept, trusted, own>>
      /\ served' \in [Names -> Contents \union {Absent}]
  BY <1>1 DEF Scan, CatTyped
<1>3. job' = [job EXCEPT !["boot"] = b] \/ job' = [job EXCEPT !["boot"] = Idle]
  BY <1>0, <1>1 DEF Scan, Ends
<1>4. job["boot"] \in JobRecords /\ Stored \in StoredRecords
  BY <1>0, <1>1, JobIs, StoredIs
<1>5. b \in JobRecords /\ b.pc = "compare" /\ b.seen = Stored
  BY <1>4 DEF JobRecords, Places
<1> HIDE DEF b
<1>6. JobInv(b, rowOf, catalog, edits)
  BY <1>4, <1>5 DEF JobInv
<1> QED BY <1>0, <1>2, <1>3, <1>5, <1>6, IdleRelies, JobMoves

\* The reconciler compares the versions.
LEMMA CompareKeeps == ASSUME CatInv, Compare PROVE CatInv'
<1> DEFINE g == job["boot"]
           b == [g EXCEPT !.pc = "stamp"]
           d == [g EXCEPT !.pc = "diff", !.mode = "safe", !.seen = Absent]
<1>0. "boot" \in Jobs
  BY DEF Jobs
<1>1. CatTyped /\ job \in [Jobs -> JobRecords] /\ catalog \in Releases /\ rowOf \in [Names -> RowsOrAbsent]
  BY DEF CatInv, CatTyped
<1>2. /\ UNCHANGED <<catalog, rowOf, texts, config, edits, kept, trusted, own>>
      /\ served' \in [Names -> Contents \union {Absent}]
  BY <1>1 DEF Compare, CatTyped
<1>3. \/ Diff.upToDate /\ job' = [job EXCEPT !["boot"] = b]
      \/ job' = [job EXCEPT !["boot"] = d]
      \/ job' = [job EXCEPT !["boot"] = Idle]
  <2>1. job' = [job EXCEPT !["boot"] =
                  IF Diff.upToDate THEN b ELSE IF Diff.safe THEN d ELSE Idle]
    BY <1>0, <1>1 DEF Compare
  <2> HIDE DEF b, d
  <2>2. CASE Diff.upToDate
    BY <2>1, <2>2
  <2>3. CASE ~ Diff.upToDate /\ Diff.safe
    BY <2>1, <2>3
  <2>4. CASE ~ Diff.upToDate /\ ~ Diff.safe
    BY <2>1, <2>4
  <2> QED BY <2>2, <2>3, <2>4
<1>4. g \in JobRecords /\ JobInv(g, rowOf, catalog, edits) /\ g.pc = "compare"
  BY <1>0, <1>1, JobIs DEF CatInv, Compare, At
<1> HIDE DEF g
<1>5. g.seen \in StoredRecords
  BY <1>4 DEF JobInv
<1>6. b \in JobRecords /\ b.pc = "stamp" /\ b.seen = g.seen /\ d \in JobRecords /\ d.pc = "diff"
  BY <1>4 DEF JobRecords, Places
<1> HIDE DEF b, d
<1>7. Diff.upToDate => Meets(rowOf, catalog)
  BY <1>1, DiffIs
<1>8. Diff.upToDate => JobInv(b, rowOf, catalog, edits)
  BY <1>5, <1>6, <1>7 DEF JobInv
<1>9. JobInv(d, rowOf, catalog, edits)
  BY <1>6 DEF JobInv
<1> QED BY <1>0, <1>2, <1>3, <1>6, <1>8, <1>9, IdleRelies, JobMoves

\* The stamp is written with the config that was read.
LEMMA StampKeeps == ASSUME CatInv, StampVersion PROVE CatInv'
<1> DEFINE g == job["boot"]
<1>0. "boot" \in Jobs
  BY DEF Jobs
<1>1. CatTyped /\ job \in [Jobs -> JobRecords] /\ catalog \in Releases
  BY DEF CatInv, CatTyped
<1>2. g \in JobRecords /\ JobInv(g, rowOf, catalog, edits) /\ g.pc = "stamp" /\ g.disturbed \in BOOLEAN
  BY <1>0, <1>1, JobIs DEF CatInv, StampVersion, At
<1>3. /\ config' = [g.seen.config EXCEPT !.version = catalog]
      /\ trusted' = ~ g.disturbed /\ job' = [job EXCEPT !["boot"] = Idle]
      /\ UNCHANGED <<catalog, rowOf, texts, served, deploys, edits, syncFaults, kept, own>>
  BY DEF StampVersion, Ends
<1> HIDE DEF g
<1>4. g.seen \in StoredRecords /\ (~ g.disturbed => Meets(rowOf, catalog))
  BY <1>2 DEF JobInv
<1>5. g.seen.config \in Configs
  BY <1>4 DEF StoredRecords
<1>6. config' \in Configs /\ config'.version = catalog
  BY <1>1, <1>3, <1>5 DEF Configs
<1>7. trusted' \in BOOLEAN /\ (trusted' => Meets(rowOf, config'.version))
  BY <1>2, <1>3, <1>4, <1>6
<1>8. job' \in [Jobs -> JobRecords] /\ \A i \in Jobs : job'[i] = IF i = "boot" THEN Idle ELSE job[i]
  BY <1>1, <1>3, IdleRelies
<1>9. CatTyped'
  BY <1>1, <1>3, <1>6, <1>7, <1>8 DEF CatTyped
<1>10. \A i \in Jobs : JobInv(job'[i], rowOf, catalog, edits)
  <2> TAKE i \in Jobs
  <2>1. CASE i = "boot"
    BY <1>8, <2>1, IdleRelies
  <2>2. CASE i # "boot"
    BY <1>8, <2>2 DEF CatInv
  <2> QED BY <2>1, <2>2
<1> QED BY <1>3, <1>7, <1>9, <1>10 DEF CatInv

\* An edit disturbs the requests and the scan.
LEMMA EditIs ==
  ASSUME CatInv, Edit, NEW rs
  PROVE  /\ job' \in [Jobs -> JobRecords] /\ edits' \in Nat /\ edits' # 0 /\ trusted' = FALSE
         /\ UNCHANGED <<catalog, config>>
         /\ \A j \in Jobs : JobInv(job'[j], rs, catalog, edits')
<1>1. CatTyped /\ edits \in Nat
  BY DEF CatInv, CatTyped
<1>2. /\ edits' = edits + 1 /\ trusted' = FALSE /\ UNCHANGED <<catalog, config>>
      /\ job' = [j \in Jobs |-> IF At(j, "idle") THEN job[j] ELSE [job[j] EXCEPT !.disturbed = TRUE]]
  BY DEF Edit
<1>3. edits' \in Nat /\ edits' # 0
  BY <1>1, <1>2
<1>4. ASSUME NEW j \in Jobs PROVE job'[j] \in JobRecords /\ JobInv(job'[j], rs, catalog, edits')
  <2>1. job[j] \in JobRecords /\ JobInv(job[j], rowOf, catalog, edits)
    BY <1>1, JobIs DEF CatInv
  <2>2. CASE At(j, "idle")
    <3>1. job'[j] = job[j] /\ job[j].pc = "idle"
      BY <1>2, <2>2 DEF At
    <3> QED BY <2>1, <3>1 DEF JobInv
  <2>3. CASE ~ At(j, "idle")
    <3> DEFINE b == [job[j] EXCEPT !.disturbed = TRUE]
    <3>1. job'[j] = b
      BY <1>2, <2>3
    <3>2. b \in JobRecords /\ b.pc = job[j].pc /\ b.seen = job[j].seen /\ b.diff = job[j].diff
          /\ b.mode = job[j].mode /\ b.disturbed = TRUE
      BY <2>1 DEF JobRecords
    <3> HIDE DEF b
    <3>3. b.disturbed
      BY <3>2
    <3> QED BY <1>3, <2>1, <3>1, <3>2, <3>3 DEF JobInv
  <2> QED BY <2>2, <2>3
<1>5. job' = [j \in Jobs |-> job'[j]]
  BY <1>2
<1>6. job' \in [Jobs -> JobRecords]
  BY <1>4, <1>5
<1> QED BY <1>2, <1>3, <1>4, <1>6

\* The operator switches a tool.
LEMMA EditToolKeeps == ASSUME CatInv, NEW n \in Names, EditTool(n) PROVE CatInv'
<1>1. /\ CatTyped /\ rowOf \in [Names -> RowsOrAbsent] /\ kept \subseteq Names
      /\ \A k \in kept : rowOf[k] # Absent /\ ~ rowOf[k].enabled
  BY DEF CatInv, CatTyped
<1>2. Edit /\ rowOf[n] # Absent /\ UNCHANGED <<texts, own>> /\ served' = Served(rowOf')
  BY DEF EditTool
<1>3. /\ job' \in [Jobs -> JobRecords] /\ edits' \in Nat /\ edits' # 0 /\ trusted' = FALSE
      /\ UNCHANGED <<catalog, config>>
      /\ \A j \in Jobs : JobInv(job'[j], rowOf', catalog, edits')
  BY <1>2, EditIs
<1>4. rowOf[n] \in RowRecords /\ rowOf[n].enabled \in BOOLEAN /\ Absent \notin RowRecords
  BY <1>1, <1>2, RowIs, CatalogAssumption
<1>5. /\ rowOf' \in [Names -> RowsOrAbsent] /\ kept' \subseteq Names
      /\ \A k \in kept' : rowOf'[k] # Absent /\ ~ rowOf'[k].enabled
  <2>1. ASSUME NEW c \in Contents, rowOf' = [rowOf EXCEPT ![n].content = c], UNCHANGED kept
        PROVE  /\ rowOf' \in [Names -> RowsOrAbsent] /\ kept' \subseteq Names
               /\ \A k \in kept' : rowOf'[k] # Absent /\ ~ rowOf'[k].enabled
    <3> DEFINE r == [rowOf[n] EXCEPT !.content = c]
    <3>1. r \in RowRecords /\ r.enabled = rowOf[n].enabled
      BY <1>4 DEF RowRecords
    <3>2. rowOf' = [rowOf EXCEPT ![n] = r]
      BY <1>1, <2>1
    <3> HIDE DEF r
    <3>3. r # Absent /\ r \in RowsOrAbsent
      BY <1>4, <3>1 DEF RowsOrAbsent
    <3>4. \A k \in Names : rowOf'[k] = IF k = n THEN r ELSE rowOf[k]
      BY <1>1, <3>2
    <3>5. rowOf' \in [Names -> RowsOrAbsent]
      BY <1>1, <3>2, <3>3
    <3>6. ASSUME NEW k \in kept PROVE rowOf'[k] # Absent /\ ~ rowOf'[k].enabled
      <4>1. CASE k = n
        BY <1>1, <3>1, <3>3, <3>4, <4>1
      <4>2. CASE k # n
        BY <1>1, <3>4, <4>2
      <4> QED BY <4>1, <4>2
    <3> QED BY <1>1, <2>1, <3>5, <3>6
  <2>2. ASSUME rowOf' = [rowOf EXCEPT ![n].enabled = ~@],
               kept' = IF rowOf[n].enabled THEN kept \union {n} ELSE kept \ {n}
        PROVE  /\ rowOf' \in [Names -> RowsOrAbsent] /\ kept' \subseteq Names
               /\ \A k \in kept' : rowOf'[k] # Absent /\ ~ rowOf'[k].enabled
    <3> DEFINE on == ~ rowOf[n].enabled
               r == [rowOf[n] EXCEPT !.enabled = on]
    <3>1. on \in BOOLEAN /\ (on <=> ~ rowOf[n].enabled)
      BY <1>4
    <3>2. rowOf' = [rowOf EXCEPT ![n] = r]
      BY <1>1, <2>2
    <3> HIDE DEF on
    <3>3. r \in RowRecords /\ r.enabled = on
      BY <1>4, <3>1 DEF RowRecords
    <3> HIDE DEF r
    <3>4. r # Absent /\ r \in RowsOrAbsent
      BY <1>4, <3>3 DEF RowsOrAbsent
    <3>5. \A k \in Names : rowOf'[k] = IF k = n THEN r ELSE rowOf[k]
      BY <1>1, <3>2
    <3>6. rowOf' \in [Names -> RowsOrAbsent]
      BY <1>1, <3>2, <3>4
    <3>7. kept' \subseteq Names
      BY <1>1, <2>2
    <3>8. ASSUME NEW k \in kept' PROVE rowOf'[k] # Absent /\ ~ rowOf'[k].enabled
      <4>1. CASE k = n
        <5>1. rowOf[n].enabled
          BY <2>2, <3>8, <4>1
        <5>2. ~ r.enabled
          BY <3>1, <3>3, <5>1
        <5> QED BY <3>4, <3>5, <4>1, <5>2
      <4>2. CASE k # n
        BY <1>1, <2>2, <3>5, <3>8, <4>2
      <4> QED BY <4>1, <4>2
    <3> QED BY <3>6, <3>7, <3>8
  <2> QED BY <2>1, <2>2 DEF EditTool
<1>6. served' \in [Names -> Contents \union {Absent}]
  BY <1>2, <1>5, ServedTyped
<1>7. CatTyped'
  BY <1>1, <1>2, <1>3, <1>5, <1>6 DEF CatTyped
<1> QED BY <1>3, <1>5, <1>7 DEF CatInv

\* The operator deletes a tool.
LEMMA DeleteToolKeeps == ASSUME CatInv, NEW n \in Names, DeleteTool(n) PROVE CatInv'
<1>1. /\ CatTyped /\ rowOf \in [Names -> RowsOrAbsent] /\ kept \subseteq Names
      /\ \A k \in kept : rowOf[k] # Absent /\ ~ rowOf[k].enabled
  BY DEF CatInv, CatTyped
<1>2. /\ Edit /\ UNCHANGED <<texts, own>> /\ served' = Served(rowOf')
      /\ rowOf' = [rowOf EXCEPT ![n] = Absent] /\ kept' = kept \ {n}
  BY DEF DeleteTool
<1>3. /\ job' \in [Jobs -> JobRecords] /\ edits' \in Nat /\ edits' # 0 /\ trusted' = FALSE
      /\ UNCHANGED <<catalog, config>>
      /\ \A j \in Jobs : JobInv(job'[j], rowOf', catalog, edits')
  BY <1>2, EditIs
<1>4. rowOf' \in [Names -> RowsOrAbsent] /\ \A k \in Names : k # n => rowOf'[k] = rowOf[k]
  BY <1>1, <1>2 DEF RowsOrAbsent
<1>5. kept' \subseteq Names /\ \A k \in kept' : rowOf'[k] # Absent /\ ~ rowOf'[k].enabled
  BY <1>1, <1>2, <1>4
<1>6. served' \in [Names -> Contents \union {Absent}]
  BY <1>2, <1>4, ServedTyped
<1>7. CatTyped'
  BY <1>1, <1>2, <1>3, <1>4, <1>5, <1>6 DEF CatTyped
<1> QED BY <1>3, <1>5, <1>7 DEF CatInv

\* The operator edits the instructions.
LEMMA EditInstructionsKeeps == ASSUME CatInv, EditInstructions PROVE CatInv'
<1>1. /\ CatTyped /\ own \in BOOLEAN
      /\ \A k \in kept : rowOf[k] # Absent /\ ~ rowOf[k].enabled
  BY DEF CatInv, CatTyped
<1>2. Edit /\ UNCHANGED <<rowOf, served, kept>> /\ texts' = OwnText
      /\ own' = (own \/ \A j \in Jobs : At(j, "idle"))
  BY DEF EditInstructions
<1>3. /\ job' \in [Jobs -> JobRecords] /\ edits' \in Nat /\ edits' # 0 /\ trusted' = FALSE
      /\ UNCHANGED <<catalog, config>>
      /\ \A j \in Jobs : JobInv(job'[j], rowOf', catalog, edits')
  BY <1>2, EditIs
<1>4. texts' \in Texts /\ own' \in BOOLEAN
  <2>1. texts' \in Texts
    BY <1>2 DEF Texts
  <2>2. own' \in BOOLEAN
    BY <1>1, <1>2
  <2> QED BY <2>1, <2>2
<1>5. CatTyped'
  BY <1>1, <1>2, <1>3, <1>4 DEF CatTyped
<1> QED BY <1>1, <1>2, <1>3, <1>5 DEF CatInv

\* The process starts again, with another release.
LEMMA DeployKeeps == ASSUME CatInv, Deploy PROVE CatInv'
<1> DEFINE b == [Idle EXCEPT !.pc = "scan"]
<1>1. CatTyped /\ rowOf \in [Names -> RowsOrAbsent]
  BY DEF CatInv, CatTyped
<1>2. /\ catalog' \in Releases /\ served' = Served(rowOf)
      /\ job' = [j \in Jobs |-> IF j = "boot" THEN b ELSE Idle]
      /\ UNCHANGED <<rowOf, texts, config, edits, syncFaults, kept, trusted, own>>
  BY DEF Deploy
<1>3. Idle \in JobRecords
  BY IdleRelies
<1>4. b \in JobRecords /\ b.pc = "scan"
  BY <1>3 DEF JobRecords, Places
<1> HIDE DEF b
<1>5. JobInv(b, rowOf', catalog', edits')
  BY <1>4 DEF JobInv
<1>6. \A j \in Jobs : job'[j] \in JobRecords /\ JobInv(job'[j], rowOf', catalog', edits')
  BY <1>2, <1>4, <1>5, IdleRelies
<1>7. job' \in [Jobs -> JobRecords]
  BY <1>2, <1>3, <1>4
<1>8. served' \in [Names -> Contents \union {Absent}]
  BY <1>1, <1>2, ServedTyped
<1>9. CatTyped'
  BY <1>1, <1>2, <1>7, <1>8 DEF CatTyped
<1> QED BY <1>2, <1>6, <1>9 DEF CatInv

\* The connector has been installed.
LEMMA CatInvInit == ASSUME CatalogInit PROVE CatInv
<1>1. PICK made \in SUBSET {n \in Names : catalog.tools[n] # Absent} : Install(made)
  BY DEF CatalogInit
<1>2. /\ catalog \in Releases /\ served = Served(rowOf) /\ job = [j \in Jobs |-> Idle]
      /\ edits = 0 /\ kept = {} /\ own = FALSE
  BY DEF CatalogInit
<1>3. /\ rowOf = [n \in Names |-> IF n \in made THEN Row(catalog.tools[n]) ELSE Absent]
      /\ texts = catalog.instructions
      /\ config = [baseline |-> catalog.instructions, version |-> catalog]
      /\ trusted = (made = {n \in Names : catalog.tools[n] # Absent})
  BY <1>1 DEF Install
<1>4. ASSUME NEW n \in made
      PROVE  /\ Row(catalog.tools[n]) \in RowRecords /\ Row(catalog.tools[n]) # Absent
             /\ Row(catalog.tools[n]).content = catalog.tools[n]
             /\ Row(catalog.tools[n]).enabled = TRUE /\ Row(catalog.tools[n]).deprecated = FALSE
  <2>1. n \in Names /\ catalog.tools[n] \in Contents
    BY <1>1, <1>2, ReleaseIs
  <2>2. Row(catalog.tools[n]) \in RowRecords
    BY <2>1 DEF Row, RowRecords
  <2>3. Row(catalog.tools[n]) # Absent
    BY <2>2, CatalogAssumption
  <2> QED BY <2>2, <2>3 DEF Row
<1>5. \A n \in Names : rowOf[n] = IF n \in made THEN Row(catalog.tools[n]) ELSE Absent
  BY <1>3
<1>6. rowOf \in [Names -> RowsOrAbsent]
  BY <1>3, <1>4 DEF RowsOrAbsent
<1>7. Switches(rowOf)
  <2> SUFFICES ASSUME NEW n \in Names, rowOf[n] # Absent PROVE rowOf[n].enabled = ~ rowOf[n].deprecated
    BY DEF Switches
  <2>1. n \in made
    BY <1>5
  <2> QED BY <1>4, <1>5, <2>1
<1>8. trusted => Meets(rowOf, config.version)
  <2> SUFFICES ASSUME trusted PROVE Meets(rowOf, config.version)
    OBVIOUS
  <2>1. config.version = catalog
    BY <1>3
  <2>2. made = {n \in Names : catalog.tools[n] # Absent}
    BY <1>3
  <2>3. \A n \in Names : IF catalog.tools[n] # Absent THEN rowOf[n] # Absent /\ rowOf[n].content = catalog.tools[n]
                         ELSE rowOf[n] = Absent
    BY <1>4, <1>5, <2>2
  <2> QED BY <2>1, <2>3 DEF Meets
<1>9. CatTyped
  <2>1. texts \in Texts
    BY <1>2, <1>3 DEF Texts
  <2>2. config \in Configs
    BY <1>2, <1>3, <2>1 DEF Configs
  <2>3. served \in [Names -> Contents \union {Absent}]
    BY <1>2, <1>6, ServedTyped
  <2>4. job \in [Jobs -> JobRecords]
    BY <1>2, IdleRelies
  <2>5. trusted \in BOOLEAN
    BY <1>3
  <2> QED BY <1>2, <1>6, <2>1, <2>2, <2>3, <2>4, <2>5 DEF CatTyped
<1>10. \A j \in Jobs : JobInv(job[j], rowOf, catalog, edits)
  BY <1>2, IdleRelies
<1> QED BY <1>2, <1>7, <1>8, <1>9, <1>10 DEF CatInv

\* Every step keeps the invariant.
LEMMA CatInvStep == ASSUME CatInv, [CatalogNext]_catalogVars PROVE CatInv'
<1>1. CASE UNCHANGED catalogVars
  <2>1. UNCHANGED <<catalog, rowOf, texts, config, served, job, edits, kept, trusted, own>>
    BY <1>1 DEF catalogVars
  <2>2. CatTyped'
    BY <2>1 DEF CatInv, CatTyped
  <2> QED BY <2>1, <2>2 DEF CatInv
<1>2. CASE CatalogNext
  BY <1>2, DiffKeeps, ReadKeeps, WriteKeeps, FailsKeeps, StartKeeps, ReloadKeeps, ScanKeeps,
     CompareKeeps, StampKeeps, EditToolKeeps, DeleteToolKeeps, EditInstructionsKeeps, DeployKeeps
  DEF CatalogNext
<1> QED BY <1>1, <1>2

-----------------------------------------------------------------------------
(* The documents.                                                          *)

ToolTables == [RowIds -> StoredTools \union {NoRow}]
ImportRecords == [pc : {"idle", "read", "merge", "done", "failed"}, spec : Specs \union {<<>>},
                  k : Nat, snap : ToolTables, matched : SUBSET RowIds, disturbed : BOOLEAN]

ImportTyped ==
  /\ tools \in ToolTables
  /\ \A r \in Present(tools) : \A q \in Others(r) : tools[q].name # tools[r].name
  /\ offered \in SUBSET RowIds /\ imp \in [Imports -> ImportRecords]
  /\ \A i \in Imports : imp[i].k \in 1..Len(imp[i].spec) + 1
  /\ touches \in 0..MaxTouches /\ imports \in 0..MaxImports

\* What the types of the imports say in the words of the property.
LEMMA ImportTypeFromTyped == ImportTyped => ImportTypeOK
<1> SUFFICES ASSUME ImportTyped PROVE ImportTypeOK
  OBVIOUS
<1>1. \A r \in Present(tools) : tools[r] \in StoredTools
  BY DEF ImportTyped, ToolTables, Present
<1>2. ASSUME NEW i \in Imports
      PROVE  imp[i].pc \in {"idle", "read", "merge", "done", "failed"} /\ imp[i].matched \subseteq RowIds
  BY DEF ImportTyped, ImportRecords
<1> QED BY <1>1, <1>2 DEF ImportTyped, ImportTypeOK

\* A tool of a document.
LEMMA ParsedIs ==
  ASSUME NEW spec \in Specs \union {<<>>}
  PROVE  /\ Len(spec) \in Nat /\ DOMAIN spec = 1..Len(spec)
         /\ \A k \in DOMAIN spec : /\ spec[k].name \in ToolNames /\ spec[k].endpoint \in Endpoints
                                   /\ spec[k].op \in Operations
<1>1. spec \in Seq(ParsedTools)
  <2>1. CASE spec \in Specs
    BY <2>1, ImportAssumption
  <2>2. CASE spec = <<>>
    BY <2>2
  <2> QED BY <2>1, <2>2
<1>2. \A k \in DOMAIN spec : spec[k] \in KnownTools
  BY <1>1 DEF KnownTools
<1> QED BY <1>1, <1>2 DEF ToolNames, Endpoints, Operations

\* An import that is not under way, and one that starts.
LEMMA NoImportTyped ==
  /\ NoImport \in ImportRecords /\ NoImport.pc = "idle" /\ NoImport.k = 1 /\ NoImport.matched = {}
  /\ \A spec \in Specs : /\ [NoImport EXCEPT !.pc = "read", !.spec = spec] \in ImportRecords
                         /\ [NoImport EXCEPT !.pc = "read", !.spec = spec].k = 1
                         /\ [NoImport EXCEPT !.pc = "read", !.spec = spec].matched = {}
                         /\ [NoImport EXCEPT !.pc = "read", !.spec = spec].pc = "read"
                         /\ [NoImport EXCEPT !.pc = "read", !.spec = spec].spec = spec
  /\ 1 \in 1..Len(NoImport.spec) + 1
<1>1. [r \in RowIds |-> NoRow] \in ToolTables
  BY DEF ToolTables
<1>2. NoImport \in ImportRecords
  BY <1>1 DEF NoImport, ImportRecords
<1>3. Len(NoImport.spec) = 0
  BY DEF NoImport
<1>4. NoImport.pc = "idle" /\ NoImport.k = 1 /\ NoImport.matched = {}
  BY DEF NoImport
<1>5. ASSUME NEW spec \in Specs, NEW y, y = [NoImport EXCEPT !.pc = "read", !.spec = spec]
      PROVE  y \in ImportRecords /\ y.k = 1 /\ y.matched = {} /\ y.pc = "read" /\ y.spec = spec
  <2> HIDE DEF NoImport
  <2> QED BY <1>2, <1>4, <1>5 DEF ImportRecords
<1>6. 1 \in 1..Len(NoImport.spec) + 1
  BY <1>3
<1> QED BY <1>2, <1>4, <1>5, <1>6

\* What a write of one import does to another one under way.
Aside(x, y) ==
  /\ y \in ImportRecords /\ y.pc = x.pc /\ y.spec = x.spec /\ y.k = x.k /\ y.snap = x.snap
  /\ y.matched = x.matched /\ (y.disturbed <=> x.disturbed \/ x.pc # "idle")

\* Written disturbs the others so.
LEMMA AsideIs ==
  ASSUME NEW x \in ImportRecords
  PROVE  Aside(x, [x EXCEPT !.disturbed = @ \/ x.pc # "idle"])
<1> DEFINE b == x.disturbed \/ x.pc # "idle"
           y == [x EXCEPT !.disturbed = b]
<1>1. [x EXCEPT !.disturbed = @ \/ x.pc # "idle"] = y
  OBVIOUS
<1>2. b \in BOOLEAN
  OBVIOUS
<1> HIDE DEF b
<1>3. /\ y \in ImportRecords /\ y.pc = x.pc /\ y.spec = x.spec /\ y.k = x.k /\ y.snap = x.snap
      /\ y.matched = x.matched /\ y.disturbed = b
  BY <1>2 DEF ImportRecords
<1> HIDE DEF y
<1>4. y.disturbed <=> b
  BY <1>3
<1> QED BY <1>1, <1>3, <1>4 DEF Aside, b

\* The imports after one of them has written a row.
LEMMA WrittenIs ==
  ASSUME ImportTyped, NEW i \in Imports, NEW next \in ImportRecords, Written(i, next),
         next.k \in 1..Len(next.spec) + 1
  PROVE  /\ imp' \in [Imports -> ImportRecords] /\ imp'[i] = next
         /\ \A j \in Imports \ {i} : Aside(imp[j], imp'[j])
         /\ \A j \in Imports : imp'[j].k \in 1..Len(imp'[j].spec) + 1
<1>1. imp' = [j \in Imports |-> IF j = i THEN next
                ELSE [imp[j] EXCEPT !.disturbed = @ \/ imp[j].pc # "idle"]]
  BY DEF Written
<1>2. ASSUME NEW j \in Imports \ {i} PROVE Aside(imp[j], imp'[j])
  <2>1. imp[j] \in ImportRecords
    BY DEF ImportTyped
  <2>2. imp'[j] = [imp[j] EXCEPT !.disturbed = @ \/ imp[j].pc # "idle"]
    BY <1>1
  <2> QED BY <2>1, <2>2, AsideIs
<1>3. imp'[i] = next
  BY <1>1
<1>4. ASSUME NEW j \in Imports PROVE imp'[j] \in ImportRecords
  BY <1>2, <1>3, <1>4 DEF Aside
<1>5. imp' = [j \in Imports |-> imp'[j]]
  BY <1>1
<1>6. ASSUME NEW j \in Imports PROVE imp'[j].k \in 1..Len(imp'[j].spec) + 1
  BY <1>2, <1>3, <1>6 DEF Aside, ImportTyped
<1> QED BY <1>2, <1>3, <1>4, <1>5, <1>6

\* The row of a tool is written: its name is of no other row.
LEMMA RowWritten ==
  ASSUME ImportTyped, NEW r \in RowIds, NEW tool \in StoredTools, ~NameTaken(tool.name, Others(r)),
         tools' = [tools EXCEPT ![r] = tool]
  PROVE  /\ tools' \in ToolTables /\ tools'[r] = tool
         /\ \A q \in RowIds \ {r} : tools'[q] = tools[q]
         /\ \A a \in Present(tools') : \A b \in Others(a)' : tools'[b].name # tools'[a].name
<1>1. /\ tools' \in ToolTables /\ tools'[r] = tool /\ \A q \in RowIds \ {r} : tools'[q] = tools[q]
      /\ tool # NoRow
  BY ImportAssumption DEF ImportTyped, ToolTables
<1>2. ASSUME NEW a \in Present(tools'), NEW b \in Others(a)' PROVE tools'[b].name # tools'[a].name
  <2>1. a \in RowIds /\ b \in RowIds /\ a # b /\ tools'[a] # NoRow /\ tools'[b] # NoRow
    BY DEF Present, Others
  <2>2. \A q \in RowIds \ {r} : tools[q] # NoRow => tools[q].name # tool.name
    BY DEF NameTaken, Others, Present
  <2>3. CASE a = r \/ b = r
    BY <1>1, <2>1, <2>2, <2>3
  <2>4. CASE a # r /\ b # r
    BY <1>1, <2>1, <2>4 DEF ImportTyped, Others, Present
  <2> QED BY <2>3, <2>4
<1> QED BY <1>1, <1>2

\* A row that is merged with a tool of the document.
LEMMA MergedTyped ==
  ASSUME NEW old \in StoredTools, NEW t, t.name \in ToolNames, t.op \in Operations, t.endpoint \in Endpoints
  PROVE  /\ Merged(old, t) \in StoredTools /\ Merged(old, t).name = t.name
         /\ Merged(old, t).endpoint = t.endpoint /\ ~Merged(old, t).deprecated
<1> DEFINE b == old.deprecated \/ old.enabled
           o == IF t.op = NoRow THEN old.op ELSE t.op
           m == [name |-> t.name, op |-> o, endpoint |-> t.endpoint, enabled |-> b, deprecated |-> FALSE]
<1>1. b \in BOOLEAN /\ o \in Operations
  BY DEF StoredTools
<1>2. Merged(old, t) = m
  BY DEF Merged
<1> HIDE DEF b, o
<1>3. m \in StoredTools /\ m.name = t.name /\ m.endpoint = t.endpoint /\ m.deprecated = FALSE
  BY <1>1 DEF StoredTools
<1> QED BY <1>2, <1>3

\* A row that is created for a tool of the document.
LEMMA CreatedTyped ==
  ASSUME NEW t, t.name \in ToolNames, t.op \in Operations, t.endpoint \in Endpoints, NEW tool,
         tool = [name |-> t.name, op |-> t.op, endpoint |-> t.endpoint, enabled |-> TRUE, deprecated |-> FALSE]
  PROVE  tool \in StoredTools /\ tool.name = t.name /\ tool.endpoint = t.endpoint /\ ~tool.deprecated
BY DEF StoredTools

\* The types hold at the start.
LEMMA ImportTypedInit == ImportInit => ImportTyped
<1> SUFFICES ASSUME ImportInit PROVE ImportTyped
  OBVIOUS
<1>1. /\ tools \in ToolTables
      /\ \A r, q \in Present(tools) : r # q => tools[r].name # tools[q].name
  BY ImportAssumption DEF ImportInit, ToolTables
<1>2. offered \in SUBSET RowIds
  BY DEF ImportInit, Enabled, Present
<1>3. imp \in [Imports -> ImportRecords] /\ \A i \in Imports : imp[i] = NoImport
  BY NoImportTyped DEF ImportInit
<1>4. touches \in 0..MaxTouches /\ imports \in 0..MaxImports
  BY ImportAssumption DEF ImportInit
<1> QED BY <1>1, <1>2, <1>3, <1>4, NoImportTyped DEF ImportTyped, Others

\* The exceptions that ImportIsComplete names, for the j-th tool of a document.
Excused(spec, snap, j) ==
  \/ Shadowed(spec, j)
  \/ /\ Matches(snap, spec[j]) = {}
     /\ \E r \in Present(snap) : snap[r].name = spec[j].name
  \/ \E l \in DOMAIN spec \ {j} : Matches(snap, spec[l]) \intersect Matches(snap, spec[j]) # {}

\* A row that no later write of this import disables.
HasRow(x, ts, j) ==
  \E r \in Present(ts) :
    /\ ts[r].name = x.spec[j].name /\ ts[r].endpoint = x.spec[j].endpoint /\ ~ts[r].deprecated
    /\ (r \in Matches(x.snap, x.spec[j]) /\ r \in x.matched) \/ x.snap[r] = NoRow

NamedBy(x, n) == \E j \in DOMAIN x.spec : j < x.k /\ n = x.spec[j].name

\* What an import that nothing disturbed has done so far.
Progress(x, ts) ==
  /\ \A j \in DOMAIN x.spec : j < x.k => HasRow(x, ts, j) \/ Excused(x.spec, x.snap, j)
  /\ \A q \in Present(ts) : \/ NamedBy(x, ts[q].name)
                            \/ q \in Present(x.snap) /\ ts[q].name = x.snap[q].name
  /\ \A q \in Present(ts) : \/ ts[q].deprecated \/ NamedBy(x, ts[q].name)
                            \/ q \in Present(x.snap) \ x.matched /\ ~x.snap[q].deprecated

\* The rows are as they were but for row r.
SameBut(r, ts, us) == \A q \in RowIds \ {r} : us[q] = ts[q]

\* An import that has just read the rows.
LEMMA ReadProgress ==
  ASSUME NEW x, NEW ts, x.spec \in Specs \union {<<>>}, x.k = 1, x.matched = {}, x.snap = ts
  PROVE  Progress(x, ts)
<1>1. \A j \in DOMAIN x.spec : ~ (j < x.k)
  BY ParsedIs
<1> QED BY <1>1 DEF Progress

\* The import has got past its k-th tool.
Past(x, y) == y.spec = x.spec /\ y.snap = x.snap /\ y.k = x.k + 1 /\ x.k \in DOMAIN x.spec

\* The tools it has got past are those before and this one.
LEMMA PastIs ==
  ASSUME NEW x, NEW y, x.spec \in Specs \union {<<>>}, Past(x, y)
  PROVE  /\ \A j \in DOMAIN y.spec : j < y.k <=> (j < x.k \/ j = x.k)
         /\ \A n : NamedBy(x, n) => NamedBy(y, n)
         /\ NamedBy(y, y.spec[x.k].name)
<1>1. \A j \in DOMAIN y.spec : j < y.k <=> (j < x.k \/ j = x.k)
  <2>1. x.k \in 1..Len(x.spec) /\ DOMAIN y.spec = 1..Len(x.spec) /\ Len(x.spec) \in Nat /\ y.k = x.k + 1
    BY ParsedIs DEF Past
  <2> QED BY <2>1
<1>2. y.spec = x.spec /\ x.k \in DOMAIN x.spec
  BY DEF Past
<1>3. \A n : NamedBy(x, n) => NamedBy(y, n)
  BY <1>1, <1>2 DEF NamedBy
<1>4. NamedBy(y, y.spec[x.k].name)
  BY <1>1, <1>2 DEF NamedBy
<1> QED BY <1>1, <1>3, <1>4

\* The row that a tool matched is written.
LEMMA UpdateProgress ==
  ASSUME NEW x, NEW y, NEW ts, NEW us, NEW r \in RowIds, x.spec \in Specs \union {<<>>}, Progress(x, ts),
         Past(x, y), y.matched = x.matched \union {r}, r \in Matches(x.snap, x.spec[x.k]),
         SameBut(r, ts, us), us[r] # NoRow, us[r].name = x.spec[x.k].name,
         us[r].endpoint = x.spec[x.k].endpoint, ~us[r].deprecated
  PROVE  Progress(y, us)
<1>0. y.spec = x.spec /\ y.snap = x.snap /\ x.k \in DOMAIN x.spec
  BY DEF Past
<1>1. x.snap[r] # NoRow
  BY DEF Matches, Present
<1>2. NamedBy(y, us[r].name)
  BY <1>0, PastIs
<1>3. ASSUME NEW j \in DOMAIN y.spec, j < y.k PROVE HasRow(y, us, j) \/ Excused(y.spec, y.snap, j)
  <2>1. CASE j = x.k
    <3>1. r \in Present(us)
      BY DEF Present
    <3> QED BY <1>0, <2>1, <3>1 DEF HasRow
  <2>2. CASE j < x.k /\ j # x.k
    <3>1. HasRow(x, ts, j) \/ Excused(y.spec, y.snap, j)
      BY <1>0, <2>2 DEF Progress
    <3>2. ASSUME NEW q \in Present(ts), ts[q].name = x.spec[j].name, ts[q].endpoint = x.spec[j].endpoint,
                 ~ts[q].deprecated,
                 (q \in Matches(x.snap, x.spec[j]) /\ q \in x.matched) \/ x.snap[q] = NoRow
          PROVE  HasRow(y, us, j) \/ Excused(y.spec, y.snap, j)
      <4>1. CASE q = r
        <5>1. r \in Matches(x.snap, x.spec[x.k]) \intersect Matches(x.snap, x.spec[j])
          BY <1>1, <3>2, <4>1
        <5>2. x.k \in DOMAIN x.spec \ {j}
          BY <1>0, <2>2
        <5> QED BY <1>0, <5>1, <5>2 DEF Excused
      <4>2. CASE q # r
        <5>1. us[q] = ts[q] /\ q \in Present(us)
          BY <4>2 DEF SameBut, Present
        <5> QED BY <1>0, <3>2, <5>1 DEF HasRow
      <4> QED BY <4>1, <4>2
    <3> QED BY <3>1, <3>2 DEF HasRow
  <2>3. j < x.k \/ j = x.k
    BY <1>3, PastIs
  <2> QED BY <2>1, <2>2, <2>3
<1>4. ASSUME NEW q \in Present(us)
      PROVE  /\ NamedBy(y, us[q].name) \/ (q \in Present(y.snap) /\ us[q].name = y.snap[q].name)
             /\ us[q].deprecated \/ NamedBy(y, us[q].name)
                \/ (q \in Present(y.snap) \ y.matched /\ ~y.snap[q].deprecated)
  <2>1. CASE q = r
    BY <1>2, <2>1
  <2>2. CASE q # r
    <3>1. us[q] = ts[q] /\ q \in Present(ts) /\ (q \in x.matched <=> q \in y.matched)
      BY <2>2 DEF SameBut, Present
    <3> QED BY <1>0, <3>1, PastIs DEF Progress
  <2> QED BY <2>1, <2>2
<1> QED BY <1>3, <1>4 DEF Progress

\* A tool whose name is taken is skipped.
LEMMA SkipProgress ==
  ASSUME NEW x, NEW y, NEW ts, x.spec \in Specs \union {<<>>}, Progress(x, ts),
         Past(x, y), y.matched = x.matched, Matches(x.snap, x.spec[x.k]) = {},
         NEW p \in Present(ts), ts[p].name = x.spec[x.k].name
  PROVE  Progress(y, ts)
<1>0. y.spec = x.spec /\ y.snap = x.snap /\ x.k \in DOMAIN x.spec
  BY DEF Past
<1>1. Excused(y.spec, y.snap, x.k)
  <2>1. CASE NamedBy(x, ts[p].name)
    <3>1. PICK j \in DOMAIN x.spec : j < x.k /\ ts[p].name = x.spec[j].name
      BY <2>1 DEF NamedBy
    <3>2. j # x.k
      BY <1>0, <3>1, ParsedIs
    <3>3. Shadowed(x.spec, x.k)
      BY <3>1, <3>2 DEF Shadowed
    <3> QED BY <1>0, <3>3 DEF Excused
  <2>2. CASE p \in Present(x.snap) /\ ts[p].name = x.snap[p].name
    BY <1>0, <2>2 DEF Excused
  <2> QED BY <2>1, <2>2 DEF Progress
<1>2. ASSUME NEW j \in DOMAIN y.spec, j < y.k PROVE HasRow(y, ts, j) \/ Excused(y.spec, y.snap, j)
  <2>1. j < x.k \/ j = x.k
    BY <1>2, PastIs
  <2>2. HasRow(x, ts, j) => HasRow(y, ts, j)
    BY <1>0 DEF HasRow
  <2> QED BY <1>0, <1>1, <2>1, <2>2 DEF Progress
<1> QED BY <1>0, <1>2, PastIs DEF Progress

\* A tool without a row gets one.
LEMMA CreateProgress ==
  ASSUME NEW x, NEW y, NEW ts, NEW us, NEW r \in RowIds, x.spec \in Specs \union {<<>>}, Progress(x, ts),
         Past(x, y), y.matched = x.matched, ts[r] = NoRow, x.snap[r] = NoRow,
         SameBut(r, ts, us), us[r] # NoRow, us[r].name = x.spec[x.k].name,
         us[r].endpoint = x.spec[x.k].endpoint, ~us[r].deprecated
  PROVE  Progress(y, us)
<1>0. y.spec = x.spec /\ y.snap = x.snap /\ x.k \in DOMAIN x.spec
  BY DEF Past
<1>1. \A q \in Present(us) : q # r => q \in Present(ts) /\ us[q] = ts[q]
  BY DEF SameBut, Present
<1>2. \A q \in Present(ts) : q \in Present(us) /\ us[q] = ts[q]
  BY DEF SameBut, Present
<1>3. NamedBy(y, us[r].name)
  BY <1>0, PastIs
<1>4. ASSUME NEW j \in DOMAIN y.spec, j < y.k PROVE HasRow(y, us, j) \/ Excused(y.spec, y.snap, j)
  <2>1. j < x.k \/ j = x.k
    BY <1>4, PastIs
  <2>2. HasRow(x, ts, j) => HasRow(y, us, j)
    BY <1>0, <1>2 DEF HasRow
  <2>3. CASE j = x.k
    <3>1. r \in Present(us)
      BY DEF Present
    <3> QED BY <1>0, <2>3, <3>1 DEF HasRow
  <2> QED BY <1>0, <2>1, <2>2, <2>3 DEF Progress
<1>5. ASSUME NEW q \in Present(us)
      PROVE  /\ NamedBy(y, us[q].name) \/ (q \in Present(y.snap) /\ us[q].name = y.snap[q].name)
             /\ us[q].deprecated \/ NamedBy(y, us[q].name)
                \/ (q \in Present(y.snap) \ y.matched /\ ~y.snap[q].deprecated)
  <2>1. CASE q = r
    BY <1>3, <2>1
  <2>2. CASE q # r
    BY <1>0, <1>1, <2>2, PastIs DEF Progress
  <2> QED BY <2>1, <2>2
<1> QED BY <1>4, <1>5 DEF Progress

\* A row that no tool matched is deprecated.
LEMMA DeprecateProgress ==
  ASSUME NEW x, NEW y, NEW ts, NEW us, NEW r \in RowIds, Progress(x, ts),
         y.spec = x.spec, y.snap = x.snap, y.k = x.k, y.matched = x.matched \union {r},
         r \in Present(x.snap), r \notin x.matched, ts[r] # NoRow,
         SameBut(r, ts, us), us[r].name = ts[r].name, us[r].deprecated
  PROVE  Progress(y, us)
<1>1. \A n : NamedBy(y, n) <=> NamedBy(x, n)
  BY DEF NamedBy
<1>2. ASSUME NEW j \in DOMAIN y.spec, j < y.k PROVE HasRow(y, us, j) \/ Excused(y.spec, y.snap, j)
  <2>1. ASSUME NEW q \in Present(ts), ts[q].name = x.spec[j].name, ts[q].endpoint = x.spec[j].endpoint,
               ~ts[q].deprecated,
               (q \in Matches(x.snap, x.spec[j]) /\ q \in x.matched) \/ x.snap[q] = NoRow
        PROVE  HasRow(y, us, j)
    <3>1. q # r
      BY <2>1 DEF Present
    <3>2. us[q] = ts[q] /\ q \in Present(us)
      BY <3>1 DEF SameBut, Present
    <3> QED BY <2>1, <3>2 DEF HasRow
  <2> QED BY <1>2, <2>1 DEF Progress, HasRow
<1>3. ASSUME NEW q \in Present(us)
      PROVE  /\ NamedBy(y, us[q].name) \/ (q \in Present(y.snap) /\ us[q].name = y.snap[q].name)
             /\ us[q].deprecated \/ NamedBy(y, us[q].name)
                \/ (q \in Present(y.snap) \ y.matched /\ ~y.snap[q].deprecated)
  <2>1. q \in Present(ts)
    BY DEF SameBut, Present
  <2>2. CASE q = r
    BY <1>1, <2>1, <2>2 DEF Progress
  <2>3. CASE q # r
    <3>1. us[q] = ts[q] /\ (q \in x.matched <=> q \in y.matched)
      BY <2>3 DEF SameBut, Present
    <3> QED BY <1>1, <2>1, <3>1 DEF Progress
  <2> QED BY <2>2, <2>3
<1> QED BY <1>2, <1>3 DEF Progress

EnabledOf(ts) == {r \in Present(ts) : ts[r].enabled}

\* An import, beside the rows and what the registry serves.
OneInv(x, ts, off) ==
  /\ x.pc = "read" => x.k = 1 /\ x.matched = {}
  /\ x.pc \in {"merge", "done"} /\ ~x.disturbed => Progress(x, ts)
  /\ x.pc = "done" => /\ x.k > Len(x.spec)
                      /\ \A r \in Present(x.snap) : r \in x.matched \/ x.snap[r].deprecated
                      /\ ~x.disturbed => off = EnabledOf(ts)

ImportInv == ImportTyped /\ \A i \in Imports : OneInv(imp[i], tools, offered)

\* What a reload registers.
LEMMA EnabledIs == Enabled = EnabledOf(tools)
BY DEF Enabled, EnabledOf

\* An import that was disturbed promises no more.
LEMMA AsideKeeps ==
  ASSUME NEW x, NEW y, NEW ts, NEW us, NEW off, NEW new, OneInv(x, ts, off), Aside(x, y)
  PROVE  OneInv(y, us, new)
BY DEF OneInv, Aside

\* A reload of one import is as good for another.
LEMMA ReloadServes ==
  ASSUME NEW x, NEW ts, NEW off, OneInv(x, ts, off)
  PROVE  OneInv(x, ts, EnabledOf(ts))
BY DEF OneInv

\* An import that is not under way promises nothing.
LEMMA EndedIs ==
  ASSUME NEW x, NEW ts, NEW off, x.pc \in {"idle", "failed"}
  PROVE  OneInv(x, ts, off)
BY DEF OneInv

\* Steps that change one import and leave the rows alone.
LEMMA OneStep ==
  ASSUME ImportInv, NEW i \in Imports, NEW x \in ImportRecords, imp' = [imp EXCEPT ![i] = x],
         tools' = tools, offered' = offered \/ offered' = Enabled, x.k \in 1..Len(x.spec) + 1,
         OneInv(x, tools, offered'), touches' \in 0..MaxTouches, imports' \in 0..MaxImports
  PROVE  ImportInv'
<1>1. /\ imp' \in [Imports -> ImportRecords] /\ imp'[i] = x
      /\ \A j \in Imports \ {i} : imp'[j] = imp[j]
  BY DEF ImportInv, ImportTyped
<1>2. ASSUME NEW j \in Imports PROVE OneInv(imp'[j], tools', offered')
  <2>1. CASE j = i
    BY <1>1, <2>1
  <2>2. CASE j # i
    <3>1. OneInv(imp[j], tools, offered)
      BY DEF ImportInv
    <3>2. OneInv(imp[j], tools, offered')
      BY <3>1, EnabledIs, ReloadServes
    <3> QED BY <1>1, <2>2, <3>2
  <2> QED BY <2>1, <2>2
<1>3. \A j \in Imports : imp'[j].k \in 1..Len(imp'[j].spec) + 1
  BY <1>1 DEF ImportInv, ImportTyped
<1>4. offered' \in SUBSET RowIds
  BY DEF ImportInv, ImportTyped, Enabled, Present
<1>5. \A r \in Present(tools') : \A q \in Others(r)' : tools'[q].name # tools'[r].name
  BY DEF ImportInv, ImportTyped, Others, Present
<1>6. tools' \in ToolTables
  BY DEF ImportInv, ImportTyped
<1>7. ImportTyped'
  BY <1>1, <1>3, <1>4, <1>5, <1>6 DEF ImportTyped
<1> QED BY <1>2, <1>7 DEF ImportInv

\* A row is written by one import: the others under way are disturbed.
LEMMA WriteStep ==
  ASSUME ImportInv, NEW i \in Imports, NEW next \in ImportRecords, Written(i, next),
         next.k \in 1..Len(next.spec) + 1, tools' \in ToolTables,
         \A a \in Present(tools') : \A b \in Others(a)' : tools'[b].name # tools'[a].name,
         UNCHANGED <<offered, touches, imports>>, OneInv(next, tools', offered)
  PROVE  ImportInv'
<1>1. /\ imp' \in [Imports -> ImportRecords] /\ imp'[i] = next
      /\ \A j \in Imports \ {i} : Aside(imp[j], imp'[j])
      /\ \A j \in Imports : imp'[j].k \in 1..Len(imp'[j].spec) + 1
  BY WrittenIs DEF ImportInv
<1>2. ASSUME NEW j \in Imports PROVE OneInv(imp'[j], tools', offered')
  <2>1. CASE j = i
    BY <1>1, <2>1
  <2>2. CASE j # i
    <3>1. OneInv(imp[j], tools, offered)
      BY DEF ImportInv
    <3> QED BY <1>1, <2>2, <3>1, AsideKeeps
  <2> QED BY <2>1, <2>2
<1>3. ImportTyped'
  BY <1>1 DEF ImportInv, ImportTyped
<1> QED BY <1>2, <1>3 DEF ImportInv

\* What is known of an import.
LEMMA ImportIs ==
  ASSUME ImportInv, NEW i \in Imports
  PROVE  /\ imp[i] \in ImportRecords /\ imp[i].k \in 1..Len(imp[i].spec) + 1 /\ OneInv(imp[i], tools, offered)
         /\ imp[i].spec \in Specs \union {<<>>} /\ tools \in ToolTables /\ imp[i].snap \in ToolTables
         /\ touches \in 0..MaxTouches /\ imports \in 0..MaxImports
BY DEF ImportInv, ImportTyped, ImportRecords

\* A document is parsed.
LEMMA StartStep == ASSUME ImportInv, NEW i \in Imports, NEW spec \in Specs, ImportStart(i, spec) PROVE ImportInv'
<1> DEFINE x == [NoImport EXCEPT !.pc = "read", !.spec = spec]
<1>1. /\ imports < MaxImports /\ imports' = imports + 1 /\ imp' = [imp EXCEPT ![i] = x]
      /\ UNCHANGED <<tools, offered, touches>>
  BY DEF ImportStart
<1>2. x \in ImportRecords /\ x.k = 1 /\ x.matched = {} /\ x.pc = "read" /\ x.spec = spec
  BY NoImportTyped
<1> HIDE DEF x
<1>3. imports' \in 0..MaxImports
  BY <1>1, ImportIs, ImportAssumption
<1>4. x.k \in 1..Len(x.spec) + 1
  <2>1. Len(x.spec) \in Nat
    BY <1>2, ParsedIs
  <2> QED BY <1>2, <2>1
<1>5. OneInv(x, tools, offered')
  BY <1>2 DEF OneInv
<1>6. touches' \in 0..MaxTouches
  BY <1>1, ImportIs
<1> QED BY <1>1, <1>2, <1>3, <1>4, <1>5, <1>6, OneStep

\* The rows are read.
LEMMA ReadStep == ASSUME ImportInv, NEW i \in Imports, ImportRead(i) PROVE ImportInv'
<1> DEFINE x == [imp[i] EXCEPT !.pc = "merge", !.snap = tools, !.disturbed = FALSE]
<1>1. imp[i].pc = "read" /\ imp' = [imp EXCEPT ![i] = x] /\ UNCHANGED <<tools, offered, touches, imports>>
  BY DEF ImportRead
<1>2. /\ x \in ImportRecords /\ x.pc = "merge" /\ x.snap = tools /\ x.spec = imp[i].spec /\ x.k = imp[i].k
      /\ x.matched = imp[i].matched
  BY ImportIs DEF ImportRecords
<1> HIDE DEF x
<1>3. OneInv(x, tools, offered')
  <2>1. x.k = 1 /\ x.matched = {}
    BY <1>1, <1>2, ImportIs DEF OneInv
  <2>2. Progress(x, tools)
    BY <1>2, <2>1, ImportIs, ReadProgress
  <2> QED BY <1>2, <2>2 DEF OneInv
<1>4. x.k \in 1..Len(x.spec) + 1 /\ touches' \in 0..MaxTouches /\ imports' \in 0..MaxImports
  BY <1>1, <1>2, ImportIs
<1> QED BY <1>1, <1>2, <1>3, <1>4, OneStep

\* An import that ends at one of its writes, or before.
LEMMA EndStep ==
  ASSUME ImportInv, NEW i \in Imports, imp' = [imp EXCEPT ![i].pc = "failed"],
         UNCHANGED <<tools, offered, touches, imports>>
  PROVE  ImportInv'
<1> DEFINE x == [imp[i] EXCEPT !.pc = "failed"]
<1>1. imp' = [imp EXCEPT ![i] = x]
  OBVIOUS
<1>2. x \in ImportRecords /\ x.pc = "failed" /\ x.spec = imp[i].spec /\ x.k = imp[i].k
  BY ImportIs DEF ImportRecords
<1> HIDE DEF x
<1>3. OneInv(x, tools, offered') /\ x.k \in 1..Len(x.spec) + 1
      /\ touches' \in 0..MaxTouches /\ imports' \in 0..MaxImports
  BY <1>2, EndedIs, ImportIs
<1> QED BY <1>1, <1>2, <1>3, OneStep

\* The import is done, and its tools are registered.
LEMMA ReloadStep == ASSUME ImportInv, NEW i \in Imports, ImportReload(i) PROVE ImportInv'
<1> DEFINE x == [imp[i] EXCEPT !.pc = "done"]
<1>1. /\ imp[i].pc = "merge" /\ ~Merging(i) /\ Unmatched(i) = {} /\ offered' = Enabled
      /\ imp' = [imp EXCEPT ![i] = x] /\ UNCHANGED <<tools, touches, imports>>
  BY DEF ImportReload
<1>2. /\ x \in ImportRecords /\ x.pc = "done" /\ x.spec = imp[i].spec /\ x.k = imp[i].k /\ x.snap = imp[i].snap
      /\ x.matched = imp[i].matched /\ x.disturbed = imp[i].disturbed
  BY ImportIs DEF ImportRecords
<1> HIDE DEF x
<1>3. x.k > Len(x.spec)
  <2>1. Len(x.spec) \in Nat /\ x.k \in Nat
    BY <1>2, ImportIs, ParsedIs DEF ImportRecords
  <2> QED BY <1>1, <1>2, <2>1 DEF Merging
<1>4. \A r \in Present(x.snap) : r \in x.matched \/ x.snap[r].deprecated
  BY <1>1, <1>2 DEF Unmatched
<1>5. ~x.disturbed => Progress(x, tools)
  <2>1. ~imp[i].disturbed => Progress(imp[i], tools)
    BY <1>1, ImportIs DEF OneInv
  <2> QED BY <1>2, <2>1 DEF Progress, HasRow, NamedBy
<1>6. OneInv(x, tools, offered')
  BY <1>1, <1>2, <1>3, <1>4, <1>5, EnabledIs DEF OneInv
<1>7. x.k \in 1..Len(x.spec) + 1 /\ touches' \in 0..MaxTouches /\ imports' \in 0..MaxImports
  BY <1>1, <1>2, ImportIs
<1> QED BY <1>1, <1>2, <1>6, <1>7, OneStep

\* The request is answered.
LEMMA AnswerStep == ASSUME ImportInv, NEW i \in Imports, ImportAnswer(i) PROVE ImportInv'
<1>1. imp' = [imp EXCEPT ![i] = NoImport] /\ UNCHANGED <<tools, offered, touches, imports>>
  BY DEF ImportAnswer
<1>2. touches' \in 0..MaxTouches /\ imports' \in 0..MaxImports /\ NoImport.k \in 1..Len(NoImport.spec) + 1
  BY <1>1, ImportIs, NoImportTyped
<1>3. OneInv(NoImport, tools, offered')
  <2>1. NoImport.pc = "idle"
    BY NoImportTyped
  <2> QED BY <2>1 DEF OneInv
<1>4. NoImport \in ImportRecords
  BY NoImportTyped
<1> QED BY <1>1, <1>2, <1>3, <1>4, OneStep

\* The import goes on to its next tool.
LEMMA AdvancedIs ==
  ASSUME ImportInv, NEW i \in Imports, Merging(i)
  PROVE  /\ imp[i].k \in DOMAIN imp[i].spec
         /\ imp[i].pc = "merge"
         /\ Advanced(i) \in ImportRecords /\ Past(imp[i], Advanced(i))
         /\ Advanced(i).pc = "merge" /\ Advanced(i).matched = imp[i].matched
         /\ Advanced(i).disturbed = imp[i].disturbed
         /\ Advanced(i).k \in 1..Len(Advanced(i).spec) + 1
<1>1. /\ imp[i] \in ImportRecords /\ imp[i].k \in 1..Len(imp[i].spec) + 1
      /\ Len(imp[i].spec) \in Nat /\ DOMAIN imp[i].spec = 1..Len(imp[i].spec)
  BY ImportIs, ParsedIs
<1>2. imp[i].pc = "merge" /\ imp[i].k <= Len(imp[i].spec)
  BY DEF Merging
<1> DEFINE n == imp[i].k + 1
           y == [imp[i] EXCEPT !.k = n]
<1>3. n \in Nat /\ n \in 1..Len(imp[i].spec) + 1 /\ imp[i].k \in DOMAIN imp[i].spec
  BY <1>1, <1>2
<1>4. Advanced(i) = y /\ n = imp[i].k + 1
  BY DEF Advanced
<1> HIDE DEF n
<1>5. /\ y \in ImportRecords /\ y.k = n /\ y.spec = imp[i].spec /\ y.snap = imp[i].snap /\ y.pc = imp[i].pc
      /\ y.matched = imp[i].matched /\ y.disturbed = imp[i].disturbed
  BY <1>1, <1>3 DEF ImportRecords
<1> HIDE DEF y
<1> QED BY <1>2, <1>3, <1>4, <1>5 DEF Past

\* A row counts as matched from now on.
LEMMA MatchedIs ==
  ASSUME NEW x \in ImportRecords, NEW r \in RowIds, NEW y, y = [x EXCEPT !.matched = @ \union {r}]
  PROVE  /\ y \in ImportRecords /\ y.matched = x.matched \union {r} /\ y.pc = x.pc /\ y.spec = x.spec
         /\ y.k = x.k /\ y.snap = x.snap /\ y.disturbed = x.disturbed
BY DEF ImportRecords

\* A row is merged, or the update throws.
LEMMA UpdateStep ==
  ASSUME ImportInv, NEW i \in Imports, NEW r \in RowIds, MergeUpdate(i, r)
  PROVE  ImportInv'
<1> DEFINE t == imp[i].spec[imp[i].k]
           new == Merged(imp[i].snap[r], t)
           y == [Advanced(i) EXCEPT !.matched = @ \union {r}]
<1>1. /\ Merging(i) /\ UNCHANGED <<offered, touches, imports>> /\ r \in Matches(imp[i].snap, t)
      /\ IF tools[r] = NoRow \/ NameTaken(t.name, Others(r))
         THEN imp' = [imp EXCEPT ![i].pc = "failed"] /\ UNCHANGED tools
         ELSE tools' = [tools EXCEPT ![r] = new] /\ Written(i, y)
  BY DEF MergeUpdate
<1>2. CASE tools[r] = NoRow \/ NameTaken(t.name, Others(r))
  BY <1>1, <1>2, EndStep
<1>3. CASE ~ (tools[r] = NoRow \/ NameTaken(t.name, Others(r)))
  <2>1. /\ Past(imp[i], Advanced(i)) /\ Advanced(i) \in ImportRecords /\ Advanced(i).pc = "merge"
        /\ Advanced(i).matched = imp[i].matched /\ Advanced(i).disturbed = imp[i].disturbed
        /\ Advanced(i).k \in 1..Len(Advanced(i).spec) + 1
        /\ imp[i].k \in DOMAIN imp[i].spec /\ imp[i].pc = "merge"
    BY <1>1, AdvancedIs
  <2>2. /\ y \in ImportRecords /\ y.matched = imp[i].matched \union {r} /\ y.pc = "merge"
        /\ y.disturbed = imp[i].disturbed /\ y.k \in 1..Len(y.spec) + 1 /\ Past(imp[i], y)
    <3>1. /\ y \in ImportRecords /\ y.matched = Advanced(i).matched \union {r} /\ y.pc = Advanced(i).pc
          /\ y.spec = Advanced(i).spec /\ y.k = Advanced(i).k /\ y.snap = Advanced(i).snap
          /\ y.disturbed = Advanced(i).disturbed
      BY <2>1, MatchedIs
    <3> HIDE DEF y
    <3> QED BY <2>1, <3>1 DEF Past
  <2>3. t.name \in ToolNames /\ t.op \in Operations /\ t.endpoint \in Endpoints
    BY <2>1, ImportIs, ParsedIs
  <2>4. imp[i].snap[r] \in StoredTools
    <3>1. imp[i].snap \in ToolTables /\ imp[i].snap[r] # NoRow
      BY <1>1, ImportIs DEF Matches, Present
    <3> QED BY <3>1 DEF ToolTables
  <2> HIDE DEF y
  <2>5. new \in StoredTools /\ new.name = t.name /\ new.endpoint = t.endpoint /\ ~new.deprecated
    BY <2>3, <2>4, MergedTyped
  <2>6. tools' = [tools EXCEPT ![r] = new] /\ Written(i, y)
    BY <1>1, <1>3
  <2> HIDE DEF new
  <2>7. /\ tools' \in ToolTables /\ tools'[r] = new /\ SameBut(r, tools, tools') /\ new # NoRow
        /\ \A a \in Present(tools') : \A b \in Others(a)' : tools'[b].name # tools'[a].name
    <3>1. /\ tools' \in ToolTables /\ tools'[r] = new
          /\ \A q \in RowIds \ {r} : tools'[q] = tools[q]
          /\ \A a \in Present(tools') : \A b \in Others(a)' : tools'[b].name # tools'[a].name
      BY <1>3, <2>5, <2>6, RowWritten DEF ImportInv
    <3> QED BY <2>5, <3>1, ImportAssumption DEF SameBut
  <2>8. ~y.disturbed => Progress(y, tools')
    <3>1. ~y.disturbed => Progress(imp[i], tools)
      BY <2>1, <2>2, ImportIs DEF OneInv
    <3>2. imp[i].spec \in Specs \union {<<>>}
      BY ImportIs
    <3> QED BY <1>1, <2>2, <2>5, <2>7, <3>1, <3>2, UpdateProgress
  <2>9. OneInv(y, tools', offered)
    BY <2>2, <2>8 DEF OneInv
  <2> QED BY <1>1, <2>2, <2>6, <2>7, <2>9, WriteStep
<1> QED BY <1>2, <1>3

\* A row is created, or its tool skipped.
LEMMA CreateStep ==
  ASSUME ImportInv, NEW i \in Imports, NEW r \in RowIds, MergeCreate(i, r)
  PROVE  ImportInv'
<1> DEFINE t == imp[i].spec[imp[i].k]
           new == [name |-> t.name, op |-> t.op, endpoint |-> t.endpoint, enabled |-> TRUE, deprecated |-> FALSE]
<1>1. /\ Merging(i) /\ UNCHANGED <<offered, touches, imports>> /\ Matches(imp[i].snap, t) = {}
      /\ IF NameTaken(t.name, Present(tools))
         THEN imp' = [imp EXCEPT ![i] = Advanced(i)] /\ UNCHANGED tools
         ELSE /\ tools[r] = NoRow /\ imp[i].snap[r] = NoRow
              /\ tools' = [tools EXCEPT ![r] = new] /\ Written(i, Advanced(i))
  BY DEF MergeCreate
<1>2. /\ Past(imp[i], Advanced(i)) /\ Advanced(i) \in ImportRecords /\ Advanced(i).pc = "merge"
      /\ Advanced(i).matched = imp[i].matched /\ Advanced(i).disturbed = imp[i].disturbed
      /\ Advanced(i).k \in 1..Len(Advanced(i).spec) + 1
      /\ imp[i].k \in DOMAIN imp[i].spec /\ imp[i].pc = "merge"
  BY <1>1, AdvancedIs
<1>3. imp[i].spec \in Specs \union {<<>>} /\ (~imp[i].disturbed => Progress(imp[i], tools))
  BY <1>2, ImportIs DEF OneInv
<1>4. touches' \in 0..MaxTouches /\ imports' \in 0..MaxImports
  BY <1>1, ImportIs
<1>5. CASE NameTaken(t.name, Present(tools))
  <2>1. PICK p \in Present(tools) : tools[p].name = t.name
    BY <1>5 DEF NameTaken
  <2>2. ~Advanced(i).disturbed => Progress(Advanced(i), tools)
    BY <1>1, <1>2, <1>3, <2>1, SkipProgress
  <2>3. OneInv(Advanced(i), tools, offered')
    BY <1>2, <2>2 DEF OneInv
  <2> QED BY <1>1, <1>2, <1>4, <1>5, <2>3, OneStep
<1>6. CASE ~NameTaken(t.name, Present(tools))
  <2>1. t.name \in ToolNames /\ t.op \in Operations /\ t.endpoint \in Endpoints
    BY <1>2, ImportIs, ParsedIs
  <2>2. new \in StoredTools /\ new.name = t.name /\ new.endpoint = t.endpoint /\ ~new.deprecated
    BY <2>1, CreatedTyped
  <2>3. /\ tools[r] = NoRow /\ imp[i].snap[r] = NoRow
        /\ tools' = [tools EXCEPT ![r] = new] /\ Written(i, Advanced(i))
    BY <1>1, <1>6
  <2> HIDE DEF new
  <2>4. ~NameTaken(new.name, Others(r))
    BY <1>6, <2>2 DEF NameTaken, Others
  <2>5. /\ tools' \in ToolTables /\ tools'[r] = new /\ SameBut(r, tools, tools') /\ new # NoRow
        /\ \A a \in Present(tools') : \A b \in Others(a)' : tools'[b].name # tools'[a].name
    <3>1. /\ tools' \in ToolTables /\ tools'[r] = new
          /\ \A q \in RowIds \ {r} : tools'[q] = tools[q]
          /\ \A a \in Present(tools') : \A b \in Others(a)' : tools'[b].name # tools'[a].name
      BY <2>2, <2>3, <2>4, RowWritten DEF ImportInv
    <3> QED BY <2>2, <3>1, ImportAssumption DEF SameBut
  <2>6. ~Advanced(i).disturbed => Progress(Advanced(i), tools')
    <3>1. /\ tools'[r] # NoRow /\ tools'[r].name = imp[i].spec[imp[i].k].name
          /\ tools'[r].endpoint = imp[i].spec[imp[i].k].endpoint /\ ~tools'[r].deprecated
      BY <2>2, <2>5
    <3>2. ~Advanced(i).disturbed => Progress(imp[i], tools)
      BY <1>2, <1>3
    <3>3. ASSUME Progress(imp[i], tools) PROVE Progress(Advanced(i), tools')
      <4> DEFINE x == imp[i]
                 y == Advanced(i)
      <4>1. /\ x.spec \in Specs \union {<<>>} /\ Past(x, y) /\ y.matched = x.matched
            /\ tools[r] = NoRow /\ x.snap[r] = NoRow /\ SameBut(r, tools, tools')
        BY <1>2, <1>3, <2>3, <2>5
      <4>2. /\ tools'[r] # NoRow /\ tools'[r].name = x.spec[x.k].name
            /\ tools'[r].endpoint = x.spec[x.k].endpoint /\ ~tools'[r].deprecated
        BY <3>1
      <4>3. Progress(x, tools)
        BY <3>3
      <4> HIDE DEF x, y
      <4>4. Progress(y, tools')
        BY <4>1, <4>2, <4>3, CreateProgress
      <4> QED BY <4>4 DEF y
    <3> QED BY <3>2, <3>3
  <2>7. OneInv(Advanced(i), tools', offered)
    BY <1>2, <2>6 DEF OneInv
  <2> QED BY <1>1, <1>2, <2>3, <2>5, <2>7, WriteStep
<1> QED BY <1>5, <1>6

\* A row is deprecated, or the update throws.
LEMMA DeprecateStep ==
  ASSUME ImportInv, NEW i \in Imports, NEW r \in RowIds, DeprecateUnmatched(i, r)
  PROVE  ImportInv'
<1> DEFINE new == [tools[r] EXCEPT !.deprecated = TRUE, !.enabled = FALSE]
           y == [imp[i] EXCEPT !.matched = @ \union {r}]
<1>1. /\ imp[i].pc = "merge" /\ r \in Unmatched(i) /\ UNCHANGED <<offered, touches, imports>>
      /\ IF tools[r] = NoRow
         THEN imp' = [imp EXCEPT ![i].pc = "failed"] /\ UNCHANGED tools
         ELSE tools' = [tools EXCEPT ![r].deprecated = TRUE, ![r].enabled = FALSE] /\ Written(i, y)
  BY DEF DeprecateUnmatched
<1>2. CASE tools[r] = NoRow
  BY <1>1, <1>2, EndStep
<1>3. CASE tools[r] # NoRow
  <2>1. tools \in ToolTables /\ tools[r] \in StoredTools
    BY <1>3, ImportIs DEF ToolTables
  <2>2. new \in StoredTools /\ new.name = tools[r].name /\ new.deprecated = TRUE
    BY <2>1 DEF StoredTools
  <2>3. tools' = [tools EXCEPT ![r] = new]
    <3>1. tools' = [tools EXCEPT ![r].deprecated = TRUE, ![r].enabled = FALSE]
      BY <1>1, <1>3
    <3> QED BY <2>1, <3>1 DEF ToolTables
  <2>4. Written(i, y)
    BY <1>1, <1>3
  <2>5. /\ y \in ImportRecords /\ y.matched = imp[i].matched \union {r} /\ y.pc = imp[i].pc /\ y.spec = imp[i].spec
        /\ y.k = imp[i].k /\ y.snap = imp[i].snap /\ y.disturbed = imp[i].disturbed
    BY ImportIs, MatchedIs
  <2> HIDE DEF new, y
  <2>6. ~NameTaken(new.name, Others(r))
    <3>1. r \in Present(tools)
      BY <1>3 DEF Present
    <3> QED BY <2>2, <3>1 DEF NameTaken, ImportInv, ImportTyped
  <2>7. /\ tools' \in ToolTables /\ tools'[r] = new /\ SameBut(r, tools, tools')
        /\ \A a \in Present(tools') : \A b \in Others(a)' : tools'[b].name # tools'[a].name
    BY <2>2, <2>3, <2>6, RowWritten DEF ImportInv, SameBut
  <2>8. ~y.disturbed => Progress(y, tools')
    <3>1. ~y.disturbed => Progress(imp[i], tools)
      BY <1>1, <2>5, ImportIs DEF OneInv
    <3>2. r \in Present(imp[i].snap) /\ r \notin imp[i].matched
      BY <1>1 DEF Unmatched
    <3> QED BY <1>3, <2>2, <2>5, <2>7, <3>1, <3>2, DeprecateProgress
  <2>9. OneInv(y, tools', offered) /\ y.k \in 1..Len(y.spec) + 1
    BY <1>1, <2>5, <2>8, ImportIs DEF OneInv
  <2> QED BY <1>1, <2>4, <2>5, <2>7, <2>9, WriteStep
<1> QED BY <1>2, <1>3

\* The operator switches or deletes a tool.
LEMMA TouchStep == ASSUME ImportInv, NEW r \in RowIds, Touch(r) PROVE ImportInv'
<1>1. /\ touches < MaxTouches /\ touches' = touches + 1 /\ r \in Present(tools)
      /\ offered' = {q \in Present(tools') : tools'[q].enabled} /\ imports' = imports
      /\ imp' = [i \in Imports |-> [imp[i] EXCEPT !.disturbed = imp[i].pc # "idle"]]
  BY DEF Touch
<1>2. tools \in ToolTables /\ tools[r] \in StoredTools
  BY <1>1 DEF ImportInv, ImportTyped, ToolTables, Present
<1>3. /\ tools' \in ToolTables
      /\ \A q \in RowIds : tools'[q] # NoRow => tools[q] # NoRow /\ tools'[q].name = tools[q].name
  <2>1. CASE tools' = [tools EXCEPT ![r] = NoRow]
    BY <1>2, <2>1 DEF ToolTables
  <2>2. CASE tools' = [tools EXCEPT ![r].enabled = ~@]
    <3> DEFINE b == ~tools[r].enabled
               new == [tools[r] EXCEPT !.enabled = b]
    <3>1. tools' = [tools EXCEPT ![r] = new]
      BY <2>2
    <3>2. b \in BOOLEAN
      OBVIOUS
    <3> HIDE DEF b
    <3>3. new \in StoredTools /\ new.name = tools[r].name
      BY <1>2, <3>2 DEF StoredTools
    <3> HIDE DEF new
    <3>4. tools[r] # NoRow
      BY <1>1 DEF Present
    <3> QED BY <1>2, <3>1, <3>3, <3>4 DEF ToolTables
  <2> QED BY <2>1, <2>2 DEF Touch
<1>4. \A a \in Present(tools') : \A b \in Others(a)' : tools'[b].name # tools'[a].name
  BY <1>3 DEF ImportInv, ImportTyped, Present, Others
<1>5. ASSUME NEW i \in Imports
      PROVE  imp'[i] \in ImportRecords /\ imp'[i].k \in 1..Len(imp'[i].spec) + 1 /\ OneInv(imp'[i], tools', offered')
  <2> DEFINE b == imp[i].pc # "idle"
             y == [imp[i] EXCEPT !.disturbed = b]
  <2>1. imp'[i] = y /\ b \in BOOLEAN
    BY <1>1
  <2>2. imp[i].pc # "idle" <=> b
    OBVIOUS
  <2> HIDE DEF b
  <2>3. /\ y \in ImportRecords /\ y.pc = imp[i].pc /\ y.spec = imp[i].spec /\ y.k = imp[i].k
        /\ y.snap = imp[i].snap /\ y.matched = imp[i].matched /\ y.disturbed = b
    BY <2>1, ImportIs DEF ImportRecords
  <2> HIDE DEF y
  <2>4. y.disturbed <=> b
    BY <2>3
  <2>5. OneInv(y, tools', offered')
    BY <2>2, <2>3, <2>4, ImportIs DEF OneInv
  <2>6. y.k \in 1..Len(y.spec) + 1
    BY <2>3, ImportIs
  <2> QED BY <2>1, <2>3, <2>5, <2>6
<1>6. imp' \in [Imports -> ImportRecords]
  <2>1. imp' = [i \in Imports |-> imp'[i]]
    BY <1>1
  <2> QED BY <1>5, <2>1
<1>7. offered' \in SUBSET RowIds
  BY <1>1 DEF Present
<1>8. touches' \in 0..MaxTouches /\ imports' \in 0..MaxImports
  BY <1>1, ImportAssumption DEF ImportInv, ImportTyped
<1> QED BY <1>3, <1>4, <1>5, <1>6, <1>7, <1>8 DEF ImportInv, ImportTyped

\* The process stops.
LEMMA ImportCrashStep == ASSUME ImportInv, ImportCrash PROVE ImportInv'
<1>1. imp' = [i \in Imports |-> NoImport] /\ offered' = Enabled /\ UNCHANGED <<tools, touches, imports>>
  BY DEF ImportCrash
<1>2. imp' \in [Imports -> ImportRecords] /\ \A i \in Imports : imp'[i] = NoImport
  BY <1>1, NoImportTyped
<1>3. \A i \in Imports : OneInv(imp'[i], tools', offered') /\ imp'[i].k \in 1..Len(imp'[i].spec) + 1
  <2>1. NoImport.pc = "idle" /\ NoImport.k \in 1..Len(NoImport.spec) + 1
    BY NoImportTyped
  <2> QED BY <1>2, <2>1 DEF OneInv
<1>4. offered' \in SUBSET RowIds
  BY <1>1 DEF Enabled, Present
<1>5. \A a \in Present(tools') : \A b \in Others(a)' : tools'[b].name # tools'[a].name
  BY <1>1 DEF ImportInv, ImportTyped, Others, Present
<1> QED BY <1>1, <1>2, <1>3, <1>4, <1>5 DEF ImportInv, ImportTyped

\* The invariant holds at the start.
LEMMA ImportInvInit == ImportInit => ImportInv
<1> SUFFICES ASSUME ImportInit PROVE ImportInv
  OBVIOUS
<1>1. \A i \in Imports : imp[i] = NoImport
  BY DEF ImportInit
<1>2. NoImport.pc = "idle"
  BY NoImportTyped
<1> QED BY <1>1, <1>2, ImportTypedInit DEF ImportInv, OneInv

\* Every step keeps it.
LEMMA ImportInvStep == ImportInv /\ [ImportNext]_importVars => ImportInv'
<1> SUFFICES ASSUME ImportInv, [ImportNext]_importVars PROVE ImportInv'
  OBVIOUS
<1>1. CASE UNCHANGED importVars
  BY <1>1 DEF ImportInv, ImportTyped, importVars, Others, Present
<1>2. ASSUME NEW i \in Imports, ImportFails(i) PROVE ImportInv'
  BY <1>2, EndStep DEF ImportFails
<1>3. ASSUME NEW i \in Imports, NEW r \in RowIds,
             MergeUpdate(i, r) \/ MergeCreate(i, r) \/ DeprecateUnmatched(i, r)
      PROVE  ImportInv'
  BY <1>3, UpdateStep, CreateStep, DeprecateStep
<1> QED BY <1>1, <1>2, <1>3, StartStep, ReadStep, ReloadStep, AnswerStep, TouchStep, ImportCrashStep DEF ImportNext

\* An import that is done has nothing left to match.
LEMMA ImportFromInv == ImportInv => ImportTypeOK /\ ImportIsComplete
<1> SUFFICES ASSUME ImportInv PROVE ImportTypeOK /\ ImportIsComplete
  OBVIOUS
<1>1. ImportTypeOK
  BY ImportTypeFromTyped DEF ImportInv
<1> DEFINE live == {r \in Present(tools) : ~tools[r].deprecated}
<1>2. ASSUME NEW i \in Imports, imp[i].pc = "done", ~imp[i].disturbed
      PROVE  LET spec == imp[i].spec
             IN /\ \A k \in DOMAIN spec :
                     \/ \E r \in live : /\ tools[r].name = spec[k].name
                                        /\ tools[r].endpoint = spec[k].endpoint
                     \/ Excused(spec, imp[i].snap, k)
                /\ \A r \in live : \E k \in DOMAIN spec : tools[r].name = spec[k].name
                /\ offered = Enabled
  <2>1. /\ Progress(imp[i], tools) /\ imp[i].k > Len(imp[i].spec) /\ offered = Enabled
        /\ \A r \in Present(imp[i].snap) : r \in imp[i].matched \/ imp[i].snap[r].deprecated
    BY <1>2, ImportIs, EnabledIs DEF OneInv
  <2>2. \A k \in DOMAIN imp[i].spec : k < imp[i].k
    <3>1. DOMAIN imp[i].spec = 1..Len(imp[i].spec) /\ Len(imp[i].spec) \in Nat /\ imp[i].k \in Nat
      BY ImportIs, ParsedIs DEF ImportRecords
    <3> QED BY <2>1, <3>1
  <2>3. ASSUME NEW k \in DOMAIN imp[i].spec
        PROVE  \/ \E r \in live : /\ tools[r].name = imp[i].spec[k].name
                                  /\ tools[r].endpoint = imp[i].spec[k].endpoint
               \/ Excused(imp[i].spec, imp[i].snap, k)
    BY <2>1, <2>2 DEF Progress, HasRow
  <2>4. ASSUME NEW r \in live PROVE \E k \in DOMAIN imp[i].spec : tools[r].name = imp[i].spec[k].name
    BY <2>1 DEF Progress, NamedBy
  <2> QED BY <2>1, <2>3, <2>4
<1>3. ImportIsComplete
  BY <1>2 DEF ImportIsComplete, Excused
<1> QED BY <1>1, <1>3

-----------------------------------------------------------------------------
(* The knowledge graph.                                                    *)

EdgesTyped ==
  /\ implied \in Surfaces /\ staticHash \in Surfaces \union {{}}
  /\ node \in [Entities -> NodeKinds \union {NoNode}]
  /\ edge \in [Links -> EdgeRows \union {NoEdge}]
  /\ sync \in [Syncs -> SyncRuns \union {NotBusy}]
  /\ writer \in [Writers -> WriterRuns \union {NotBusy}]
  /\ curated \in 0..MaxCurations

\* The edges es have their nodes among ns.
Joined(es, ns) == \A l \in Links : es[l] # NoEdge => \A e \in EndsOf(l) : ns[e] # NoNode

\* What the writers ws found is there in es, unless they will find it gone.
FoundIn(ws, es) ==
  \A w \in Writers :
    ws[w] # NotBusy /\ ws[w].found # NoEdge /\ ~ ws[w].gone => es[ws[w].link] # NoEdge

EdgesInv == EdgesTyped /\ Joined(edge, node) /\ FoundIn(writer, edge)

\* What the invariant says of the types.
LEMMA EdgesFromInv == EdgesInv => EdgesTypeOK
BY DEF EdgesInv, EdgesTyped, Joined, EdgesTypeOK

\* The ends of a link are entities.
LEMMA EndsIs == ASSUME NEW l \in Links PROVE EndsOf(l) \subseteq Entities
BY EdgesAssumption DEF EndsOf

\* The record of a writer that is busy.
LEMMA WriterIs ==
  ASSUME EdgesTyped, NEW w \in Writers, writer[w] # NotBusy
  PROVE  /\ writer[w] \in WriterRuns /\ writer[w].link \in Links /\ writer[w].gone \in BOOLEAN
         /\ writer[w].found \in EdgeRows \union {NoEdge}
BY DEF EdgesTyped, WriterRuns

\* A person decides once more.
LEMMA CuratedGoesOn == ASSUME EdgesTyped, Curate PROVE curated' \in 0..MaxCurations
<1>1. curated \in 0..MaxCurations /\ curated < MaxCurations /\ curated' = curated + 1
  BY DEF EdgesTyped, Curate
<1>2. MaxCurations \in Nat
  BY EdgesAssumption
<1> QED BY <1>1, <1>2

\* At the start no edge is there.
LEMMA EdgesInvInit == EdgesInit => EdgesInv
<1> SUFFICES ASSUME EdgesInit PROVE EdgesInv
  OBVIOUS
<1>1. 0 \in 0..MaxCurations
  BY EdgesAssumption
<1>2. EdgesTyped
  BY <1>1 DEF EdgesInit, EdgesTyped
<1>3. Joined(edge, node) /\ FoundIn(writer, edge)
  BY DEF EdgesInit, Joined, FoundIn
<1> QED BY <1>2, <1>3 DEF EdgesInv

\* A row replaced by a row leaves what is found.
LEMMA EdgeWritten ==
  ASSUME EdgesInv, NEW l \in Links, NEW r \in EdgeRows, edge' = [edge EXCEPT ![l] = r],
         \A e \in EndsOf(l) : node'[e] # NoNode,
         \A e \in Entities : node[e] # NoNode => node'[e] # NoNode
  PROVE  /\ edge' \in [Links -> EdgeRows \union {NoEdge}] /\ Joined(edge', node')
         /\ FoundIn(writer, edge')
         /\ \A w \in Writers : FoundIn([writer EXCEPT ![w] = NotBusy], edge')
<1>1. edge \in [Links -> EdgeRows \union {NoEdge}] /\ NoEdge \notin EdgeRows
  BY EdgesAssumption DEF EdgesInv, EdgesTyped
<1>2. \A k \in Links : edge'[k] = IF k = l THEN r ELSE edge[k]
  BY <1>1
<1>3. Joined(edge', node')
  <2> SUFFICES ASSUME NEW k \in Links, edge'[k] # NoEdge, NEW e \in EndsOf(k) PROVE node'[e] # NoNode
    BY DEF Joined
  <2>1. CASE k = l
    BY <2>1
  <2>2. CASE k # l
    BY <1>2, <2>2, EndsIs DEF EdgesInv, Joined
  <2> QED BY <2>1, <2>2
<1>4. FoundIn(writer, edge')
  <2> SUFFICES ASSUME NEW w \in Writers, writer[w] # NotBusy, writer[w].found # NoEdge, ~ writer[w].gone
               PROVE  edge'[writer[w].link] # NoEdge
    BY DEF FoundIn
  <2>1. writer[w].link \in Links /\ edge[writer[w].link] # NoEdge
    BY WriterIs DEF EdgesInv, FoundIn
  <2> QED BY <1>1, <1>2, <2>1
<1>5. ASSUME NEW w \in Writers PROVE FoundIn([writer EXCEPT ![w] = NotBusy], edge')
  <2>1. writer \in [Writers -> WriterRuns \union {NotBusy}]
    BY DEF EdgesInv, EdgesTyped
  <2> QED BY <1>4, <2>1 DEF FoundIn
<1>6. edge' \in [Links -> EdgeRows \union {NoEdge}]
  BY <1>1
<1> QED BY <1>3, <1>4, <1>5, <1>6

\* A change to an edge by a writer or a person keeps a row a row.
LEMMA RowChanged ==
  ASSUME NEW r \in EdgeRows, NEW s \in Statuses, NEW k \in NodeKinds \union {"LLM"}, NEW b \in BOOLEAN
  PROVE  /\ [r EXCEPT !.status = s, !.manual = b] \in EdgeRows
         /\ [r EXCEPT !.source = k, !.status = s] \in EdgeRows
         /\ [r EXCEPT !.status = s] \in EdgeRows
         /\ [r EXCEPT !.status = s, !.manual = b].status = s
         /\ [r EXCEPT !.source = k, !.status = s].status = s
         /\ [r EXCEPT !.status = s].status = s
BY DEF EdgeRows

\* An edge that is there.
LEMMA EdgeIs ==
  ASSUME NEW s \in Statuses, NEW k \in NodeKinds \union {"LLM"}, NEW b \in BOOLEAN
  PROVE  Edge(s, k, b) \in EdgeRows
BY DEF EdgeRows, Edge

\* A person sets the status of an edge.
LEMMA UpdateEdgeKeeps ==
  ASSUME EdgesInv, NEW l \in Links, NEW status \in Statuses, NEW noted \in BOOLEAN,
         updateEdge(l, status, noted)
  PROVE  EdgesInv'
<1>1. EdgesTyped
  BY DEF EdgesInv
<1> DEFINE b == edge[l].manual \/ noted
           r == [edge[l] EXCEPT !.status = status, !.manual = b]
<1>2. /\ Curate /\ edge[l] # NoEdge /\ UNCHANGED <<implied, node, staticHash, sync, writer>>
      /\ edge' = [edge EXCEPT ![l].status = status, ![l].manual = @ \/ noted]
  BY DEF updateEdge
<1>3. edge \in [Links -> EdgeRows \union {NoEdge}] /\ edge[l] \in EdgeRows
  BY <1>1, <1>2 DEF EdgesTyped
<1>4. edge' = [edge EXCEPT ![l] = r]
  BY <1>2, <1>3 DEF EdgeRows
<1>5. b \in BOOLEAN
  OBVIOUS
<1> HIDE DEF b
<1>6. r \in EdgeRows
  BY <1>3, <1>5, RowChanged
<1> HIDE DEF r
<1>7. \A e \in EndsOf(l) : node'[e] # NoNode
  BY <1>2 DEF EdgesInv, Joined
<1>8. edge' \in [Links -> EdgeRows \union {NoEdge}] /\ Joined(edge', node') /\ FoundIn(writer, edge')
  BY <1>2, <1>4, <1>6, <1>7, EdgeWritten
<1>9. curated' \in 0..MaxCurations
  BY <1>1, <1>2, CuratedGoesOn
<1> QED BY <1>1, <1>2, <1>8, <1>9 DEF EdgesInv, EdgesTyped

\* A person draws an edge.
LEMMA CreateManualEdgeKeeps ==
  ASSUME EdgesInv, NEW l \in Links, createManualEdge(l)
  PROVE  EdgesInv'
<1>1. EdgesTyped
  BY DEF EdgesInv
<1>2. /\ Curate /\ \A e \in EndsOf(l) : node[e] # NoNode
      /\ edge' = [edge EXCEPT ![l] = Edge("active", "MANUAL", TRUE)]
      /\ UNCHANGED <<implied, node, staticHash, sync, writer>>
  BY DEF createManualEdge
<1>3. Edge("active", "MANUAL", TRUE) \in EdgeRows
  BY EdgeIs DEF Statuses, NodeKinds
<1>4. edge' \in [Links -> EdgeRows \union {NoEdge}] /\ Joined(edge', node') /\ FoundIn(writer, edge')
  BY <1>2, <1>3, EdgeWritten
<1>5. curated' \in 0..MaxCurations
  BY <1>1, <1>2, CuratedGoesOn
<1> QED BY <1>1, <1>2, <1>4, <1>5 DEF EdgesInv, EdgesTyped

\* Edges are deleted, and the writers that found one of them will find it gone.
LEMMA OrphanedIs ==
  ASSUME EdgesTyped, FoundIn(writer, edge), NEW ls, NEW es,
         \A l \in Links \ ls : edge[l] # NoEdge => es[l] # NoEdge
  PROVE  /\ Orphaned(ls) \in [Writers -> WriterRuns \union {NotBusy}]
         /\ FoundIn(Orphaned(ls), es)
         /\ \A w \in Writers : Orphaned(ls)[w] = NotBusy <=> writer[w] = NotBusy
<1>1. ASSUME NEW w \in Writers
      PROVE  /\ Orphaned(ls)[w] \in WriterRuns \union {NotBusy}
             /\ Orphaned(ls)[w] = NotBusy <=> writer[w] = NotBusy
             /\ Orphaned(ls)[w] # NotBusy /\ Orphaned(ls)[w].found # NoEdge /\ ~ Orphaned(ls)[w].gone
                  => es[Orphaned(ls)[w].link] # NoEdge
  <2>1. CASE writer[w] # NotBusy /\ writer[w].link \in ls
    <3> DEFINE b == writer[w].found # NoEdge \/ writer[w].gone
               o == [writer[w] EXCEPT !.gone = b]
    <3>1. Orphaned(ls)[w] = o
      BY <2>1 DEF Orphaned
    <3>2. b \in BOOLEAN /\ (writer[w].found # NoEdge => b)
      OBVIOUS
    <3>3. writer[w] \in WriterRuns
      BY <2>1, WriterIs
    <3> HIDE DEF b
    <3>4. o \in WriterRuns /\ o.found = writer[w].found /\ o.gone = b
      BY <3>2, <3>3 DEF WriterRuns
    <3>5. o.gone <=> b
      BY <3>4
    <3>6. o # NotBusy
      BY <3>4, EdgesAssumption
    <3> HIDE DEF o
    <3> QED BY <2>1, <3>1, <3>2, <3>4, <3>5, <3>6
  <2>2. CASE writer[w] # NotBusy /\ writer[w].link \notin ls
    <3>1. Orphaned(ls)[w] = writer[w]
      BY <2>2 DEF Orphaned
    <3>2. writer[w] \in WriterRuns /\ writer[w].link \in Links
      BY <2>2, WriterIs
    <3>3. writer[w].found # NoEdge /\ ~ writer[w].gone => edge[writer[w].link] # NoEdge
      BY <2>2 DEF FoundIn
    <3> QED BY <2>2, <3>1, <3>2, <3>3
  <2>3. CASE writer[w] = NotBusy
    BY <2>3 DEF Orphaned
  <2> QED BY <2>1, <2>2, <2>3
<1>2. Orphaned(ls) = [w \in Writers |-> Orphaned(ls)[w]]
  BY DEF Orphaned
<1>3. Orphaned(ls) \in [Writers -> WriterRuns \union {NotBusy}]
  BY <1>1, <1>2
<1> QED BY <1>1, <1>3 DEF FoundIn

\* Edges that go.
LEMMA WithoutIs ==
  ASSUME EdgesTyped, NEW ls
  PROVE  /\ Without(ls) \in [Links -> EdgeRows \union {NoEdge}]
         /\ \A l \in Links : Without(ls)[l] = IF l \in ls THEN NoEdge ELSE edge[l]
BY DEF EdgesTyped, Without

\* A person deletes an edge.
LEMMA DeleteEdgeKeeps == ASSUME EdgesInv, NEW l \in Links, deleteEdge(l) PROVE EdgesInv'
<1>1. EdgesTyped /\ Joined(edge, node) /\ FoundIn(writer, edge)
  BY DEF EdgesInv
<1>2. /\ Curate /\ edge' = Without({l}) /\ writer' = Orphaned({l})
      /\ UNCHANGED <<implied, node, staticHash, sync>>
  BY DEF deleteEdge
<1>3. /\ edge' \in [Links -> EdgeRows \union {NoEdge}]
      /\ \A k \in Links : edge'[k] = IF k \in {l} THEN NoEdge ELSE edge[k]
  BY <1>1, <1>2, WithoutIs
<1>4. writer' \in [Writers -> WriterRuns \union {NotBusy}] /\ FoundIn(writer', edge')
  <2>1. \A k \in Links \ {l} : edge[k] # NoEdge => edge'[k] # NoEdge
    BY <1>3
  <2> HIDE DEF FoundIn
  <2> QED BY <1>1, <1>2, <2>1, OrphanedIs
<1>5. Joined(edge', node')
  BY <1>1, <1>2, <1>3 DEF Joined
<1>6. curated' \in 0..MaxCurations
  BY <1>1, <1>2, CuratedGoesOn
<1> QED BY <1>1, <1>2, <1>3, <1>4, <1>5, <1>6 DEF EdgesInv, EdgesTyped

\* A person adds an entity.
LEMMA CreateNodeKeeps == ASSUME EdgesInv, NEW e \in Entities, createNode(e) PROVE EdgesInv'
<1>1. EdgesTyped /\ Joined(edge, node) /\ FoundIn(writer, edge) /\ NoNode \notin NodeKinds
  BY EdgesAssumption DEF EdgesInv
<1>2. /\ Curate /\ node' = [node EXCEPT ![e] = "MANUAL"]
      /\ UNCHANGED <<implied, edge, staticHash, sync, writer>>
  BY DEF createNode
<1>3. "MANUAL" \in NodeKinds
  BY DEF NodeKinds
<1>4. node' \in [Entities -> NodeKinds \union {NoNode}]
  BY <1>1, <1>2, <1>3 DEF EdgesTyped
<1>5. \A x \in Entities : node[x] # NoNode => node'[x] # NoNode
  BY <1>1, <1>2, <1>3 DEF EdgesTyped
<1>6. Joined(edge', node')
  BY <1>1, <1>2, <1>5, EndsIs DEF Joined
<1>7. curated' \in 0..MaxCurations
  BY <1>1, <1>2, CuratedGoesOn
<1> QED BY <1>1, <1>2, <1>4, <1>6, <1>7 DEF EdgesInv, EdgesTyped

\* A person deletes an entity, and its edges go.
LEMMA DeleteNodeKeeps == ASSUME EdgesInv, NEW e \in Entities, deleteNode(e) PROVE EdgesInv'
<1>1. EdgesTyped /\ Joined(edge, node) /\ FoundIn(writer, edge)
  BY DEF EdgesInv
<1> DEFINE ls == {l \in Links : e \in EndsOf(l)}
<1>2. /\ Curate /\ node' = [node EXCEPT ![e] = NoNode] /\ edge' = Without(ls) /\ writer' = Orphaned(ls)
      /\ UNCHANGED <<implied, staticHash, sync>>
  BY DEF deleteNode
<1>3. /\ edge' \in [Links -> EdgeRows \union {NoEdge}]
      /\ \A k \in Links : edge'[k] = IF k \in ls THEN NoEdge ELSE edge[k]
  BY <1>1, <1>2, WithoutIs
<1>4. writer' \in [Writers -> WriterRuns \union {NotBusy}] /\ FoundIn(writer', edge')
  <2>1. \A k \in Links \ ls : edge[k] # NoEdge => edge'[k] # NoEdge
    BY <1>3
  <2> HIDE DEF ls
  <2> QED BY <1>1, <1>2, <2>1, OrphanedIs
<1>5. node' \in [Entities -> NodeKinds \union {NoNode}]
  BY <1>1, <1>2 DEF EdgesTyped
<1>6. Joined(edge', node')
  <2> SUFFICES ASSUME NEW k \in Links, edge'[k] # NoEdge, NEW x \in EndsOf(k) PROVE node'[x] # NoNode
    BY DEF Joined
  <2>1. k \notin ls /\ edge[k] # NoEdge
    BY <1>3
  <2>2. x # e /\ x \in Entities
    BY <2>1, EndsIs
  <2> QED BY <1>1, <1>2, <2>1, <2>2 DEF Joined, EdgesTyped
<1>7. curated' \in 0..MaxCurations
  BY <1>1, <1>2, CuratedGoesOn
<1> QED BY <1>1, <1>2, <1>3, <1>4, <1>5, <1>6, <1>7 DEF EdgesInv, EdgesTyped

\* The fields of a sync under way.
LEMMA SyncIs ==
  ASSUME EdgesTyped, NEW s \in Syncs, sync[s] # NotBusy
  PROVE  sync[s] \in SyncRuns /\ sync[s].graph \in Surfaces /\ sync[s].pc \in {"persist", "stamp"}
BY DEF EdgesTyped, SyncRuns

\* A sync reads, writes or stamps.
LEMMA SyncStepKeeps ==
  ASSUME EdgesInv, NEW s \in Syncs, (\E force \in BOOLEAN : ReadTools(s, force)) \/ StampHash(s)
  PROVE  EdgesInv'
<1>1. EdgesTyped
  BY DEF EdgesInv
<1>2. UNCHANGED <<implied, node, edge, writer, curated>>
  BY DEF ReadTools, StampHash
<1>3. sync' \in [Syncs -> SyncRuns \union {NotBusy}]
  <2>1. [graph |-> implied, pc |-> "persist"] \in SyncRuns
    BY <1>1 DEF EdgesTyped, SyncRuns
  <2> QED BY <1>1, <2>1 DEF EdgesTyped, ReadTools, StampHash
<1>4. staticHash' \in Surfaces \union {{}}
  BY <1>1, SyncIs DEF EdgesTyped, ReadTools, StampHash
<1> QED BY <1>1, <1>2, <1>3, <1>4 DEF EdgesInv, EdgesTyped, Joined, FoundIn

\* What a sync makes of the nodes and the edges.
LEMMA PersistIs ==
  ASSUME EdgesInv, NEW s \in Syncs, persist(s)
  PROVE  /\ EdgesInv'
         /\ \A l \in Links : edge[l] # NoEdge /\ edge'[l] # NoEdge => edge'[l] = edge[l]
<1>1. EdgesTyped /\ Joined(edge, node) /\ FoundIn(writer, edge)
  BY DEF EdgesInv
<1> DEFINE g      == sync[s].graph
           swept  == {e \in Own \ g : node[e] = "STATIC"}
           sweptLinks ==
             {l \in Links : edge[l] # NoEdge /\
                \/ EndsOf(l) \intersect swept # {}
                \/ edge[l].source = "STATIC" /\ FromOf[l] \in Own /\ l \notin g}
<1>2. /\ sync[s] # NotBusy
      /\ node' = [e \in Entities |->
                   IF e \in swept THEN NoNode
                   ELSE IF e \in g /\ node[e] = NoNode THEN "STATIC" ELSE node[e]]
      /\ edge' = [l \in Links |->
                   IF l \in sweptLinks THEN NoEdge
                   ELSE IF l \in g /\ edge[l] = NoEdge
                        THEN Edge("active", "STATIC", FALSE) ELSE edge[l]]
      /\ writer' = Orphaned(sweptLinks)
      /\ sync' = [sync EXCEPT ![s].pc = "stamp"]
      /\ UNCHANGED <<implied, staticHash, curated>>
  BY DEF persist
<1>3. sync[s] \in SyncRuns /\ g \in Surfaces
  BY <1>1, <1>2, SyncIs
<1>4. \A l \in g \intersect Links : EndsOf(l) \subseteq g /\ EndsOf(l) \subseteq Entities
  BY <1>3, EdgesAssumption, EndsIs DEF EndsOf
<1>5. Edge("active", "STATIC", FALSE) \in EdgeRows
  BY EdgeIs DEF Statuses, NodeKinds
<1>6. "STATIC" \in NodeKinds /\ NoNode \notin NodeKinds /\ NoEdge \notin EdgeRows
  BY EdgesAssumption DEF NodeKinds
<1>7. sync' \in [Syncs -> SyncRuns \union {NotBusy}]
  <2>1. sync' = [sync EXCEPT ![s] = [sync[s] EXCEPT !.pc = "stamp"]]
    BY <1>2
  <2>2. [sync[s] EXCEPT !.pc = "stamp"] \in SyncRuns
    BY <1>3 DEF SyncRuns
  <2> QED BY <1>1, <2>1, <2>2 DEF EdgesTyped
<1> HIDE DEF g
<1>8. node' \in [Entities -> NodeKinds \union {NoNode}]
  BY <1>1, <1>2, <1>6 DEF EdgesTyped
<1>9. /\ \A l \in Links :
           edge'[l] = IF l \in sweptLinks THEN NoEdge
                      ELSE IF l \in g /\ edge[l] = NoEdge
                           THEN Edge("active", "STATIC", FALSE) ELSE edge[l]
      /\ edge' \in [Links -> EdgeRows \union {NoEdge}]
  BY <1>1, <1>2, <1>5 DEF EdgesTyped
<1>10. Joined(edge', node')
  <2> SUFFICES ASSUME NEW l \in Links, edge'[l] # NoEdge, NEW e \in EndsOf(l) PROVE node'[e] # NoNode
    BY DEF Joined
  <2>1. l \notin sweptLinks /\ e \in Entities
    BY <1>9, EndsIs
  <2>2. CASE edge[l] # NoEdge
    <3>1. e \notin swept
      BY <2>1, <2>2
    <3>2. node[e] # NoNode
      BY <1>1, <2>2 DEF Joined
    <3> HIDE DEF swept
    <3> QED BY <1>2, <2>1, <3>1, <3>2
  <2>3. CASE edge[l] = NoEdge
    <3>1. l \in g
      BY <1>9, <2>1, <2>3
    <3>2. e \in g
      BY <1>4, <3>1
    <3>3. e \notin swept
      BY <3>2
    <3> HIDE DEF swept
    <3> QED BY <1>2, <1>6, <2>1, <3>2, <3>3
  <2> QED BY <2>2, <2>3
<1>11. writer' \in [Writers -> WriterRuns \union {NotBusy}] /\ FoundIn(writer', edge')
  <2>1. \A l \in Links \ sweptLinks : edge[l] # NoEdge => edge'[l] # NoEdge
    BY <1>9
  <2> HIDE DEF sweptLinks
  <2> QED BY <1>1, <1>2, <2>1, OrphanedIs
<1>12. EdgesInv'
  <2> HIDE DEF sweptLinks, swept
  <2> QED BY <1>1, <1>2, <1>7, <1>8, <1>9, <1>10, <1>11 DEF EdgesInv, EdgesTyped
<1> QED BY <1>9, <1>12

\* A writer has read an edge.
LEMMA ReadingKeeps ==
  ASSUME EdgesInv, NEW w \in Writers, NEW l \in Links, ReadToBump(w, l) \/ ReadToEnrich(w, l)
  PROVE  EdgesInv'
<1>1. EdgesTyped /\ Joined(edge, node) /\ FoundIn(writer, edge) /\ NoNode \notin NodeKinds
  BY EdgesAssumption DEF EdgesInv
<1>2. PICK does \in {"bump", "enrich"} : Reading(w, does, l)
  BY DEF ReadToBump, ReadToEnrich
<1>3. UNCHANGED <<implied, edge, staticHash, sync, curated>>
  BY DEF ReadToBump, ReadToEnrich
<1>4. /\ node' \in [Entities -> NodeKinds \union {NoNode}]
      /\ \A e \in Entities : node[e] # NoNode => node'[e] # NoNode
  <2>1. CASE UNCHANGED node
    BY <1>1, <2>1 DEF EdgesTyped
  <2>2. CASE node' = [e \in Entities |-> IF e \in EndsOf(l) /\ node[e] = NoNode THEN "OBSERVED" ELSE node[e]]
    BY <1>1, <2>2 DEF EdgesTyped, NodeKinds
  <2> QED BY <2>1, <2>2 DEF ReadToBump, ReadToEnrich
<1>5. Joined(edge', node')
  BY <1>1, <1>3, <1>4, EndsIs DEF Joined
<1> DEFINE r == [does |-> does, link |-> l, found |-> edge[l], gone |-> FALSE]
<1>6. writer' = [writer EXCEPT ![w] = r]
  BY <1>2 DEF Reading
<1>7. r \in WriterRuns /\ r.found = edge[l] /\ r.link = l
  BY <1>1 DEF EdgesTyped, WriterRuns
<1> HIDE DEF r
<1>8. writer' \in [Writers -> WriterRuns \union {NotBusy}] /\ FoundIn(writer', edge)
  BY <1>1, <1>6, <1>7 DEF EdgesTyped, FoundIn
<1> QED BY <1>1, <1>3, <1>4, <1>5, <1>8 DEF EdgesInv, EdgesTyped

\* A writer has written, and is free.
LEMMA WriterEnds ==
  ASSUME EdgesInv, NEW w \in Writers, Done(w)
  PROVE  /\ writer' \in [Writers -> WriterRuns \union {NotBusy}] /\ FoundIn(writer', edge)
         /\ writer'[w] = NotBusy
BY DEF EdgesInv, EdgesTyped, Done, FoundIn

\* A writer gives up.
LEMMA GiveUpKeeps == ASSUME EdgesInv, NEW w \in Writers, GiveUp(w) PROVE EdgesInv'
<1>1. Done(w) /\ UNCHANGED <<implied, node, edge, staticHash, sync, curated>>
  BY DEF GiveUp
<1>2. writer' \in [Writers -> WriterRuns \union {NotBusy}] /\ FoundIn(writer', edge)
  BY <1>1, WriterEnds
<1> QED BY <1>1, <1>2 DEF EdgesInv, EdgesTyped, Joined

\* What a writer makes of the edge it read: a new one, or the one that is there with the
\* status it had unless the writer did not spare what it found.
LEMMA WritesIs ==
  ASSUME EdgesInv, NEW w \in Writers,
         bumpEdge(w) \/ \E applied \in BOOLEAN : upsertLlmEdge(w, applied)
  PROVE  /\ writer[w] # NotBusy /\ Done(w) /\ writer[w].link \in Links
         /\ UNCHANGED <<implied, node, staticHash, sync, curated>>
         /\ \A e \in EndsOf(writer[w].link) : node[e] # NoNode
         /\ \E r \in EdgeRows :
              /\ edge' = [edge EXCEPT ![writer[w].link] = r]
              /\ edge[writer[w].link] # NoEdge /\ r.status # edge[writer[w].link].status =>
                   /\ ~ Decided(writer[w].found)
                   /\ edge[writer[w].link].status = "active" => writer[w].link \in Suggesting
<1>1. EdgesTyped /\ Joined(edge, node) /\ FoundIn(writer, edge)
  BY DEF EdgesInv
<1>2. writer[w] # NotBusy /\ ~ WriteFails(w) /\ Done(w) /\ UNCHANGED <<implied, node, staticHash, sync, curated>>
  BY DEF bumpEdge, upsertLlmEdge, Writes
<1> DEFINE l == writer[w].link
           f == writer[w].found
<1>3. l \in Links /\ f \in EdgeRows \union {NoEdge} /\ writer[w].gone \in BOOLEAN
  BY <1>1, <1>2, WriterIs
<1>4. /\ edge \in [Links -> EdgeRows \union {NoEdge}] /\ NoEdge \notin EdgeRows
  BY <1>1, EdgesAssumption DEF EdgesTyped
<1>5. CASE f = NoEdge
  <2>1. edge[l] = NoEdge /\ \A e \in EndsOf(l) : node[e] # NoNode
    BY <1>2, <1>5 DEF WriteFails
  <2>3. PICK s \in Statuses, k \in NodeKinds \union {"LLM"} : edge' = [edge EXCEPT ![l] = Edge(s, k, FALSE)]
    <3>1. {"active", "suggested"} \subseteq Statuses /\ {"OBSERVED", "LLM"} \subseteq NodeKinds \union {"LLM"}
      BY DEF Statuses, NodeKinds
    <3>2. CASE bumpEdge(w)
      <4>1. edge' = [edge EXCEPT ![l] = Edge(StatusSeen(l), "OBSERVED", FALSE)]
        BY <1>5, <3>2 DEF bumpEdge, Bumped
      <4>2. StatusSeen(l) \in Statuses
        BY <3>1 DEF StatusSeen
      <4> QED BY <3>1, <4>1, <4>2
    <3>3. ASSUME NEW applied \in BOOLEAN, upsertLlmEdge(w, applied)
          PROVE  \E s \in Statuses : edge' = [edge EXCEPT ![l] = Edge(s, "LLM", FALSE)]
      <4>1. edge' = [edge EXCEPT ![l] = Edge(IF applied THEN "active" ELSE "suggested", "LLM", FALSE)]
        BY <1>5, <3>3 DEF upsertLlmEdge
      <4>2. (IF applied THEN "active" ELSE "suggested") \in Statuses
        BY <3>1
      <4> QED BY <4>1, <4>2
    <3> QED BY <3>1, <3>2, <3>3
  <2>4. Edge(s, k, FALSE) \in EdgeRows
    BY EdgeIs
  <2> QED BY <1>2, <1>3, <2>1, <2>3, <2>4
<1>6. CASE f # NoEdge
  <2>1. edge[l] # NoEdge /\ edge[l] \in EdgeRows
    BY <1>1, <1>2, <1>3, <1>4, <1>6 DEF WriteFails, FoundIn
  <2>2. \A e \in EndsOf(l) : node[e] # NoNode
    BY <1>1, <1>3, <2>1 DEF Joined
  <2>3. edge[l].status \in Statuses /\ edge[l].source \in NodeKinds \union {"LLM"}
    BY <2>1 DEF EdgeRows
  <2>4. ~ Spared(f) => ~ Decided(f)
    BY <1>6 DEF Spared, Decided
  <2>5. CASE bumpEdge(w)
    <3> DEFINE s == IF Spared(f) THEN edge[l].status ELSE StatusSeen(l)
               r == [edge[l] EXCEPT !.source = "OBSERVED", !.status = s]
    <3>1. edge' = [edge EXCEPT ![l] = Bumped(w)] /\ Bumped(w) = r
      BY <1>6, <2>5 DEF bumpEdge, Bumped
    <3>2. StatusSeen(l) \in Statuses /\ "OBSERVED" \in NodeKinds \union {"LLM"}
      BY DEF StatusSeen, Statuses, NodeKinds
    <3>3. s \in Statuses
      BY <2>3, <3>2
    <3>4. s # edge[l].status => ~ Decided(f) /\ (edge[l].status = "active" => l \in Suggesting)
      BY <2>4 DEF StatusSeen
    <3> HIDE DEF s
    <3>5. r \in EdgeRows /\ r.status = s
      BY <2>1, <3>2, <3>3 DEF EdgeRows
    <3> HIDE DEF r
    <3> QED BY <1>2, <1>3, <2>2, <3>1, <3>4, <3>5
  <2>6. ASSUME NEW applied \in BOOLEAN, upsertLlmEdge(w, applied)
        PROVE  \E r \in EdgeRows :
                 /\ edge' = [edge EXCEPT ![l] = r]
                 /\ r.status # edge[l].status =>
                      ~ Decided(f) /\ (edge[l].status = "active" => l \in Suggesting)
    <3>1. CASE ~ Spared(f) /\ applied /\ f.status = "suggested"
      <4> DEFINE r == [edge[l] EXCEPT !.status = "active"]
      <4>1. edge' = [edge EXCEPT ![l] = r]
        BY <1>6, <2>6, <3>1 DEF upsertLlmEdge
      <4>2. r \in EdgeRows /\ r.status = "active"
        BY <2>1 DEF EdgeRows, Statuses
      <4> HIDE DEF r
      <4> QED BY <2>4, <3>1, <4>1, <4>2
    <3>2. CASE ~ (~ Spared(f) /\ applied /\ f.status = "suggested")
      <4>1. edge' = edge
        BY <1>6, <2>6, <3>2 DEF upsertLlmEdge
      <4>2. edge' = [edge EXCEPT ![l] = edge[l]]
        BY <1>3, <1>4, <4>1
      <4> QED BY <2>1, <4>2
    <3> QED BY <3>1, <3>2
  <2> QED BY <1>2, <1>3, <2>2, <2>5, <2>6
<1> QED BY <1>5, <1>6

\* A writer writes the edge it read.
LEMMA WritesKeeps ==
  ASSUME EdgesInv, NEW w \in Writers,
         bumpEdge(w) \/ \E applied \in BOOLEAN : upsertLlmEdge(w, applied)
  PROVE  EdgesInv'
<1> DEFINE l == writer[w].link
<1>1. /\ EdgesTyped /\ Done(w) /\ l \in Links /\ UNCHANGED <<implied, node, staticHash, sync, curated>>
      /\ \A e \in EndsOf(l) : node'[e] # NoNode
      /\ \E r \in EdgeRows : edge' = [edge EXCEPT ![l] = r]
  BY WritesIs DEF EdgesInv
<1>2. PICK r \in EdgeRows : edge' = [edge EXCEPT ![l] = r]
  BY <1>1
<1> HIDE DEF l
<1>3. /\ edge' \in [Links -> EdgeRows \union {NoEdge}] /\ Joined(edge', node')
      /\ FoundIn([writer EXCEPT ![w] = NotBusy], edge')
  BY <1>1, <1>2, EdgeWritten
<1>4. writer' \in [Writers -> WriterRuns \union {NotBusy}] /\ writer' = [writer EXCEPT ![w] = NotBusy]
  BY <1>1, WriterEnds DEF Done
<1> QED BY <1>1, <1>3, <1>4 DEF EdgesInv, EdgesTyped

\* The process stops.
LEMMA EdgesCrashKeeps == ASSUME EdgesInv, EdgesCrash PROVE EdgesInv'
<1>1. /\ sync' = [s \in Syncs |-> NotBusy] /\ writer' = [w \in Writers |-> NotBusy]
      /\ UNCHANGED <<implied, node, edge, staticHash, curated>>
  BY DEF EdgesCrash
<1>2. FoundIn(writer', edge')
  BY <1>1 DEF FoundIn
<1> QED BY <1>1, <1>2 DEF EdgesInv, EdgesTyped, Joined

\* The tools change.
LEMMA ChangeToolsKeeps == ASSUME EdgesInv, ChangeTools PROVE EdgesInv'
<1>1. curated' \in 0..MaxCurations
  BY CuratedGoesOn DEF EdgesInv, ChangeTools
<1> QED BY <1>1 DEF EdgesInv, EdgesTyped, Joined, FoundIn, ChangeTools

\* Every step keeps the invariant.
LEMMA EdgesInvStep == EdgesInv /\ [EdgesNext]_edgesVars => EdgesInv'
<1> SUFFICES ASSUME EdgesInv, [EdgesNext]_edgesVars PROVE EdgesInv'
  OBVIOUS
<1>1. CASE UNCHANGED edgesVars
  BY <1>1 DEF EdgesInv, EdgesTyped, Joined, FoundIn, edgesVars
<1>2. CASE ChangeTools \/ EdgesCrash
  BY <1>2, ChangeToolsKeeps, EdgesCrashKeeps
<1>3. CASE \E l \in Links : Decides(l) \/ deleteEdge(l)
  BY <1>3, CreateManualEdgeKeeps, UpdateEdgeKeeps, DeleteEdgeKeeps DEF Decides
<1>4. CASE \E e \in Entities : createNode(e) \/ deleteNode(e)
  BY <1>4, CreateNodeKeeps, DeleteNodeKeeps
<1>5. CASE \E s \in Syncs : (\E force \in BOOLEAN : ReadTools(s, force)) \/ persist(s) \/ StampHash(s)
  BY <1>5, SyncStepKeeps, PersistIs
<1>6. CASE \E w \in Writers :
             \/ \E l \in Links : ReadToBump(w, l) \/ ReadToEnrich(w, l)
             \/ GiveUp(w) \/ bumpEdge(w) \/ \E applied \in BOOLEAN : upsertLlmEdge(w, applied)
  BY <1>6, ReadingKeeps, GiveUpKeeps, WritesKeeps
<1> QED BY <1>1, <1>2, <1>3, <1>4, <1>5, <1>6 DEF EdgesNext

\* What VerdictKept asks of a step, for the edge l.
Kept(l) ==
  edge[l] # NoEdge /\ edge'[l] # NoEdge /\ edge'[l].status # edge[l].status =>
    \/ Decides(l)
    \/ /\ edge[l].status = "active" => l \in Suggesting
       /\ \E w \in Writers :
            /\ writer[w] # NotBusy /\ writer'[w] = NotBusy
            /\ writer[w].link = l /\ ~Decided(writer[w].found)

\* No step changes the status of an edge, but those VerdictKept names.
LEMMA VerdictStep ==
  ASSUME EdgesInv, [EdgesNext]_edgesVars, NEW l \in Links
  PROVE  Kept(l)
<1>1. EdgesTyped /\ edge \in [Links -> EdgeRows \union {NoEdge}]
  BY DEF EdgesInv, EdgesTyped
<1>2. CASE edge'[l] = edge[l] \/ edge'[l] = NoEdge \/ edge[l] = NoEdge
  BY <1>2 DEF Kept
<1>3. CASE UNCHANGED edge
  BY <1>2, <1>3
<1>4. ASSUME NEW k \in Links, Decides(k) PROVE Kept(l)
  <2>1. CASE k = l
    BY <1>4, <2>1 DEF Kept
  <2>2. CASE k # l
    <3>1. edge'[l] = edge[l]
      BY <1>1, <1>4, <2>2 DEF Decides, createManualEdge, updateEdge
    <3> QED BY <1>2, <3>1
  <2> QED BY <2>1, <2>2
<1>5. ASSUME NEW ls, edge' = Without(ls) PROVE Kept(l)
  BY <1>1, <1>2, <1>5, WithoutIs
<1>6. CASE ChangeTools \/ EdgesCrash
  BY <1>3, <1>6 DEF ChangeTools, EdgesCrash
<1>7. CASE \E k \in Links : Decides(k) \/ deleteEdge(k)
  BY <1>4, <1>5, <1>7 DEF deleteEdge
<1>8. CASE \E e \in Entities : createNode(e) \/ deleteNode(e)
  BY <1>3, <1>5, <1>8 DEF createNode, deleteNode
<1>9. CASE \E s \in Syncs : (\E force \in BOOLEAN : ReadTools(s, force)) \/ persist(s) \/ StampHash(s)
  BY <1>2, <1>3, <1>9, PersistIs DEF ReadTools, StampHash
<1>10. ASSUME NEW w \in Writers, bumpEdge(w) \/ \E applied \in BOOLEAN : upsertLlmEdge(w, applied)
       PROVE  Kept(l)
  <2>1. writer[w] # NotBusy /\ writer[w].link \in Links /\ Done(w)
    BY <1>10, WritesIs
  <2>2. writer'[w] = NotBusy
    BY <2>1, WriterEnds
  <2>3. PICK r \in EdgeRows :
          /\ edge' = [edge EXCEPT ![writer[w].link] = r]
          /\ edge[writer[w].link] # NoEdge /\ r.status # edge[writer[w].link].status =>
               /\ ~ Decided(writer[w].found)
               /\ edge[writer[w].link].status = "active" => writer[w].link \in Suggesting
    BY <1>10, WritesIs
  <2>4. CASE writer[w].link # l
    <3>1. edge'[l] = edge[l]
      BY <1>1, <2>1, <2>3, <2>4
    <3> QED BY <1>2, <3>1
  <2>5. CASE writer[w].link = l
    <3>1. edge'[l] = r
      BY <1>1, <2>3, <2>5
    <3> QED BY <2>1, <2>2, <2>3, <2>5, <3>1 DEF Kept
  <2> QED BY <2>4, <2>5
<1>11. CASE \E w \in Writers :
              \/ \E k \in Links : ReadToBump(w, k) \/ ReadToEnrich(w, k)
              \/ GiveUp(w) \/ bumpEdge(w) \/ \E applied \in BOOLEAN : upsertLlmEdge(w, applied)
  BY <1>3, <1>10, <1>11 DEF ReadToBump, ReadToEnrich, GiveUp
<1> QED BY <1>3, <1>6, <1>7, <1>8, <1>9, <1>11 DEF EdgesNext, edgesVars

-----------------------------------------------------------------------------
(* The page of a connector.                                                *)

PageOps  == WriteOps \union ReadOps
Kinds    == {"spec", "import", "discover"}
OfTool   == {"edit", "enable", "proxy", "drop", "run"}
Vals     == PageTexts \union BOOLEAN \union Kinds \union {Gone}
Requests == [op : PageOps, tool : PageTools \union {NoTool}, val : Vals,
             pc : {"sent", "answered", "error", "failed"}, answer : Rows \union {Gone},
             tainted : BOOLEAN]
Flags    == {"tool", "env", "import", "discover", "run", "authorize"}
ToolLists == [PageTools -> ToolRow \union {Gone}]

\* A request has the tool and the value of its kind.
Suits(op, t, val) ==
  /\ op \in PageOps /\ t \in PageTools \union {NoTool} /\ val \in Vals
  /\ op \in {"save", "env", "create", "edit"} => val \in PageTexts
  /\ op \in {"enable", "proxy"} => val \in BOOLEAN
  /\ op = "import" => val \in Kinds
  /\ t \in PageTools <=> op \in OfTool

WireTyped(q) ==
  /\ q \in Requests /\ Suits(q.op, q.tool, q.val)
  /\ q.pc = "answered" /\ q.op \in {"get", "assigned"} => q.answer \in Rows

PageTyped ==
  /\ row \in Rows \union {Gone} /\ \A q \in wire : WireTyped(q)
  /\ page \in {"loading", "open", "left"} /\ shown \in Fields /\ assign \in BOOLEAN
  /\ toolList \in ToolLists /\ busy \in SUBSET Flags
  /\ testing \in PageTools \union {NoTool} /\ result \in PageTools \union {NoTool}
  /\ clicks \in 0..MaxClicks /\ pageFaults \in 0..MaxPageFaults
  /\ stale \in BOOLEAN /\ switched \in BOOLEAN

\* A request is as another one, whatever overlapped.
Same(a, q) == /\ a.op = q.op /\ a.tool = q.tool /\ a.val = q.val
              /\ a.pc = q.pc /\ a.answer = q.answer

\* What the types of the requests say of those of the page.
LEMMA ConnectorPageFromTyped == PageTyped => ConnectorPageTypeOK
<1> SUFFICES ASSUME PageTyped PROVE ConnectorPageTypeOK
  OBVIOUS
<1>1. \A q \in wire : q.op \in ReadOps \union WriteOps /\ q.pc \in {"sent", "answered", "error", "failed"}
  BY DEF PageTyped, WireTyped, Requests, PageOps
<1>2. {testing, result} \subseteq PageTools \union {NoTool} /\ {stale, switched} \subseteq BOOLEAN
  BY DEF PageTyped
<1> QED BY <1>1, <1>2 DEF PageTyped, ConnectorPageTypeOK, ToolLists, Flags

\* The requests that are there after another one was made.
LEMMA WithFrom ==
  ASSUME NEW w \in SUBSET Requests, NEW op, NEW t, NEW val, Suits(op, t, val),
         NEW a, a \in With(w, op, t, val)
  PROVE  /\ a \in Requests
         /\ \/ /\ a.op = op /\ a.tool = t /\ a.val = val /\ a.pc = "sent" /\ a.answer = Gone
               /\ a.tainted <=> (Writing(w) \/ (op \in WriteOps /\ w # {}))
            \/ \E q \in w : Same(a, q) /\ (a.tainted <=> q.tainted \/ op \in WriteOps)
<1>1. CASE a = NewRequest(op, t, val, w)
  <2> DEFINE b == Writing(w) \/ (op \in WriteOps /\ w # {})
  <2>1. a = [op |-> op, tool |-> t, val |-> val, pc |-> "sent", answer |-> Gone, tainted |-> b]
    BY <1>1 DEF NewRequest
  <2>2. b \in BOOLEAN
    OBVIOUS
  <2> HIDE DEF b
  <2>3. a \in Requests /\ a.op = op /\ a.tool = t /\ a.val = val /\ a.pc = "sent" /\ a.answer = Gone
        /\ a.tainted = b
    BY <2>1, <2>2 DEF Requests, Suits
  <2>4. a.tainted <=> b
    BY <2>3
  <2> QED BY <2>3, <2>4 DEF b
<1>2. ASSUME NEW q \in w, op \in WriteOps, a = [q EXCEPT !.tainted = TRUE]
      PROVE  a \in Requests /\ Same(a, q) /\ (a.tainted <=> q.tainted \/ op \in WriteOps)
  <2>1. q \in Requests
    OBVIOUS
  <2>2. a \in Requests /\ Same(a, q) /\ a.tainted = TRUE
    BY <1>2, <2>1 DEF Requests, Same
  <2> QED BY <1>2, <2>2
<1>3. CASE a \in w /\ op \notin WriteOps
  BY <1>3 DEF Same
<1> QED BY <1>1, <1>2, <1>3 DEF With

\* The request is made, and those that were there still are.
LEMMA WithHas ==
  ASSUME NEW w \in SUBSET Requests, NEW op, NEW t, NEW val, Suits(op, t, val)
  PROVE  /\ \A q \in w : \E a \in With(w, op, t, val) :
              Same(a, q) /\ (a.tainted <=> q.tainted \/ op \in WriteOps)
         /\ \E a \in With(w, op, t, val) :
              /\ a.op = op /\ a.tool = t /\ a.val = val /\ a.pc = "sent"
              /\ a.tainted <=> (Writing(w) \/ (op \in WriteOps /\ w # {}))
<1>1. ASSUME NEW q \in w
      PROVE  \E a \in With(w, op, t, val) : Same(a, q) /\ (a.tainted <=> q.tainted \/ op \in WriteOps)
  <2>1. CASE op \in WriteOps
    <3> DEFINE a == [q EXCEPT !.tainted = TRUE]
    <3>1. a \in With(w, op, t, val)
      BY <2>1 DEF With
    <3>2. q \in Requests
      OBVIOUS
    <3>3. Same(a, q) /\ a.tainted = TRUE
      BY <3>2 DEF Requests, Same
    <3> QED BY <2>1, <3>1, <3>3
  <2>2. CASE op \notin WriteOps
    BY <2>2 DEF With, Same
  <2> QED BY <2>1, <2>2
<1>2. \E a \in With(w, op, t, val) :
        /\ a.op = op /\ a.tool = t /\ a.val = val /\ a.pc = "sent"
        /\ a.tainted <=> (Writing(w) \/ (op \in WriteOps /\ w # {}))
  <2> DEFINE b == Writing(w) \/ (op \in WriteOps /\ w # {})
             a == NewRequest(op, t, val, w)
  <2>1. a \in With(w, op, t, val)
    BY DEF With
  <2>2. a = [op |-> op, tool |-> t, val |-> val, pc |-> "sent", answer |-> Gone, tainted |-> b]
    BY DEF NewRequest
  <2> HIDE DEF b, a
  <2>3. a.op = op /\ a.tool = t /\ a.val = val /\ a.pc = "sent" /\ a.tainted = b
    BY <2>2
  <2>4. a.tainted <=> b
    BY <2>3
  <2> QED BY <2>1, <2>3, <2>4 DEF b
<1> QED BY <1>1, <1>2

\* The requests keep their type when another one is made.
LEMMA WithTyped ==
  ASSUME NEW w, \A q \in w : WireTyped(q), NEW op, NEW t, NEW val, Suits(op, t, val)
  PROVE  \A a \in With(w, op, t, val) : WireTyped(a)
<1>1. w \in SUBSET Requests
  BY DEF WireTyped
<1> TAKE a \in With(w, op, t, val)
<1>2. /\ a \in Requests
      /\ \/ a.op = op /\ a.tool = t /\ a.val = val /\ a.pc = "sent"
         \/ \E q \in w : Same(a, q)
  BY <1>1, WithFrom
<1> QED BY <1>2 DEF WireTyped, Same

\* The fetches of the page are requests that suit.
LEMMA ReadsSuit == Suits("get", NoTool, Gone) /\ Suits("assigned", NoTool, Gone)
BY ConnectorPageAssumption DEF Suits, PageOps, ReadOps, Vals, OfTool

\* A request that has moved.
LEMMA MovedFrom ==
  ASSUME NEW q, q \in wire, WireTyped(q), NEW pc \in {"answered", "error", "failed"},
         NEW answer \in Rows \union {Gone}, Moved(q, pc, answer)
  PROVE  \E m \in wire' : /\ wire' = (wire \ {q}) \union {m}
                          /\ m \in Requests /\ m.op = q.op /\ m.tool = q.tool /\ m.val = q.val
                          /\ m.pc = pc /\ m.answer = answer /\ (m.tainted <=> q.tainted)
<1> DEFINE m == [q EXCEPT !.pc = pc, !.answer = answer]
<1>1. wire' = (wire \ {q}) \union {m}
  BY DEF Moved
<1>2. q \in Requests
  BY DEF WireTyped
<1>3. m \in Requests /\ m.op = q.op /\ m.tool = q.tool /\ m.val = q.val /\ m.pc = pc
      /\ m.answer = answer /\ m.tainted = q.tainted
  BY <1>2 DEF Requests
<1> HIDE DEF m
<1>4. m.tainted <=> q.tainted
  BY <1>3
<1> QED BY <1>1, <1>3, <1>4

\* The requests keep their type when one of them moves on.
LEMMA MovedTyped ==
  ASSUME PageTyped, NEW q, q \in wire, NEW pc \in {"answered", "error", "failed"},
         NEW answer \in Rows \union {Gone}, Moved(q, pc, answer),
         pc = "answered" /\ q.op \in {"get", "assigned"} => answer \in Rows
  PROVE  \A a \in wire' : WireTyped(a)
<1>1. WireTyped(q) /\ \A p \in wire : WireTyped(p)
  BY DEF PageTyped
<1>2. PICK m \in wire' :
        /\ wire' = (wire \ {q}) \union {m}
        /\ m \in Requests /\ m.op = q.op /\ m.tool = q.tool /\ m.val = q.val
        /\ m.pc = pc /\ m.answer = answer
  BY <1>1, MovedFrom
<1>3. WireTyped(m)
  BY <1>1, <1>2 DEF WireTyped
<1> QED BY <1>1, <1>2, <1>3

\* The types hold at the start.
LEMMA ConnectorPageTypedInit == ConnectorPageInit => PageTyped
<1> SUFFICES ASSUME ConnectorPageInit PROVE PageTyped
  OBVIOUS
<1>1. PICK text \in PageTexts, T \in SUBSET PageTools, b \in BOOLEAN :
        /\ row = [fields |-> [f \in {"save", "env"} |-> text], assigned |-> b,
                  tools |-> [t \in PageTools |-> IF t \in T THEN NewTool(text) ELSE Gone]]
        /\ shown = row.fields
  BY DEF ConnectorPageInit
<1>2. NewTool(text) \in ToolRow
  BY DEF NewTool, ToolRow
<1>3. row \in Rows /\ shown \in Fields
  BY <1>1, <1>2 DEF Rows, Fields
<1>4. \A q \in wire : WireTyped(q)
  <2>1. wire = With({}, "get", NoTool, Gone)
    BY DEF ConnectorPageInit, With
  <2> QED BY <2>1, ReadsSuit, WithTyped
<1>5. toolList \in ToolLists
  BY DEF ConnectorPageInit, ToolLists
<1>6. clicks \in 0..MaxClicks /\ pageFaults \in 0..MaxPageFaults
  BY ConnectorPageAssumption DEF ConnectorPageInit
<1>7. /\ page = "loading" /\ assign = FALSE /\ busy = {} /\ testing = NoTool /\ result = NoTool
      /\ stale = FALSE /\ switched = FALSE
  BY DEF ConnectorPageInit
<1> QED BY <1>3, <1>4, <1>5, <1>6, <1>7 DEF PageTyped

\* The user clicks once more.
LEMMA ClicksGoOn == ASSUME PageTyped, clicks < MaxClicks PROVE clicks + 1 \in 0..MaxClicks
<1>1. MaxClicks \in Nat /\ clicks \in 0..MaxClicks
  BY ConnectorPageAssumption DEF PageTyped
<1> QED BY <1>1

\* A request fails once more.
LEMMA FaultsGoOn == ASSUME PageTyped, pageFaults < MaxPageFaults PROVE pageFaults + 1 \in 0..MaxPageFaults
<1>1. MaxPageFaults \in Nat /\ pageFaults \in 0..MaxPageFaults
  BY ConnectorPageAssumption DEF PageTyped
<1> QED BY <1>1

\* A click makes a request that suits.
LEMMA ClickTyped ==
  ASSUME PageTyped, NEW op, NEW t, NEW val, Suits(op, t, val), Click(op, t, val)
  PROVE  /\ \A a \in wire' : WireTyped(a)
         /\ clicks' \in 0..MaxClicks /\ wire' = With(wire, op, t, val)
         /\ UNCHANGED <<row, page, shown, pageFaults, stale>>
<1>1. /\ clicks < MaxClicks /\ clicks' = clicks + 1 /\ wire' = With(wire, op, t, val)
      /\ UNCHANGED <<row, page, shown, pageFaults, stale>>
  BY DEF Click
<1>2. \A a \in wire' : WireTyped(a)
  BY <1>1, WithTyped DEF PageTyped
<1>3. clicks' \in 0..MaxClicks
  BY <1>1, ClicksGoOn
<1> QED BY <1>1, <1>2, <1>3

\* The handlers that only make a request.
Submits(op, t, val) == Suits(op, t, val) /\ op \notin {"proxy", "run", "get", "assigned"}

\* A handler that only makes a request keeps the types.
LEMMA SubmitTyped ==
  ASSUME PageTyped, NEW op, NEW t, NEW val, Submits(op, t, val),
         NEW flag \in SUBSET Flags, Submit(op, flag, t, val)
  PROVE  PageTyped'
<1>1. Click(op, t, val) /\ busy' = busy \union flag /\ UNCHANGED <<toolList, assign, testing, result, switched>>
  BY DEF Submit
<1>2. /\ \A a \in wire' : WireTyped(a)
      /\ clicks' \in 0..MaxClicks
      /\ UNCHANGED <<row, page, shown, pageFaults, stale>>
  BY <1>1, ClickTyped DEF Submits
<1>3. busy' \in SUBSET Flags
  BY <1>1 DEF PageTyped
<1> QED BY <1>1, <1>2, <1>3 DEF PageTyped

\* The requests that carry a text.
LEMMA TextSuits ==
  ASSUME NEW text \in PageTexts
  PROVE  /\ Suits("save", NoTool, text) /\ Suits("env", NoTool, text) /\ Suits("create", NoTool, text)
         /\ \A t \in PageTools : Suits("edit", t, text)
BY ConnectorPageAssumption DEF Suits, PageOps, WriteOps, Vals, OfTool

\* The requests of one tool.
LEMMA ToolSuits ==
  ASSUME NEW t \in PageTools
  PROVE  /\ \A b \in BOOLEAN : Suits("enable", t, b) /\ Suits("proxy", t, b)
         /\ Suits("drop", t, Gone) /\ Suits("run", t, Gone)
BY ConnectorPageAssumption DEF Suits, PageOps, WriteOps, ReadOps, Vals, OfTool

\* The requests that carry neither.
LEMMA OtherSuits ==
  /\ \A kind \in Kinds : Suits("import", NoTool, kind)
  /\ Suits("authorize", NoTool, Gone) /\ Suits("remove", NoTool, Gone)
BY ConnectorPageAssumption DEF Suits, PageOps, WriteOps, ReadOps, Vals, OfTool

\* What the user does is one of these.
LEMMA UserActsAre ==
  ASSUME PageUserActs
  PROVE  \/ \E op \in PageOps, t \in PageTools \union {NoTool}, val \in Vals, flag \in SUBSET Flags :
              Submits(op, t, val) /\ Submit(op, flag, t, val)
         \/ CloseAssign
         \/ \E t \in PageTools : OpenPlayground(t) \/ handleToggleProxy(t) \/ handleTestTool(t)
<1> DEFINE Goal == \E op \in PageOps, t \in PageTools \union {NoTool}, val \in Vals, flag \in SUBSET Flags :
                      Submits(op, t, val) /\ Submit(op, flag, t, val)
<1>1. ASSUME NEW op, NEW t, NEW val, NEW flag \in SUBSET Flags, Suits(op, t, val),
             op \notin {"proxy", "run", "get", "assigned"}, Submit(op, flag, t, val)
      PROVE  Goal
  BY <1>1 DEF Submits, Suits
<1> HIDE DEF Goal
<1>2. {} \subseteq Flags /\ {"env"} \subseteq Flags /\ {"tool"} \subseteq Flags /\ {"authorize"} \subseteq Flags
      /\ \A kind \in Kinds : {kind} \ {"spec"} \subseteq Flags
  BY DEF Flags, Kinds
<1>3. ASSUME NEW text \in PageTexts, handleSave(text) \/ handleSaveEnvVars(text) \/ handleCreateTool(text)
      PROVE  Goal
  BY <1>1, <1>2, <1>3, TextSuits DEF handleSave, handleSaveEnvVars, handleCreateTool
<1>4. ASSUME NEW kind \in Kinds, handleImport(kind) PROVE Goal
  BY <1>1, <1>2, <1>4, OtherSuits DEF handleImport
<1>5. CASE handleOAuthAuthorize \/ handleDelete
  <2>1. Goal
    BY <1>1, <1>2, <1>5, OtherSuits DEF handleOAuthAuthorize, handleDelete
  <2> QED BY <2>1 DEF Goal
<1>6. ASSUME NEW t \in PageTools, handleToggleTool(t) PROVE Goal
  <2> DEFINE b == ~ toolList[t].on
  <2>1. Submit("enable", {}, t, b)
    BY <1>6 DEF handleToggleTool
  <2>2. b \in BOOLEAN
    OBVIOUS
  <2> HIDE DEF b
  <2>3. Suits("enable", t, b)
    BY <2>2, ToolSuits
  <2> QED BY <1>1, <1>2, <2>1, <2>3
<1>7. ASSUME NEW t \in PageTools, handleDeleteTool(t) PROVE Goal
  BY <1>1, <1>2, <1>7, ToolSuits DEF handleDeleteTool
<1>8. ASSUME NEW t \in PageTools, NEW text \in PageTexts, handleUpdateTool(t, text) PROVE Goal
  BY <1>1, <1>2, <1>8, TextSuits DEF handleUpdateTool
<1>9. Goal \/ CloseAssign \/ \E t \in PageTools : OpenPlayground(t) \/ handleToggleProxy(t) \/ handleTestTool(t)
  BY <1>3, <1>4, <1>5, <1>6, <1>7, <1>8 DEF PageUserActs, Kinds, Goal
<1> QED BY <1>9 DEF Goal

\* The modal is closed.
LEMMA CloseAssignTyped == ASSUME PageTyped, CloseAssign PROVE PageTyped'
<1>1. /\ assign' = FALSE
      /\ UNCHANGED <<wire, page, shown, toolList, busy, testing, result, clicks, pageFaults, stale, switched>>
      /\ row' = row \/ (row # Gone /\ row' = [row EXCEPT !.assigned = TRUE])
  BY DEF CloseAssign
<1>2. row' \in Rows \union {Gone}
  BY <1>1 DEF PageTyped, Rows
<1> QED BY <1>1, <1>2 DEF PageTyped

\* A playground is opened or closed.
LEMMA OpenPlaygroundTyped == ASSUME PageTyped, NEW t \in PageTools, OpenPlayground(t) PROVE PageTyped'
<1>1. UNCHANGED <<row, wire, page, shown, toolList, assign, busy, clicks, pageFaults, stale>>
  BY DEF OpenPlayground
<1>2. switched' \in BOOLEAN
  BY DEF PageTyped, OpenPlayground
<1>3. testing' \in PageTools \union {NoTool} /\ result' \in PageTools \union {NoTool}
  BY DEF PageTyped, OpenPlayground, ResultReset
<1> QED BY <1>1, <1>2, <1>3 DEF PageTyped

\* The switch of a tool in the list.
LEMMA ProxyTyped ==
  ASSUME toolList \in ToolLists, NEW t \in PageTools, toolList[t] # Gone, NEW b \in BOOLEAN
  PROVE  /\ [toolList EXCEPT ![t].proxy = b] = [toolList EXCEPT ![t] = [toolList[t] EXCEPT !.proxy = b]]
         /\ [toolList[t] EXCEPT !.proxy = b] \in ToolRow
         /\ [toolList[t] EXCEPT !.proxy = b].proxy = b
         /\ [toolList EXCEPT ![t].proxy = b] \in ToolLists
<1>1. toolList[t] \in ToolRow
  BY DEF ToolLists
<1>2. [toolList[t] EXCEPT !.proxy = b] \in ToolRow /\ [toolList[t] EXCEPT !.proxy = b].proxy = b
  BY <1>1 DEF ToolRow
<1>3. [toolList EXCEPT ![t].proxy = b] = [toolList EXCEPT ![t] = [toolList[t] EXCEPT !.proxy = b]]
  OBVIOUS
<1> QED BY <1>2, <1>3 DEF ToolLists

\* The switch of a tool is flipped before the server has it.
LEMMA ToggleProxyTyped ==
  ASSUME PageTyped, NEW t \in PageTools, handleToggleProxy(t)
  PROVE  /\ PageTyped' /\ toolList[t] # Gone
         /\ \E b \in BOOLEAN : /\ b <=> ~ toolList[t].proxy
                               /\ wire' = With(wire, "proxy", t, b) /\ Suits("proxy", t, b)
                               /\ toolList' = [toolList EXCEPT ![t].proxy = b]
         /\ UNCHANGED <<row, page, shown, assign, busy, testing, result, pageFaults, stale, switched>>
<1> DEFINE b == ~ toolList[t].proxy
<1>1. /\ toolList[t] # Gone /\ Click("proxy", t, b)
      /\ toolList' = [toolList EXCEPT ![t].proxy = ~@]
      /\ UNCHANGED <<assign, busy, testing, result, switched>>
  BY DEF handleToggleProxy
<1>2. b \in BOOLEAN
  OBVIOUS
<1>3. toolList' = [toolList EXCEPT ![t].proxy = b]
  BY <1>1
<1>4. b <=> ~ toolList[t].proxy
  OBVIOUS
<1> HIDE DEF b
<1>5. Suits("proxy", t, b)
  BY <1>2, ToolSuits
<1>6. /\ \A a \in wire' : WireTyped(a)
      /\ clicks' \in 0..MaxClicks /\ wire' = With(wire, "proxy", t, b)
      /\ UNCHANGED <<row, page, shown, pageFaults, stale>>
  BY <1>1, <1>5, ClickTyped
<1>7. toolList' \in ToolLists
  BY <1>1, <1>2, <1>3, ProxyTyped DEF PageTyped
<1>8. PageTyped'
  BY <1>1, <1>6, <1>7 DEF PageTyped
<1> QED BY <1>1, <1>2, <1>3, <1>4, <1>5, <1>6, <1>8

\* A test is started.
LEMMA TestToolTyped == ASSUME PageTyped, NEW t \in PageTools, handleTestTool(t) PROVE PageTyped'
<1>1. /\ Click("run", t, Gone) /\ busy' = busy \union {"run"} /\ result' = NoTool
      /\ UNCHANGED <<toolList, assign, testing, switched>>
  BY DEF handleTestTool
<1>2. /\ \A a \in wire' : WireTyped(a)
      /\ clicks' \in 0..MaxClicks
      /\ UNCHANGED <<row, page, shown, pageFaults, stale>>
  BY <1>1, ClickTyped, ToolSuits
<1>3. busy' \in SUBSET Flags
  BY <1>1 DEF PageTyped, Flags
<1> QED BY <1>1, <1>2, <1>3 DEF PageTyped

\* One tool of the connector is written.
LEMMA ToolWritten ==
  ASSUME NEW r \in Rows, NEW t \in PageTools, NEW v \in ToolRow \union {Gone}
  PROVE  /\ [r EXCEPT !.tools[t] = v] = [r EXCEPT !.tools = [r.tools EXCEPT ![t] = v]]
         /\ [r EXCEPT !.tools[t] = v] \in Rows
         /\ [r EXCEPT !.tools[t] = v].tools = [r.tools EXCEPT ![t] = v]
         /\ [r EXCEPT !.tools[t] = v].fields = r.fields
<1>1. [r EXCEPT !.tools[t] = v] = [r EXCEPT !.tools = [r.tools EXCEPT ![t] = v]]
  OBVIOUS
<1>2. [r.tools EXCEPT ![t] = v] \in [PageTools -> ToolRow \union {Gone}]
  BY DEF Rows
<1> QED BY <1>1, <1>2 DEF Rows

\* What a request leaves of the row.
Leaves(q, r) ==
  /\ row \in Rows /\ r \in Rows \union {Gone}
  /\ q.op \in ReadOps => r = row
  /\ q.op = "enable" => r.fields = row.fields /\ r.tools = [row.tools EXCEPT ![q.tool].on = q.val]
  /\ q.op = "proxy" => r.fields = row.fields /\ r.tools = [row.tools EXCEPT ![q.tool].proxy = q.val]
  /\ q.op = "drop" => r.fields = row.fields /\ r.tools = [row.tools EXCEPT ![q.tool] = Gone]
  /\ q.op = "remove" => r = Gone

\* The rows after a request was served.
LEMMA RowAfterIs ==
  ASSUME PageTyped, NEW q, q \in wire, Found(q), NEW r, r \in RowAfter(q)
  PROVE  Leaves(q, r)
<1> USE DEF Leaves
<1>1. /\ row \in Rows /\ q \in Requests /\ q.op \in PageOps /\ Suits(q.op, q.tool, q.val)
      /\ row.tools \in ToolLists /\ row.fields \in Fields
      /\ q.tool \in PageTools => row.tools[q.tool] \in ToolRow
  BY ConnectorPageAssumption DEF PageTyped, WireTyped, Requests, Found, Rows, ToolLists
<1>2. CASE q.op = "save"
  <2>1. r = [row EXCEPT !.fields = [row.fields EXCEPT !["save"] = q.val]]
    BY <1>2 DEF RowAfter, update
  <2>2. [row.fields EXCEPT !["save"] = q.val] \in Fields
    BY <1>1, <1>2 DEF Fields, Suits
  <2> QED BY <1>1, <1>2, <2>1, <2>2 DEF Rows, ReadOps
<1>3. CASE q.op = "env"
  <2>1. PICK s \in {row.fields["save"], q.val} : r = [row EXCEPT !.fields = [save |-> s, env |-> q.val]]
    BY <1>3 DEF RowAfter, updateEnvVars
  <2>2. s \in PageTexts /\ q.val \in PageTexts
    BY <1>1, <1>3 DEF Fields, Suits
  <2>3. [save |-> s, env |-> q.val] \in Fields
    <3> DEFINE f == [save |-> s, env |-> q.val]
    <3>1. f = [x \in {"save", "env"} |-> f[x]]
      OBVIOUS
    <3>2. f["save"] = s /\ f["env"] = q.val
      OBVIOUS
    <3> HIDE DEF f
    <3>3. f \in [{"save", "env"} -> PageTexts]
      BY <2>2, <3>1, <3>2
    <3> QED BY <3>3 DEF f, Fields
  <2> QED BY <1>1, <1>3, <2>1, <2>3 DEF Rows, ReadOps
<1>4. CASE q.op = "create"
  <2>1. PICK t \in PageTools : r = [row EXCEPT !.tools[t] = NewTool(q.val)]
    BY <1>4 DEF RowAfter, createTool
  <2>2. NewTool(q.val) \in ToolRow
    BY <1>1, <1>4 DEF NewTool, ToolRow, Suits
  <2> QED BY <1>1, <1>4, <2>1, <2>2, ToolWritten DEF ReadOps
<1>5. CASE q.op = "import"
  <2>1. PICK ts \in Imported : r = [row EXCEPT !.tools = ts]
    BY <1>5 DEF RowAfter
  <2>2. ts \in ToolLists
    <3>1. CASE ts = row.tools
      BY <1>1, <3>1
    <3>2. ASSUME NEW S \in SUBSET PageTools, NEW text \in PageTexts,
                 ts = ImportOf(S, text)
          PROVE  ts \in ToolLists
      <4>1. NewTool(text) \in ToolRow
        BY DEF NewTool, ToolRow
      <4>2. ASSUME NEW t \in PageTools, row.tools[t] # Gone
            PROVE  [row.tools[t] EXCEPT !.def = text] \in ToolRow /\ [row.tools[t] EXCEPT !.on = FALSE] \in ToolRow
        <5>1. row.tools[t] \in ToolRow
          BY <1>1, <4>2 DEF ToolLists
        <5> QED BY <5>1 DEF ToolRow
      <4>3. ASSUME NEW t \in PageTools PROVE ts[t] \in ToolRow \union {Gone}
        <5>1. CASE row.tools[t] = Gone
          <6>1. ts[t] = NewTool(text) \/ ts[t] = Gone
            BY <3>2, <5>1 DEF ImportOf
          <6> QED BY <4>1, <6>1
        <5>2. CASE row.tools[t] # Gone
          <6>1. ts[t] = [row.tools[t] EXCEPT !.def = text] \/ ts[t] = [row.tools[t] EXCEPT !.on = FALSE]
            BY <3>2, <5>2 DEF ImportOf
          <6> QED BY <4>2, <5>2, <6>1
        <5> QED BY <5>1, <5>2
      <4>4. ts = [t \in PageTools |-> ts[t]]
        BY <3>2 DEF ImportOf
      <4> QED BY <4>3, <4>4 DEF ToolLists
    <3> QED BY <2>1, <3>1, <3>2 DEF Imported
  <2> QED BY <1>1, <1>5, <2>1, <2>2 DEF Rows, ToolLists, ReadOps
<1>6. CASE q.op \in {"edit", "enable", "proxy"}
  <2> DEFINE T == row.tools[q.tool]
  <2>1. q.tool \in PageTools /\ T \in ToolRow
    BY <1>1, <1>6 DEF Suits, OfTool
  <2>2. CASE q.op = "edit"
    <3>1. r = [row EXCEPT !.tools[q.tool] = [T EXCEPT !.def = q.val]]
      BY <2>2 DEF RowAfter, updateTool
    <3>2. [T EXCEPT !.def = q.val] \in ToolRow
      BY <1>1, <2>1, <2>2 DEF ToolRow, Suits
    <3> HIDE DEF T
    <3>3. r \in Rows
      BY <1>1, <2>1, <3>1, <3>2, ToolWritten
    <3> QED BY <1>1, <2>2, <3>3 DEF ReadOps
  <2>3. CASE q.op = "enable"
    <3>1. r = [row EXCEPT !.tools[q.tool] = [T EXCEPT !.on = q.val]]
      BY <2>3 DEF RowAfter, updateTool
    <3>2. [T EXCEPT !.on = q.val] \in ToolRow
      BY <1>1, <2>1, <2>3 DEF ToolRow, Suits
    <3>3. [row.tools EXCEPT ![q.tool].on = q.val] = [row.tools EXCEPT ![q.tool] = [T EXCEPT !.on = q.val]]
      OBVIOUS
    <3> HIDE DEF T
    <3>4. r \in Rows /\ r.fields = row.fields /\ r.tools = [row.tools EXCEPT ![q.tool].on = q.val]
      BY <1>1, <2>1, <3>1, <3>2, <3>3, ToolWritten
    <3> QED BY <1>1, <2>3, <3>4 DEF ReadOps
  <2>4. CASE q.op = "proxy"
    <3>1. r = [row EXCEPT !.tools[q.tool] = [T EXCEPT !.proxy = q.val]]
      BY <2>4 DEF RowAfter, setProxy
    <3>2. [T EXCEPT !.proxy = q.val] \in ToolRow
      BY <1>1, <2>1, <2>4 DEF ToolRow, Suits
    <3>3. [row.tools EXCEPT ![q.tool].proxy = q.val] = [row.tools EXCEPT ![q.tool] = [T EXCEPT !.proxy = q.val]]
      OBVIOUS
    <3> HIDE DEF T
    <3>4. r \in Rows /\ r.fields = row.fields /\ r.tools = [row.tools EXCEPT ![q.tool].proxy = q.val]
      BY <1>1, <2>1, <3>1, <3>2, <3>3, ToolWritten
    <3> QED BY <1>1, <2>4, <3>4 DEF ReadOps
  <2> QED BY <1>6, <2>2, <2>3, <2>4
<1>7. CASE q.op = "drop"
  <2>1. r = [row EXCEPT !.tools[q.tool] = Gone] /\ q.tool \in PageTools
    BY <1>1, <1>7 DEF RowAfter, removeTool, Suits, OfTool
  <2> QED BY <1>1, <1>7, <2>1, ToolWritten DEF ReadOps
<1>8. CASE q.op = "remove"
  <2>1. r = Gone
    BY <1>8 DEF RowAfter
  <2> QED BY <1>1, <1>8, <2>1 DEF ReadOps
<1>9. CASE q.op \in ReadOps
  <2>1. r = row
    BY <1>9 DEF RowAfter, ReadOps
  <2> QED BY <1>1, <1>9, <2>1 DEF ReadOps
<1> QED BY <1>1, <1>2, <1>3, <1>4, <1>5, <1>6, <1>7, <1>8, <1>9 DEF PageOps, WriteOps

\* What is known of a request of the page.
LEMMA WireIs ==
  ASSUME PageTyped, NEW q, q \in wire
  PROVE  /\ WireTyped(q) /\ q \in Requests /\ q.op \in PageOps /\ Suits(q.op, q.tool, q.val)
         /\ q.op \in {"enable", "drop", "proxy", "run"} => q.tool \in PageTools
         /\ q.op \in {"enable", "proxy"} => q.val \in BOOLEAN
         /\ q.pc = "answered" /\ q.op \in {"get", "assigned"} => q.answer \in Rows
         /\ \A a \in wire \ {q} : WireTyped(a)
BY DEF PageTyped, WireTyped, Requests, Suits, OfTool

\* The server does the work of a request.
LEMMA ServeTyped == ASSUME PageTyped, NEW q, q \in wire, Serve(q) PROVE PageTyped'
<1>1. /\ Found(q) /\ UNCHANGED <<viewVars, clicks, pageFaults, stale, switched>>
      /\ Moved(q, "answered", IF q.op \in {"get", "assigned"} THEN row ELSE Gone)
  BY DEF Serve
<1>2. PICK r \in RowAfter(q) : row' = r
  BY DEF Serve
<1>3. row \in Rows /\ row' \in Rows \union {Gone}
  BY <1>1, <1>2, RowAfterIs DEF Leaves
<1> DEFINE answer == IF q.op \in {"get", "assigned"} THEN row ELSE Gone
<1>4. /\ answer \in Rows \union {Gone} /\ Moved(q, "answered", answer)
      /\ q.op \in {"get", "assigned"} => answer \in Rows
  BY <1>1, <1>3
<1> HIDE DEF answer
<1>5. \A a \in wire' : WireTyped(a)
  BY <1>4, MovedTyped
<1> QED BY <1>1, <1>3, <1>5 DEF PageTyped, viewVars

\* A request is refused or fails.
LEMMA StopsTyped ==
  ASSUME PageTyped, NEW q, q \in wire, AnswerError(q) \/ Refuse(q) \/ Fails(q)
  PROVE  PageTyped'
<1>1. PICK pc \in {"error", "failed"} : Moved(q, pc, Gone)
  BY DEF AnswerError, Refuse, Fails
<1>2. \A a \in wire' : WireTyped(a)
  BY <1>1, MovedTyped
<1>3. UNCHANGED <<row, viewVars, clicks, switched>>
  BY DEF AnswerError, Refuse, Fails
<1>4. pageFaults' \in 0..MaxPageFaults /\ stale' \in BOOLEAN
  <2>1. CASE Fails(q)
    <3>1. pageFaults < MaxPageFaults /\ pageFaults' = pageFaults + 1
      BY <2>1 DEF Fails
    <3>2. stale' \in BOOLEAN
      BY <2>1 DEF Fails
    <3> QED BY <3>1, <3>2, FaultsGoOn
  <2>2. CASE AnswerError(q) \/ Refuse(q)
    BY <2>2 DEF AnswerError, Refuse, PageTyped
  <2> QED BY <2>1, <2>2
<1> QED BY <1>2, <1>3, <1>4 DEF PageTyped, viewVars

\* The connector is there, or the page is left.
LEMMA FetchTyped ==
  ASSUME PageTyped, NEW q, q \in wire, FetchAnswered(q) \/ FetchFailed(q)
  PROVE  PageTyped'
<1>1. wire' = wire \ {q} /\ UNCHANGED <<row, clicks, pageFaults, switched>>
  BY DEF FetchAnswered, FetchFailed, Taken
<1>2. UNCHANGED <<assign, busy, testing, result>> /\ page' \in {"loading", "open", "left"}
  BY DEF FetchAnswered, FetchFailed
<1>3. stale' \in BOOLEAN /\ shown' \in Fields /\ toolList' \in ToolLists
  <2>1. CASE FetchAnswered(q)
    <3>1. q.answer \in Rows /\ q.tainted \in BOOLEAN
      BY <2>1, WireIs DEF FetchAnswered, Answered, Requests
    <3> QED BY <2>1, <3>1 DEF FetchAnswered, Rows, ToolLists
  <2>2. CASE FetchFailed(q)
    BY <2>2 DEF FetchFailed, PageTyped
  <2> QED BY <2>1, <2>2
<1> QED BY <1>1, <1>2, <1>3, WireIs DEF PageTyped

\* The page asks where to assign the connector.
LEMMA PromptTyped ==
  ASSUME PageTyped, NEW q, q \in wire, PromptAnswered(q)
  PROVE  PageTyped'
<1>1. wire' = wire \ {q} /\ UNCHANGED <<row, clicks, pageFaults, switched>>
      /\ UNCHANGED <<page, shown, toolList, busy, testing, result, stale>>
  BY DEF PromptAnswered, Taken
<1>2. assign' \in BOOLEAN
  BY DEF PromptAnswered, PageTyped
<1> QED BY <1>1, <1>2, WireIs DEF PageTyped

\* The fetches that follow a write keep the types.
LEMMA RefetchTyped ==
  ASSUME NEW w, \A a \in w : WireTyped(a)
  PROVE  (\A a \in Refetch(w) : WireTyped(a)) /\ (\A a \in Prompted(w) : WireTyped(a))
<1>1. \A a \in Refetch(w) : WireTyped(a)
  BY ReadsSuit, WithTyped DEF Refetch
<1> QED BY <1>1, ReadsSuit, WithTyped DEF Prompted

\* A write was answered: the connector is fetched again.
LEMMA SaveTyped ==
  ASSUME PageTyped, NEW q, q \in wire, SaveAnswered(q)
  PROVE  PageTyped'
<1>1. /\ busy' = busy \ Flag(q) /\ stale' \in BOOLEAN
      /\ wire' = Prompted(wire \ {q}) \/ wire' = Refetch(wire \ {q})
      /\ UNCHANGED <<row, clicks, pageFaults, switched, page, shown, toolList, assign, testing, result>>
  BY DEF SaveAnswered
<1>2. \A a \in wire' : WireTyped(a)
  BY <1>1, WireIs, RefetchTyped
<1>3. busy' \in SUBSET Flags
  BY <1>1 DEF PageTyped
<1> QED BY <1>1, <1>2, <1>3 DEF PageTyped

\* The list of the page after a handler that changes it by itself.
LEMMA ListTyped ==
  ASSUME PageTyped, NEW q, q \in wire, ListAnswered(q)
  PROVE  PageTyped'
<1>1. wire' = wire \ {q} /\ UNCHANGED <<row, clicks, pageFaults, switched>>
      /\ UNCHANGED <<page, shown, assign, busy, testing, result>> /\ stale' \in BOOLEAN
  BY DEF ListAnswered, Taken
<1>2. q.op \in {"enable", "proxy", "drop"} /\ q.tool \in PageTools
  BY WireIs DEF ListAnswered
<1>3. toolList' \in ToolLists
  <2>1. toolList \in ToolLists
    BY DEF PageTyped
  <2>2. CASE toolList' = toolList
    BY <2>1, <2>2
  <2>3. CASE toolList' = [toolList EXCEPT ![q.tool] = Gone]
    BY <1>2, <2>1, <2>3 DEF ToolLists
  <2>4. CASE toolList[q.tool] # Gone /\ q.op = "enable" /\ toolList' = [toolList EXCEPT ![q.tool].on = q.val]
    <3>1. toolList[q.tool] \in ToolRow /\ q.val \in BOOLEAN
      BY <1>2, <2>1, <2>4, WireIs DEF ToolLists
    <3>2. [toolList[q.tool] EXCEPT !.on = q.val] \in ToolRow
      BY <3>1 DEF ToolRow
    <3>3. toolList' = [toolList EXCEPT ![q.tool] = [toolList[q.tool] EXCEPT !.on = q.val]]
      BY <2>4
    <3> QED BY <1>2, <2>1, <3>2, <3>3 DEF ToolLists
  <2>5. \/ toolList' = toolList \/ toolList' = [toolList EXCEPT ![q.tool] = Gone]
        \/ toolList[q.tool] # Gone /\ q.op = "enable" /\ toolList' = [toolList EXCEPT ![q.tool].on = q.val]
    BY <1>2 DEF ListAnswered
  <2> QED BY <2>2, <2>3, <2>4, <2>5
<1> QED BY <1>1, <1>3, WireIs DEF PageTyped

\* The result of a test is there.
LEMMA RunTaken ==
  ASSUME PageTyped, NEW q, q \in wire, RunAnswered(q)
  PROVE  PageTyped'
<1>1. wire' = wire \ {q} /\ UNCHANGED <<row, clicks, pageFaults, switched>>
      /\ UNCHANGED <<page, shown, toolList, assign, testing, stale>>
      /\ result' = q.tool /\ busy' = busy \ {"run"} /\ q.op = "run"
  BY DEF RunAnswered, Taken
<1>2. result' \in PageTools
  BY <1>1, WireIs
<1>3. busy' \in SUBSET Flags
  BY <1>1 DEF PageTyped
<1> QED BY <1>1, <1>2, <1>3, WireIs DEF PageTyped

\* The page is left.
LEMMA LeaveTyped ==
  ASSUME PageTyped, NEW q, q \in wire, LeaveAnswered(q)
  PROVE  PageTyped'
<1>1. wire' = wire \ {q} /\ UNCHANGED <<row, clicks, pageFaults, switched>>
      /\ UNCHANGED <<shown, toolList, assign, testing, result, stale>>
      /\ page' = "left" /\ busy' = busy \ Flag(q)
  BY DEF LeaveAnswered, Taken
<1>2. busy' \in SUBSET Flags
  BY <1>1 DEF PageTyped
<1> QED BY <1>1, <1>2, WireIs DEF PageTyped

\* A handler takes its flip back.
LEMMA HandlerFailsTyped ==
  ASSUME PageTyped, NEW q, q \in wire, HandlerFails(q)
  PROVE  /\ PageTyped' /\ q.op \notin {"get", "run"} /\ wire' = wire \ {q}
         /\ UNCHANGED <<row, page, shown, assign, testing, result, switched>>
         /\ \/ toolList' = toolList /\ (q.op = "proxy" => toolList[q.tool] = Gone)
            \/ /\ q.op = "proxy" /\ toolList[q.tool] # Gone
               /\ \E b \in BOOLEAN : (b <=> ~q.val) /\ toolList' = [toolList EXCEPT ![q.tool].proxy = b]
         /\ stale' <=> (stale \/ (q.op \in WriteOps /\ q.tainted))
<1>1. wire' = wire \ {q} /\ UNCHANGED <<row, clicks, pageFaults, switched>>
      /\ UNCHANGED <<page, shown, assign, testing, result>>
      /\ busy' = busy \ Flag(q) /\ stale' \in BOOLEAN /\ q.op \notin {"get", "run"}
  BY DEF HandlerFails, Taken
<1>2. \/ toolList' = toolList /\ (q.op = "proxy" => toolList[q.tool] = Gone)
      \/ /\ q.op = "proxy" /\ toolList[q.tool] # Gone
         /\ \E b \in BOOLEAN : (b <=> ~q.val) /\ toolList' = [toolList EXCEPT ![q.tool].proxy = b]
  <2>1. CASE q.op = "proxy" /\ toolList[q.tool] # Gone
    <3> DEFINE b == ~q.val
    <3>1. toolList' = [toolList EXCEPT ![q.tool].proxy = b] /\ b \in BOOLEAN /\ (b <=> ~q.val)
      BY <2>1 DEF HandlerFails, FlipReverted
    <3> HIDE DEF b
    <3> QED BY <2>1, <3>1
  <2>2. CASE ~ (q.op = "proxy" /\ toolList[q.tool] # Gone)
    BY <2>2 DEF HandlerFails, FlipReverted
  <2> QED BY <2>1, <2>2
<1>3. toolList' \in ToolLists
  <2>1. toolList \in ToolLists
    BY DEF PageTyped
  <2>2. CASE q.op = "proxy" /\ toolList[q.tool] # Gone
             /\ \E b \in BOOLEAN : (b <=> ~q.val) /\ toolList' = [toolList EXCEPT ![q.tool].proxy = b]
    <3>1. q.tool \in PageTools
      BY <2>2, WireIs
    <3>2. PICK b \in BOOLEAN : toolList' = [toolList EXCEPT ![q.tool].proxy = b]
      BY <2>2
    <3>3. [toolList EXCEPT ![q.tool].proxy = b] \in ToolLists
      BY <2>1, <2>2, <3>1, ProxyTyped
    <3> QED BY <3>2, <3>3
  <2> QED BY <1>2, <2>1, <2>2
<1>4. busy' \in SUBSET Flags
  BY <1>1 DEF PageTyped
<1>5. PageTyped'
  BY <1>1, <1>3, <1>4, WireIs DEF PageTyped
<1>6. stale' <=> (stale \/ (q.op \in WriteOps /\ q.tainted))
  BY DEF HandlerFails
<1> QED BY <1>1, <1>2, <1>5, <1>6

\* What a request does next.
Goes(q) ==
  \/ Serve(q) \/ AnswerError(q) \/ Refuse(q) \/ Fails(q)
  \/ FetchAnswered(q) \/ FetchFailed(q) \/ PromptAnswered(q) \/ SaveAnswered(q)
  \/ ListAnswered(q) \/ RunAnswered(q) \/ LeaveAnswered(q) \/ HandlerFails(q)

\* Every step keeps the types.
LEMMA PageTypedStep == ASSUME PageTyped, [ConnectorPageNext]_connectorPageVars PROVE PageTyped'
<1>1. CASE UNCHANGED connectorPageVars
  BY <1>1 DEF PageTyped, connectorPageVars, viewVars
<1>2. CASE PageUserActs
  BY <1>2, UserActsAre, SubmitTyped, CloseAssignTyped, OpenPlaygroundTyped, ToggleProxyTyped, TestToolTyped
<1>3. ASSUME NEW q \in wire, Goes(q) PROVE PageTyped'
  BY <1>3, ServeTyped, StopsTyped, FetchTyped, PromptTyped, SaveTyped, ListTyped, RunTaken, LeaveTyped,
     HandlerFailsTyped DEF Goes
<1> QED BY <1>1, <1>2, <1>3 DEF ConnectorPageNext, Goes

OneRun(w) == \A p, q \in w : p.op = "run" /\ q.op = "run" => p = q

\* One test is under way, with its flag, of the tool that is open.
RunsInv ==
  /\ OneRun(wire)
  /\ \A q \in wire : q.op = "run" =>
       "run" \in busy /\ (switched \/ testing = NoTool \/ testing = q.tool)
  /\ ResultIsOfTool

\* No further test, and those that were there still are.
RunsStay(w, v) ==
  OneRun(w) => /\ OneRun(v)
               /\ \A a \in v : a.op = "run" => \E q \in w : q.op = "run" /\ a.tool = q.tool

\* A request that is no test adds none.
LEMMA WithRuns ==
  ASSUME NEW w \in SUBSET Requests, NEW op, NEW t, NEW val, Suits(op, t, val), op # "run"
  PROVE  RunsStay(w, With(w, op, t, val))
<1> SUFFICES ASSUME OneRun(w)
             PROVE  /\ OneRun(With(w, op, t, val))
                    /\ \A a \in With(w, op, t, val) : a.op = "run" => \E q \in w : q.op = "run" /\ a.tool = q.tool
  BY DEF RunsStay
<1>1. ASSUME NEW a \in With(w, op, t, val), a.op = "run"
      PROVE  a \in Requests /\ \E q \in w : Same(a, q) /\ (a.tainted <=> q.tainted \/ op \in WriteOps)
  BY <1>1, WithFrom
<1>2. ASSUME NEW a \in With(w, op, t, val), a.op = "run" PROVE \E q \in w : q.op = "run" /\ a.tool = q.tool
  <2>1. PICK q \in w : Same(a, q)
    BY <1>1, <1>2
  <2> QED BY <1>2, <2>1 DEF Same
<1>3. ASSUME NEW a \in With(w, op, t, val), NEW b \in With(w, op, t, val), a.op = "run", b.op = "run"
      PROVE  a = b
  <2>1. PICK p \in w : Same(a, p) /\ (a.tainted <=> p.tainted \/ op \in WriteOps)
    BY <1>1, <1>3
  <2>2. PICK q \in w : Same(b, q) /\ (b.tainted <=> q.tainted \/ op \in WriteOps)
    BY <1>1, <1>3
  <2>3. p = q
    BY <1>3, <2>1, <2>2 DEF OneRun, Same
  <2>4. a \in Requests /\ b \in Requests
    BY <1>1, <1>3
  <2>5. a.tainted \in BOOLEAN /\ b.tainted \in BOOLEAN
    BY <2>4 DEF Requests
  <2>6. a.tainted <=> b.tainted
    BY <2>1, <2>2, <2>3
  <2>7. a.tainted = b.tainted
    BY <2>5, <2>6
  <2>8. a.op = b.op /\ a.tool = b.tool /\ a.val = b.val /\ a.pc = b.pc /\ a.answer = b.answer
    BY <2>1, <2>2, <2>3 DEF Same
  <2> QED BY <2>4, <2>7, <2>8 DEF Requests
<1>4. OneRun(With(w, op, t, val))
  BY <1>3 DEF OneRun
<1> QED BY <1>2, <1>4

\* A request that moves on adds no test.
LEMMA MovedRuns ==
  ASSUME NEW q, q \in wire, WireTyped(q), NEW pc \in {"answered", "error", "failed"},
         NEW answer \in Rows \union {Gone}, Moved(q, pc, answer)
  PROVE  RunsStay(wire, wire')
<1>1. PICK m \in wire' : wire' = (wire \ {q}) \union {m} /\ m.op = q.op /\ m.tool = q.tool
  BY MovedFrom
<1> QED BY <1>1 DEF RunsStay, OneRun

\* Nor does one that goes.
LEMMA FewerRuns ==
  ASSUME NEW w, NEW v, v \subseteq w
  PROVE  RunsStay(w, v)
BY DEF RunsStay, OneRun

\* Nor do the fetches of the page.
LEMMA RefetchRuns ==
  ASSUME NEW w, \A a \in w : WireTyped(a)
  PROVE  RunsStay(w, Refetch(w)) /\ RunsStay(w, Prompted(w))
<1>1. \A a \in Refetch(w) : WireTyped(a)
  BY RefetchTyped
<1>2. w \in SUBSET Requests /\ Refetch(w) \in SUBSET Requests
  BY <1>1 DEF WireTyped
<1>3. RunsStay(w, Refetch(w))
  BY <1>2, ReadsSuit, WithRuns DEF Refetch
<1>4. RunsStay(Refetch(w), Prompted(w))
  BY <1>2, ReadsSuit, WithRuns DEF Prompted
<1>5. RunsStay(w, Prompted(w))
  <2> SUFFICES ASSUME OneRun(w)
               PROVE  /\ OneRun(Prompted(w))
                      /\ \A a \in Prompted(w) : a.op = "run" => \E q \in w : q.op = "run" /\ a.tool = q.tool
    BY DEF RunsStay
  <2>1. /\ OneRun(Refetch(w))
        /\ \A a \in Refetch(w) : a.op = "run" => \E q \in w : q.op = "run" /\ a.tool = q.tool
    BY <1>3 DEF RunsStay
  <2>2. /\ OneRun(Prompted(w))
        /\ \A a \in Prompted(w) : a.op = "run" => \E q \in Refetch(w) : q.op = "run" /\ a.tool = q.tool
    BY <1>4, <2>1 DEF RunsStay
  <2>3. ASSUME NEW a \in Prompted(w), a.op = "run" PROVE \E q \in w : q.op = "run" /\ a.tool = q.tool
    <3>1. PICK p \in Refetch(w) : p.op = "run" /\ a.tool = p.tool
      BY <2>2, <2>3
    <3>2. PICK q \in w : q.op = "run" /\ p.tool = q.tool
      BY <2>1, <3>1
    <3> QED BY <3>1, <3>2
  <2> QED BY <2>2, <2>3
<1> QED BY <1>3, <1>5

\* Steps that make no test and leave the playground alone.
LEMMA RunsKept ==
  ASSUME RunsInv, RunsStay(wire, wire'), "run" \in busy => "run" \in busy',
         UNCHANGED <<testing, result, switched>>
  PROVE  RunsInv'
<1>1. OneRun(wire') /\ \A a \in wire' : a.op = "run" => \E q \in wire : q.op = "run" /\ a.tool = q.tool
  BY DEF RunsInv, RunsStay
<1>2. ASSUME NEW a \in wire', a.op = "run"
      PROVE  "run" \in busy' /\ (switched' \/ testing' = NoTool \/ testing' = a.tool)
  <2>1. PICK q \in wire : q.op = "run" /\ a.tool = q.tool
    BY <1>1, <1>2
  <2> QED BY <2>1 DEF RunsInv
<1>3. ResultIsOfTool'
  BY DEF RunsInv, ResultIsOfTool
<1> QED BY <1>1, <1>2, <1>3 DEF RunsInv

\* What the user does keeps one test, of the playground that is open.
LEMMA UserActsRuns == ASSUME PageTyped, RunsInv, PageUserActs PROVE RunsInv'
<1>0. wire \in SUBSET Requests
  BY DEF PageTyped, WireTyped
<1>1. ASSUME NEW op, NEW t, NEW val, NEW flag, Submits(op, t, val), Submit(op, flag, t, val)
      PROVE  RunsInv'
  <2>1. wire' = With(wire, op, t, val) /\ busy \subseteq busy' /\ UNCHANGED <<testing, result, switched>>
    BY <1>1 DEF Submit, Click
  <2>2. RunsStay(wire, wire')
    BY <1>0, <1>1, <2>1, WithRuns DEF Submits
  <2> QED BY <2>1, <2>2, RunsKept
<1>2. CASE CloseAssign
  <2>1. wire' = wire /\ busy' = busy /\ UNCHANGED <<testing, result, switched>>
    BY <1>2 DEF CloseAssign
  <2>2. RunsStay(wire, wire')
    BY <2>1, FewerRuns
  <2> QED BY <2>1, <2>2, RunsKept
<1>3. ASSUME NEW t \in PageTools, OpenPlayground(t) PROVE RunsInv'
  <2>1. UNCHANGED <<wire, busy>>
    BY <1>3 DEF OpenPlayground
  <2>2. \/ testing' = NoTool /\ UNCHANGED <<result, switched>>
        \/ testing' = t /\ result' = NoTool /\ (switched' <=> switched \/ "run" \in busy)
    BY <1>3 DEF OpenPlayground, ResultReset
  <2> QED BY <2>1, <2>2 DEF RunsInv, ResultIsOfTool, OneRun
<1>4. ASSUME NEW t \in PageTools, handleToggleProxy(t) PROVE RunsInv'
  <2>1. PICK b \in BOOLEAN : wire' = With(wire, "proxy", t, b) /\ Suits("proxy", t, b)
    BY <1>4, ToggleProxyTyped
  <2>2. busy' = busy /\ UNCHANGED <<testing, result, switched>>
    BY <1>4, ToggleProxyTyped
  <2>3. RunsStay(wire, wire')
    BY <1>0, <2>1, WithRuns
  <2> QED BY <2>2, <2>3, RunsKept
<1>5. ASSUME NEW t \in PageTools, handleTestTool(t) PROVE RunsInv'
  <2>1. /\ testing = t /\ "run" \notin busy /\ wire' = With(wire, "run", t, Gone)
        /\ busy' = busy \union {"run"} /\ result' = NoTool /\ UNCHANGED <<testing, switched>>
    BY <1>5 DEF handleTestTool, Click
  <2>2. wire' = wire \union {NewRequest("run", t, Gone, wire)}
    BY <2>1 DEF With, WriteOps
  <2>3. \A q \in wire : q.op # "run"
    BY <2>1 DEF RunsInv
  <2>4. NewRequest("run", t, Gone, wire).tool = t
    BY DEF NewRequest
  <2>5. OneRun(wire')
    BY <2>2, <2>3 DEF OneRun
  <2>6. \A q \in wire' : q.op = "run" => q.tool = t
    BY <2>2, <2>3, <2>4
  <2> QED BY <2>1, <2>5, <2>6 DEF RunsInv, ResultIsOfTool
<1> QED BY <1>1, <1>2, <1>3, <1>4, <1>5, UserActsAre

\* A flag other than that of a test.
LEMMA FlagIs == ASSUME PageTyped, NEW q, q \in wire, q.op # "run" PROVE "run" \notin Flag(q)
<1>1. Suits(q.op, q.tool, q.val) /\ q.op \in PageOps
  BY WireIs
<1>2. CASE q.op = "import"
  <2>1. Flag(q) = {q.val} /\ q.val \in Kinds
    BY <1>1, <1>2 DEF Flag, Suits
  <2> QED BY <2>1 DEF Kinds
<1>3. CASE q.op \in {"create", "edit"}
  <2>1. Flag(q) = {"tool"}
    BY <1>3 DEF Flag
  <2> QED BY <2>1
<1>4. CASE q.op \notin {"create", "edit", "import"}
  <2>1. Flag(q) = {q.op}
    BY <1>4 DEF Flag
  <2> QED BY <2>1
<1> QED BY <1>2, <1>3, <1>4

\* What a request does next keeps it.
LEMMA GoesRuns == ASSUME PageTyped, RunsInv, NEW q \in wire, Goes(q) PROVE RunsInv'
<1>0. /\ WireTyped(q) /\ \A a \in wire : WireTyped(a)
      /\ \A a \in wire \ {q} : WireTyped(a)
  BY WireIs
<1>1. CASE Serve(q)
  <2>1. Found(q) /\ UNCHANGED <<viewVars, switched>>
        /\ Moved(q, "answered", IF q.op \in {"get", "assigned"} THEN row ELSE Gone)
    BY <1>1 DEF Serve
  <2>2. row \in Rows \union {Gone}
    BY DEF PageTyped
  <2> DEFINE answer == IF q.op \in {"get", "assigned"} THEN row ELSE Gone
  <2>3. answer \in Rows \union {Gone} /\ Moved(q, "answered", answer)
    BY <2>1, <2>2
  <2> HIDE DEF answer
  <2>4. RunsStay(wire, wire')
    BY <1>0, <2>3, MovedRuns
  <2> QED BY <2>1, <2>4, RunsKept DEF viewVars
<1>2. CASE AnswerError(q) \/ Refuse(q) \/ Fails(q)
  <2>1. PICK pc \in {"error", "failed"} : Moved(q, pc, Gone)
    BY <1>2 DEF AnswerError, Refuse, Fails
  <2>2. UNCHANGED <<viewVars, switched>>
    BY <1>2 DEF AnswerError, Refuse, Fails
  <2>3. RunsStay(wire, wire')
    BY <1>0, <2>1, MovedRuns
  <2> QED BY <2>2, <2>3, RunsKept DEF viewVars
<1>3. CASE FetchAnswered(q) \/ FetchFailed(q) \/ PromptAnswered(q) \/ ListAnswered(q)
  <2>1. wire' = wire \ {q} /\ UNCHANGED <<busy, testing, result, switched>>
    BY <1>3 DEF FetchAnswered, FetchFailed, PromptAnswered, ListAnswered, Taken
  <2>2. RunsStay(wire, wire')
    BY <2>1, FewerRuns
  <2> QED BY <2>1, <2>2, RunsKept
<1>4. CASE SaveAnswered(q)
  <2>1. /\ wire' = Prompted(wire \ {q}) \/ wire' = Refetch(wire \ {q})
        /\ busy' = busy \ Flag(q) /\ UNCHANGED <<testing, result, switched>> /\ q.op # "run"
    BY <1>4 DEF SaveAnswered
  <2>2. RunsStay(wire \ {q}, wire')
    BY <1>0, <2>1, RefetchRuns
  <2>3. RunsStay(wire, wire')
    BY <2>2 DEF RunsStay, OneRun
  <2> QED BY <2>1, <2>3, FlagIs, RunsKept
<1>5. CASE RunAnswered(q)
  <2>1. /\ wire' = wire \ {q} /\ q.op = "run" /\ result' = q.tool
        /\ UNCHANGED <<testing, switched>>
    BY <1>5 DEF RunAnswered, Taken
  <2>2. \A a \in wire' : a.op # "run"
    BY <2>1 DEF RunsInv, OneRun
  <2>3. switched \/ testing = NoTool \/ testing = q.tool
    BY <2>1 DEF RunsInv
  <2> QED BY <2>1, <2>2, <2>3 DEF RunsInv, ResultIsOfTool, OneRun
<1>6. CASE LeaveAnswered(q) \/ HandlerFails(q)
  <2>1. wire' = wire \ {q} /\ UNCHANGED <<testing, result, switched>>
        /\ busy' = busy \ Flag(q) /\ q.op # "run"
    BY <1>6 DEF LeaveAnswered, HandlerFails, Taken
  <2>2. RunsStay(wire, wire')
    BY <2>1, FewerRuns
  <2> QED BY <2>1, <2>2, FlagIs, RunsKept
<1> QED BY <1>1, <1>2, <1>3, <1>4, <1>5, <1>6 DEF Goes

\* Every step keeps it.
LEMMA RunsInvStep ==
  ASSUME PageTyped, RunsInv, [ConnectorPageNext]_connectorPageVars
  PROVE  RunsInv'
<1>1. CASE UNCHANGED connectorPageVars
  BY <1>1 DEF RunsInv, OneRun, ResultIsOfTool, connectorPageVars, viewVars
<1>2. CASE PageUserActs
  BY <1>2, UserActsRuns
<1>3. ASSUME NEW q \in wire, Goes(q) PROVE RunsInv'
  BY <1>3, GoesRuns
<1> QED BY <1>1, <1>2, <1>3 DEF ConnectorPageNext, Goes

\* There is no test at the start.
LEMMA RunsInvInit == ConnectorPageInit => RunsInv
BY DEF ConnectorPageInit, RunsInv, OneRun, ResultIsOfTool, NewRequest

ListOps == {"enable", "proxy", "drop"}
SaveOps == {"save", "env", "import", "create", "edit"}

\* A write beside another request: both are tainted, unless the other one is a
\* read that the user asked for.
Overlapping(w) ==
  \A p, q \in w :
    p # q /\ p.op \in WriteOps /\ q.op \notin {"run", "authorize"} => p.tainted /\ q.tainted

\* What will fetch the connector again, or leave the page stale.
Mending(w) ==
  \E q \in w : \/ q.op = "get" \/ (q.op \in WriteOps /\ q.tainted)
               \/ (q.op \in SaveOps /\ q.pc = "answered")

\* What a request makes of the list comes to the stored tools.
Settles(q, list, stored) ==
  /\ q.op = "proxy" /\ q.pc # "answered" =>
       /\ list[q.tool] # Gone /\ (list[q.tool].proxy <=> q.val)
       /\ \E b \in BOOLEAN : (b <=> ~q.val) /\ stored = [list EXCEPT ![q.tool].proxy = b]
  /\ q.op = "enable" /\ q.pc = "answered" =>
       list[q.tool] # Gone /\ stored = [list EXCEPT ![q.tool].on = q.val]
  /\ q.op = "drop" /\ q.pc = "answered" =>
       list[q.tool] # Gone /\ stored = [list EXCEPT ![q.tool] = Gone]
  /\ (q.op = "proxy" <=> q.pc = "answered") => list = stored

ShowsWith(w, list, stored) ==
  /\ \A q \in w : q.op \in ListOps => Settles(q, list, stored)
  /\ (\A q \in w : q.op \notin ListOps) => list = stored

GetsRow ==
  \A q \in wire : q.op = "get" /\ q.pc = "answered" /\ ~q.tainted /\ row # Gone =>
    q.answer.fields = row.fields /\ q.answer.tools = row.tools

ShowsUnlessMended ==
  ~stale /\ page = "open" /\ row # Gone /\ ~Mending(wire) =>
    shown = row.fields /\ ShowsWith(wire, toolList, row.tools)

RowsInv == Overlapping(wire) /\ GetsRow /\ ShowsUnlessMended

\* With no request under way nothing is left to mend.
LEMMA PageShowsFromInv == RowsInv => PageShowsRows
BY DEF RowsInv, ShowsUnlessMended, ShowsWith, Mending, PageShowsRows

\* Of two untainted writes of the list there is one.
LEMMA OneWrite ==
  ASSUME NEW w, Overlapping(w), ~Mending(w), NEW p, p \in w, NEW q, q \in w,
         p.op \in ListOps, q.op \in ListOps
  PROVE  p = q
BY DEF Overlapping, Mending, ListOps, WriteOps

\* A write of the user: alone, or what overlaps is tainted.
LEMMA WriteMade ==
  ASSUME NEW w \in SUBSET Requests, NEW op, NEW t, NEW val, Suits(op, t, val), op \in WriteOps
  PROVE  LET v == With(w, op, t, val)
         IN /\ Overlapping(v)
            /\ \A a \in v : a.op = "get" => a.tainted
            /\ \/ Mending(v)
               \/ w = {} /\ \E n \in v : v = {n} /\ n.op = op /\ n.tool = t /\ n.val = val /\ n.pc = "sent"
<1> DEFINE v == With(w, op, t, val)
<1>1. CASE w = {}
  <2> DEFINE n == NewRequest(op, t, val, w)
  <2>1. v = {n}
    BY <1>1 DEF With
  <2>2. n.op = op /\ n.tool = t /\ n.val = val /\ n.pc = "sent"
    BY DEF NewRequest
  <2>3. op # "get"
    BY DEF WriteOps
  <2> HIDE DEF v, n
  <2>4. Overlapping(v)
    BY <2>1 DEF Overlapping
  <2> QED BY <1>1, <2>1, <2>2, <2>3, <2>4 DEF v
<1>2. CASE w # {}
  <2> HIDE DEF v
  <2>1. ASSUME NEW a \in v PROVE a.tainted
    <3>1. \/ a.tainted <=> (Writing(w) \/ (op \in WriteOps /\ w # {}))
          \/ \E q \in w : a.tainted <=> q.tainted \/ op \in WriteOps
      BY WithFrom DEF v
    <3> QED BY <1>2, <3>1
  <2>2. \E n \in v : n.op = op
    <3>1. NewRequest(op, t, val, w) \in v
      BY DEF With, v
    <3>2. NewRequest(op, t, val, w).op = op
      BY DEF NewRequest
    <3> QED BY <3>1, <3>2
  <2>3. Mending(v)
    BY <2>1, <2>2 DEF Mending
  <2>4. Overlapping(v)
    BY <2>1 DEF Overlapping
  <2> QED BY <2>1, <2>3, <2>4 DEF v
<1> QED BY <1>1, <1>2

\* A read of the user.
LEMMA ReadMade ==
  ASSUME NEW w, Overlapping(w), NEW op \in {"run", "authorize"}, NEW t, NEW val
  PROVE  LET v == With(w, op, t, val)
         IN /\ Overlapping(v) /\ w \subseteq v
            /\ \A a \in v : a \in w \/ a.op = op
<1> DEFINE n == NewRequest(op, t, val, w)
<1>1. With(w, op, t, val) = w \union {n} /\ n.op = op /\ op \notin WriteOps
  BY DEF With, NewRequest, WriteOps
<1> HIDE DEF n
<1> QED BY <1>1 DEF Overlapping

\* A fetch, beside writes that are tainted.
AllTainted(w) == \A p \in w : p.op \in WriteOps => p.tainted

\* A fetch is made beside writes that are all tainted.
LEMMA FetchMade ==
  ASSUME NEW w \in SUBSET Requests, Overlapping(w), AllTainted(w),
         NEW op \in {"get", "assigned"}
  PROVE  LET v == With(w, op, NoTool, Gone)
         IN /\ Overlapping(v) /\ AllTainted(v) /\ w \subseteq v
            /\ \E n \in v : n.op = op
            /\ \A a \in v : a \in w \/ a.pc = "sent"
<1> DEFINE n == NewRequest(op, NoTool, Gone, w)
           v == With(w, op, NoTool, Gone)
<1>1. v = w \union {n} /\ op \notin WriteOps /\ n.op = op /\ n.pc = "sent"
  BY DEF With, NewRequest, WriteOps
<1>2. Writing(w) => n.tainted
  <2> DEFINE b == Writing(w) \/ (op \in WriteOps /\ w # {})
  <2>1. n = [op |-> op, tool |-> NoTool, val |-> Gone, pc |-> "sent", answer |-> Gone, tainted |-> b]
    BY DEF NewRequest
  <2> HIDE DEF b, n
  <2>2. n.tainted = b
    BY <2>1
  <2>3. n.tainted <=> b
    BY <2>2
  <2> QED BY <2>3 DEF b
<1> HIDE DEF n, v
<1>3. Overlapping(v)
  <2> SUFFICES ASSUME NEW p \in v, NEW q \in v, p # q, p.op \in WriteOps, q.op \notin {"run", "authorize"}
               PROVE  p.tainted /\ q.tainted
    BY DEF Overlapping
  <2>1. p \in w
    BY <1>1
  <2>2. p.tainted
    BY <2>1 DEF AllTainted
  <2>3. CASE q \in w
    BY <2>1, <2>3 DEF Overlapping
  <2>4. CASE q = n
    BY <1>2, <2>1, <2>2, <2>4 DEF Writing
  <2> QED BY <1>1, <2>3, <2>4
<1>4. AllTainted(v)
  BY <1>1 DEF AllTainted
<1> QED BY <1>1, <1>3, <1>4 DEF v

\* So are the fetches that follow a write.
LEMMA RefetchMade ==
  ASSUME NEW w, \A a \in w : WireTyped(a), Overlapping(w), AllTainted(w), NEW v,
         v = Refetch(w) \/ v = Prompted(w)
  PROVE  /\ Overlapping(v) /\ Mending(v)
         /\ \A a \in v : a \in w \/ a.pc = "sent"
<1> DEFINE u == Refetch(w)
<1>1. w \in SUBSET Requests /\ u \in SUBSET Requests
  BY RefetchTyped DEF WireTyped
<1>2. /\ Overlapping(u) /\ AllTainted(u) /\ w \subseteq u
      /\ \E n \in u : n.op = "get"
      /\ \A a \in u : a \in w \/ a.pc = "sent"
  BY <1>1, FetchMade DEF Refetch
<1> HIDE DEF u
<1>3. CASE v = u
  BY <1>2, <1>3 DEF Mending
<1>4. CASE v = Prompted(w)
  <2>1. v = With(u, "assigned", NoTool, Gone)
    BY <1>4 DEF Prompted, u
  <2>2. /\ Overlapping(v) /\ u \subseteq v
        /\ \A a \in v : a \in u \/ a.pc = "sent"
    BY <1>1, <1>2, <2>1, FetchMade
  <2>3. Mending(v)
    BY <1>2, <2>2 DEF Mending
  <2> QED BY <1>2, <2>2, <2>3
<1> QED BY <1>3, <1>4 DEF u

\* At the start the page is loading.
LEMMA RowsInvInit == ConnectorPageInit => RowsInv
<1> SUFFICES ASSUME ConnectorPageInit PROVE RowsInv
  OBVIOUS
<1>1. wire = {NewRequest("get", NoTool, Gone, {})} /\ page = "loading"
  BY DEF ConnectorPageInit
<1>2. NewRequest("get", NoTool, Gone, {}).op = "get" /\ NewRequest("get", NoTool, Gone, {}).pc = "sent"
  BY DEF NewRequest
<1> QED BY <1>1, <1>2 DEF RowsInv, Overlapping, GetsRow, ShowsUnlessMended, WriteOps

\* Reads that the user asks for, and steps that leave the requests alone.
LEMMA ReadLeaves ==
  ASSUME RowsInv, UNCHANGED <<row, page, shown, toolList, stale>>, Overlapping(wire'), wire \subseteq wire',
         \A a \in wire' : a \in wire \/ a.op \in {"run", "authorize"}
  PROVE  RowsInv'
<1>1. GetsRow'
  BY DEF RowsInv, GetsRow
<1>2. ~Mending(wire') => ~Mending(wire)
  BY DEF Mending
<1>3. ASSUME ShowsWith(wire, toolList, row.tools) PROVE ShowsWith(wire', toolList, row.tools)
  <2>1. \A a \in wire' : a.op \in ListOps => a \in wire
    BY DEF ListOps
  <2> QED BY <1>3, <2>1 DEF ShowsWith
<1> QED BY <1>1, <1>2, <1>3 DEF RowsInv, ShowsUnlessMended

\* The write that was made alone, while the page shows the row.
LEMMA AloneShows ==
  ASSUME RowsInv, wire = {}, ~stale, page = "open", row # Gone
  PROVE  shown = row.fields /\ toolList = row.tools
BY DEF RowsInv, ShowsUnlessMended, Mending, ShowsWith

\* A handler that only makes a request leaves what the page shows.
LEMMA SubmitRows ==
  ASSUME PageTyped, RowsInv, NEW op, NEW t, NEW val, NEW flag, Submits(op, t, val), Submit(op, flag, t, val)
  PROVE  RowsInv'
<1>0. wire \in SUBSET Requests /\ Suits(op, t, val) /\ op \notin {"proxy", "run", "get", "assigned"}
  BY DEF PageTyped, WireTyped, Submits
<1>1. wire' = With(wire, op, t, val) /\ UNCHANGED <<row, page, shown, toolList, stale>>
  BY DEF Submit, Click
<1>2. CASE op \in WriteOps
  <2>1. /\ Overlapping(wire') /\ \A a \in wire' : a.op = "get" => a.tainted
        /\ \/ Mending(wire')
           \/ wire = {} /\ \E n \in wire' : wire' = {n} /\ n.op = op /\ n.pc = "sent"
    BY <1>0, <1>1, <1>2, WriteMade
  <2>2. GetsRow'
    BY <2>1 DEF GetsRow
  <2>3. ASSUME ~stale, page = "open", row # Gone, ~Mending(wire')
        PROVE  shown = row.fields /\ ShowsWith(wire', toolList, row.tools)
    <3>1. shown = row.fields /\ toolList = row.tools
      BY <2>1, <2>3, AloneShows
    <3>2. PICK n \in wire' : wire' = {n} /\ n.op = op /\ n.pc = "sent"
      BY <2>1, <2>3
    <3>3. n.op # "proxy" => Settles(n, toolList, row.tools)
      BY <3>1, <3>2 DEF Settles
    <3> QED BY <1>0, <3>1, <3>2, <3>3 DEF ShowsWith
  <2> QED BY <1>1, <2>1, <2>2, <2>3 DEF RowsInv, ShowsUnlessMended
<1>3. CASE op \notin WriteOps
  <2>1. op \in {"run", "authorize"}
    BY <1>0, <1>3 DEF Suits, PageOps, ReadOps
  <2>2. Overlapping(wire)
    BY DEF RowsInv
  <2>3. /\ Overlapping(wire') /\ wire \subseteq wire'
        /\ \A a \in wire' : a \in wire \/ a.op = op
    BY <1>1, <2>1, <2>2, ReadMade
  <2> QED BY <1>1, <2>1, <2>3, ReadLeaves
<1> QED BY <1>2, <1>3

\* The flip is settled when its request is answered.
LEMMA ToggleProxyRows ==
  ASSUME PageTyped, RowsInv, NEW t \in PageTools, handleToggleProxy(t)
  PROVE  RowsInv'
<1>0. wire \in SUBSET Requests /\ toolList \in ToolLists
  BY DEF PageTyped, WireTyped
<1>1. /\ toolList[t] # Gone
      /\ UNCHANGED <<row, page, shown, assign, busy, testing, result, pageFaults, stale, switched>>
  BY ToggleProxyTyped
<1>2. PICK b \in BOOLEAN : /\ b <=> ~ toolList[t].proxy
                           /\ wire' = With(wire, "proxy", t, b) /\ Suits("proxy", t, b)
                           /\ toolList' = [toolList EXCEPT ![t].proxy = b]
  BY ToggleProxyTyped
<1>3. /\ Overlapping(wire') /\ \A a \in wire' : a.op = "get" => a.tainted
      /\ \/ Mending(wire')
         \/ wire = {} /\ \E n \in wire' : wire' = {n} /\ n.op = "proxy" /\ n.tool = t /\ n.val = b /\ n.pc = "sent"
  BY <1>0, <1>2, WriteMade DEF WriteOps
<1>4. GetsRow'
  BY <1>3 DEF GetsRow
<1>5. ASSUME ~stale, page = "open", row # Gone, ~Mending(wire')
      PROVE  shown = row.fields /\ ShowsWith(wire', toolList', row.tools)
  <2>1. shown = row.fields /\ toolList = row.tools
    BY <1>3, <1>5, AloneShows
  <2>2. PICK n \in wire' : wire' = {n} /\ n.op = "proxy" /\ n.tool = t /\ n.val = b /\ n.pc = "sent"
    BY <1>3, <1>5
  <2> DEFINE old == toolList[t]
             new == [old EXCEPT !.proxy = b]
  <2>3. old \in ToolRow /\ toolList' = [toolList EXCEPT ![t] = new] /\ new \in ToolRow /\ new.proxy = b
    BY <1>0, <1>1, <1>2, ProxyTyped DEF ToolLists
  <2>4. PICK c \in BOOLEAN : c = old.proxy
    BY <2>3 DEF ToolRow
  <2>5. c <=> ~b
    BY <1>2, <2>4
  <2> HIDE DEF new
  <2>6. toolList'[t] = new
    BY <1>0, <2>3 DEF ToolLists
  <2>7. [new EXCEPT !.proxy = c] = old
    BY <2>3, <2>4 DEF ToolRow, new
  <2>8. [toolList' EXCEPT ![t].proxy = c] = [toolList' EXCEPT ![t] = [new EXCEPT !.proxy = c]]
    BY <2>6
  <2>9. [toolList' EXCEPT ![t].proxy = c] = toolList
    BY <1>0, <2>3, <2>7, <2>8 DEF ToolLists
  <2>10. toolList'[n.tool] # Gone /\ (toolList'[n.tool].proxy <=> n.val)
    <3>1. new # Gone
      BY <2>3, ConnectorPageAssumption
    <3> QED BY <2>2, <2>3, <2>6, <3>1
  <2>11. \E d \in BOOLEAN : (d <=> ~n.val) /\ row.tools = [toolList' EXCEPT ![n.tool].proxy = d]
    BY <2>1, <2>2, <2>5, <2>9
  <2>12. Settles(n, toolList', row.tools)
    BY <2>2, <2>10, <2>11 DEF Settles
  <2> QED BY <2>1, <2>2, <2>12 DEF ShowsWith, ListOps
<1> QED BY <1>1, <1>3, <1>4, <1>5 DEF RowsInv, ShowsUnlessMended

\* What the user does keeps the invariant.
LEMMA UserActsRows == ASSUME PageTyped, RowsInv, PageUserActs PROVE RowsInv'
<1>1. CASE CloseAssign
  <2>1. UNCHANGED <<wire, page, shown, toolList, stale>>
        /\ (row' = row \/ (row # Gone /\ row' = [row EXCEPT !.assigned = TRUE]))
    BY <1>1 DEF CloseAssign
  <2>2. row' # Gone => row # Gone /\ row'.fields = row.fields /\ row'.tools = row.tools
    BY <2>1 DEF PageTyped, Rows
  <2> QED BY <2>1, <2>2 DEF RowsInv, GetsRow, ShowsUnlessMended
<1>2. ASSUME NEW t \in PageTools, OpenPlayground(t) PROVE RowsInv'
  <2>1. UNCHANGED <<wire, row, page, shown, toolList, stale>>
    BY <1>2 DEF OpenPlayground
  <2> QED BY <2>1, ReadLeaves DEF RowsInv
<1>3. ASSUME NEW t \in PageTools, handleTestTool(t) PROVE RowsInv'
  <2>1. wire' = With(wire, "run", t, Gone) /\ UNCHANGED <<row, page, shown, toolList, stale>>
    BY <1>3 DEF handleTestTool, Click
  <2>2. Overlapping(wire)
    BY DEF RowsInv
  <2>3. /\ Overlapping(wire') /\ wire \subseteq wire'
        /\ \A a \in wire' : a \in wire \/ a.op = "run"
    BY <2>1, <2>2, ReadMade
  <2> QED BY <2>1, <2>3, ReadLeaves
<1> QED BY <1>1, <1>2, <1>3, UserActsAre, SubmitRows, ToggleProxyRows

\* A request of the wire has moved: the writes overlap as before.
MovedTo(q, pc, answer, m) ==
  /\ wire' = (wire \ {q}) \union {m}
  /\ m \in Requests /\ m.op = q.op /\ m.tool = q.tool /\ m.val = q.val
  /\ m.pc = pc /\ m.answer = answer /\ (m.tainted <=> q.tainted)

\* A request that moves on overlaps as before.
LEMMA MovedOverlaps ==
  ASSUME NEW q, q \in wire, Overlapping(wire), NEW pc, NEW answer, NEW m, MovedTo(q, pc, answer, m)
  PROVE  Overlapping(wire')
<1> SUFFICES ASSUME NEW a \in wire', NEW b \in wire', a # b, a.op \in WriteOps, b.op \notin {"run", "authorize"}
             PROVE  a.tainted /\ b.tainted
  BY DEF Overlapping
<1>1. CASE a = m /\ b \in wire \ {q}
  <2>1. q.tainted /\ b.tainted
    BY <1>1 DEF Overlapping, MovedTo
  <2> QED BY <1>1, <2>1 DEF MovedTo
<1>2. CASE b = m /\ a \in wire \ {q}
  <2>1. a.tainted /\ q.tainted
    BY <1>2 DEF Overlapping, MovedTo
  <2> QED BY <1>2, <2>1 DEF MovedTo
<1>3. CASE a \in wire \ {q} /\ b \in wire \ {q}
  BY <1>3 DEF Overlapping
<1> QED BY <1>1, <1>2, <1>3 DEF MovedTo

\* A request that is served mends as before.
LEMMA MovedMends ==
  ASSUME NEW q, q \in wire, q.pc = "sent", NEW pc, NEW answer, NEW m, MovedTo(q, pc, answer, m)
  PROVE  Mending(wire) => Mending(wire')
<1> SUFFICES ASSUME NEW p \in wire,
                    \/ p.op = "get" \/ (p.op \in WriteOps /\ p.tainted)
                    \/ (p.op \in SaveOps /\ p.pc = "answered")
             PROVE  Mending(wire')
  BY DEF Mending
<1>1. CASE p = q
  <2>1. m.op = "get" \/ (m.op \in WriteOps /\ m.tainted)
    BY <1>1 DEF MovedTo
  <2> QED BY <2>1 DEF MovedTo, Mending
<1>2. CASE p # q
  BY <1>2 DEF MovedTo, Mending
<1> QED BY <1>1, <1>2

\* A handler of the list has written the row.
LEMMA WrittenSettles ==
  ASSUME PageTyped, NEW q, q \in wire, q.op \in ListOps, q.pc = "sent", Found(q), NEW r, r \in RowAfter(q),
         Settles(q, toolList, row.tools), NEW m, m.op = q.op, m.tool = q.tool, m.val = q.val, m.pc = "answered"
  PROVE  r.fields = row.fields /\ Settles(m, toolList, r.tools)
<1>0. Leaves(q, r)
  BY RowAfterIs
<1>1. /\ row \in Rows /\ r \in Rows \union {Gone} /\ q.tool \in PageTools /\ toolList \in ToolLists
      /\ row.tools \in ToolLists /\ row.tools[q.tool] # Gone
  <2>1. q.tool \in PageTools /\ row \in Rows /\ r \in Rows \union {Gone}
    BY <1>0, WireIs DEF Leaves, ListOps
  <2> QED BY <2>1, ConnectorPageAssumption DEF Found, PageTyped, Rows, ToolLists
<1>2. CASE q.op = "enable"
  <2>1. toolList = row.tools /\ r.tools = [row.tools EXCEPT ![q.tool].on = q.val] /\ r.fields = row.fields
    BY <1>0, <1>2 DEF Settles, Leaves
  <2>2. Settles(m, toolList, r.tools)
    BY <1>1, <1>2, <2>1 DEF Settles
  <2> QED BY <2>1, <2>2
<1>3. CASE q.op = "drop"
  <2>1. toolList = row.tools /\ r.tools = [row.tools EXCEPT ![q.tool] = Gone] /\ r.fields = row.fields
    BY <1>0, <1>3 DEF Settles, Leaves
  <2>2. Settles(m, toolList, r.tools)
    BY <1>1, <1>3, <2>1 DEF Settles
  <2> QED BY <2>1, <2>2
<1>4. CASE q.op = "proxy"
  <2>1. r.tools = [row.tools EXCEPT ![q.tool].proxy = q.val] /\ r.fields = row.fields
    BY <1>0, <1>4 DEF Leaves
  <2>2. PICK c \in BOOLEAN : /\ toolList[q.tool] # Gone /\ (toolList[q.tool].proxy <=> q.val)
                             /\ row.tools = [toolList EXCEPT ![q.tool].proxy = c]
    BY <1>4 DEF Settles
  <2> DEFINE old == toolList[q.tool]
             new == [old EXCEPT !.proxy = c]
  <2>3. old \in ToolRow /\ new \in ToolRow /\ row.tools = [toolList EXCEPT ![q.tool] = new]
    BY <1>1, <2>2, ProxyTyped DEF ToolLists
  <2>4. q.val \in BOOLEAN
    BY <1>4, WireIs
  <2>5. old.proxy \in BOOLEAN
    BY <2>3 DEF ToolRow
  <2>6. old.proxy = q.val
    BY <2>2, <2>4, <2>5
  <2>7. [new EXCEPT !.proxy = q.val] = old
    BY <2>3, <2>6 DEF ToolRow
  <2> HIDE DEF new
  <2>8. row.tools[q.tool] = new
    BY <1>1, <2>3 DEF ToolLists
  <2>9. r.tools = [row.tools EXCEPT ![q.tool] = [new EXCEPT !.proxy = q.val]]
    BY <2>1, <2>8
  <2>10. r.tools = toolList
    BY <1>1, <2>3, <2>7, <2>9 DEF ToolLists
  <2> QED BY <1>4, <2>1, <2>10 DEF Settles
<1> QED BY <1>2, <1>3, <1>4 DEF ListOps

\* The server does the work of a request.
LEMMA ServeRows == ASSUME PageTyped, RowsInv, NEW q, q \in wire, Serve(q) PROVE RowsInv'
<1>1. /\ q.pc = "sent" /\ Found(q) /\ UNCHANGED <<page, shown, toolList, stale>>
      /\ Moved(q, "answered", IF q.op \in {"get", "assigned"} THEN row ELSE Gone)
  BY DEF Serve, viewVars
<1>2. row' \in RowAfter(q)
  BY DEF Serve
<1>3. /\ row \in Rows /\ row' \in Rows \union {Gone}
      /\ q.op \in ReadOps => row' = row
      /\ q.op = "remove" => row' = Gone
  <2>1. Leaves(q, row')
    BY <1>1, <1>2, RowAfterIs
  <2> QED BY <2>1 DEF Leaves
<1>4. row # Gone /\ WireTyped(q) /\ q.op \in PageOps
  BY <1>3, ConnectorPageAssumption, WireIs
<1> DEFINE answer == IF q.op \in {"get", "assigned"} THEN row ELSE Gone
<1>5. answer \in Rows \union {Gone} /\ Moved(q, "answered", answer) /\ (q.op = "get" => answer = row)
  BY <1>1, <1>3
<1> HIDE DEF answer
<1>6. PICK m \in wire' : MovedTo(q, "answered", answer, m)
  BY <1>4, <1>5, MovedFrom DEF MovedTo
<1>7. Overlapping(wire')
  BY <1>6, MovedOverlaps DEF RowsInv
<1>8. GetsRow'
  <2> SUFFICES ASSUME NEW a \in wire', a.op = "get", a.pc = "answered", ~a.tainted, row' # Gone
               PROVE  a.answer.fields = row'.fields /\ a.answer.tools = row'.tools
    BY DEF GetsRow
  <2>1. CASE a = m
    BY <1>3, <1>5, <1>6, <2>1 DEF MovedTo, ReadOps
  <2>2. CASE a \in wire \ {q}
    <3>1. q.op \notin WriteOps
      BY <2>2 DEF RowsInv, Overlapping
    <3>2. row' = row
      BY <1>3, <1>4, <3>1 DEF PageOps
    <3> QED BY <2>2, <3>2 DEF RowsInv, GetsRow
  <2> QED BY <1>6, <2>1, <2>2 DEF MovedTo
<1>9. ASSUME ~stale, page = "open", row' # Gone, ~Mending(wire')
      PROVE  shown = row'.fields /\ ShowsWith(wire', toolList, row'.tools)
  <2>1. ~Mending(wire)
    BY <1>1, <1>6, <1>9, MovedMends
  <2>2. shown = row.fields /\ ShowsWith(wire, toolList, row.tools)
    BY <1>4, <1>9, <2>1 DEF RowsInv, ShowsUnlessMended
  <2>3. q.op \notin SaveOps
    BY <1>6, <1>9 DEF Mending, MovedTo
  <2>4. CASE q.op \in ReadOps
    <3>1. row' = row
      BY <1>3, <2>4
    <3>2. \A a \in wire' : a.op \in ListOps => a \in wire
      BY <1>6, <2>4 DEF MovedTo, ReadOps, ListOps
    <3>3. \A a \in wire : a.op \in ListOps => a \in wire'
      BY <1>6, <2>4 DEF MovedTo, ReadOps, ListOps
    <3> QED BY <2>2, <3>1, <3>2, <3>3 DEF ShowsWith
  <2>5. CASE q.op \in ListOps
    <3>1. row'.fields = row.fields /\ Settles(m, toolList, row'.tools)
      <4>1. Settles(q, toolList, row.tools)
        BY <2>2, <2>5 DEF ShowsWith
      <4> QED BY <1>1, <1>2, <1>6, <2>5, <4>1, WrittenSettles DEF MovedTo
    <3>2. \A a \in wire' : a.op \in ListOps => a = m
      BY <1>6, <2>1, <2>5, OneWrite DEF MovedTo, RowsInv
    <3>3. m.op \in ListOps
      BY <1>6, <2>5 DEF MovedTo
    <3> QED BY <2>2, <3>1, <3>2, <3>3 DEF ShowsWith
  <2> QED BY <1>3, <1>4, <1>9, <2>3, <2>4, <2>5 DEF PageOps, WriteOps, SaveOps, ListOps
<1> QED BY <1>1, <1>7, <1>8, <1>9 DEF RowsInv, ShowsUnlessMended

\* A request is refused or fails.
LEMMA StopsRows ==
  ASSUME PageTyped, RowsInv, NEW q, q \in wire, AnswerError(q) \/ Refuse(q) \/ Fails(q)
  PROVE  RowsInv'
<1>1. UNCHANGED <<row, page, shown, toolList>>
  BY DEF AnswerError, Refuse, Fails, viewVars
<1>2. PICK pc \in {"error", "failed"} : Moved(q, pc, Gone)
  BY DEF AnswerError, Refuse, Fails
<1>3. PICK m \in wire' : MovedTo(q, pc, Gone, m)
  BY <1>2, WireIs, MovedFrom DEF MovedTo
<1>4. Overlapping(wire')
  BY <1>3, MovedOverlaps DEF RowsInv
<1>5. GetsRow'
  BY <1>1, <1>3 DEF MovedTo, RowsInv, GetsRow
<1>6. CASE q.pc = "sent" /\ (stale' <=> stale)
  <2>1. Mending(wire) => Mending(wire')
    BY <1>3, <1>6, MovedMends
  <2>2. ASSUME ShowsWith(wire, toolList, row.tools) PROVE ShowsWith(wire', toolList, row.tools)
    <3>1. m.op \in ListOps => Settles(m, toolList, row.tools)
      <4>1. q.op \in ListOps => Settles(q, toolList, row.tools)
        BY <2>2 DEF ShowsWith
      <4> QED BY <1>3, <1>6, <4>1 DEF MovedTo, Settles
    <3>2. \A a \in wire' : a.op \in ListOps => Settles(a, toolList, row.tools)
      BY <1>3, <2>2, <3>1 DEF MovedTo, ShowsWith
    <3>3. (\A a \in wire' : a.op \notin ListOps) => \A a \in wire : a.op \notin ListOps
      BY <1>3 DEF MovedTo
    <3> QED BY <2>2, <3>2, <3>3 DEF ShowsWith
  <2> QED BY <1>1, <1>4, <1>5, <1>6, <2>1, <2>2 DEF RowsInv, ShowsUnlessMended
<1>7. CASE stale' = TRUE
  BY <1>4, <1>5, <1>7 DEF RowsInv, ShowsUnlessMended
<1>8. (q.pc = "sent" /\ (stale' <=> stale)) \/ stale' = TRUE
  BY DEF AnswerError, Refuse, Fails
<1> QED BY <1>6, <1>7, <1>8

\* A request is answered to the page.
LEMMA TakenRows ==
  ASSUME RowsInv, NEW q, q \in wire, wire' = wire \ {q}, row' = row
  PROVE  Overlapping(wire') /\ GetsRow'
BY DEF RowsInv, Overlapping, GetsRow

\* A fetch that ran alone shows the row.
LEMMA FetchRows ==
  ASSUME PageTyped, RowsInv, NEW q, q \in wire, FetchAnswered(q)
  PROVE  RowsInv'
<1>1. /\ q.op = "get" /\ q.pc = "answered" /\ wire' = wire \ {q} /\ row' = row
      /\ shown' = q.answer.fields /\ toolList' = q.answer.tools /\ (stale' <=> q.tainted)
  BY DEF FetchAnswered, Answered, Taken
<1>2. ASSUME ~q.tainted PROVE \A p \in wire' : p.op \notin ListOps
  BY <1>1, <1>2 DEF RowsInv, Overlapping, ListOps, WriteOps
<1>3. ASSUME ~q.tainted, row # Gone PROVE shown' = row.fields /\ toolList' = row.tools
  BY <1>1, <1>3 DEF RowsInv, GetsRow
<1> QED BY <1>1, <1>2, <1>3, TakenRows DEF RowsInv, ShowsUnlessMended, ShowsWith

\* Answers that change neither the list nor the row.
LEMMA QuietRows ==
  ASSUME RowsInv, NEW q, q \in wire, wire' = wire \ {q}, UNCHANGED <<row, page, shown, toolList>>,
         (stale' <=> stale \/ (q.op \in WriteOps /\ q.tainted)), q.op \notin ListOps \union {"get"},
         ~ (q.op \in SaveOps /\ q.pc = "answered")
  PROVE  RowsInv'
<1>1. ASSUME ~stale' PROVE Mending(wire) => Mending(wire')
  BY <1>1 DEF Mending
<1>2. ASSUME ShowsWith(wire, toolList, row.tools) PROVE ShowsWith(wire', toolList, row.tools)
  BY <1>2 DEF ShowsWith
<1> QED BY <1>1, <1>2, TakenRows DEF RowsInv, ShowsUnlessMended

\* Answers of the handlers that change the list by themselves.
LEMMA ListRows ==
  ASSUME RowsInv, NEW q, q \in wire, wire' = wire \ {q}, UNCHANGED <<row, page, shown>>,
         q.op \in ListOps, (stale' <=> stale \/ q.tainted),
         Settles(q, toolList, row.tools) => toolList' = row.tools
  PROVE  RowsInv'
<1>1. ASSUME ~stale', page = "open", row # Gone, ~Mending(wire')
      PROVE  shown = row.fields /\ ShowsWith(wire', toolList', row.tools)
  <2>1. ~Mending(wire)
    BY <1>1 DEF Mending, ListOps, SaveOps
  <2>2. shown = row.fields /\ ShowsWith(wire, toolList, row.tools)
    BY <1>1, <2>1 DEF RowsInv, ShowsUnlessMended
  <2>3. \A a \in wire' : a.op \notin ListOps
    BY <2>1, OneWrite DEF RowsInv
  <2>4. toolList' = row.tools
    BY <2>2 DEF ShowsWith
  <2> QED BY <2>2, <2>3, <2>4 DEF ShowsWith
<1> QED BY <1>1, TakenRows DEF RowsInv, ShowsUnlessMended

\* A handler of the list was answered.
LEMMA ListAnsweredRows ==
  ASSUME PageTyped, RowsInv, NEW q, q \in wire, ListAnswered(q)
  PROVE  RowsInv'
<1>1. /\ q.op \in ListOps /\ q.pc = "answered" /\ wire' = wire \ {q} /\ UNCHANGED <<row, page, shown>>
      /\ (stale' <=> stale \/ q.tainted)
      /\ toolList' = IF toolList[q.tool] = Gone \/ q.op = "proxy" THEN toolList
                     ELSE IF q.op = "drop" THEN [toolList EXCEPT ![q.tool] = Gone]
                     ELSE [toolList EXCEPT ![q.tool].on = q.val]
  BY DEF ListAnswered, Answered, Taken, ListOps
<1>2. Settles(q, toolList, row.tools) => toolList' = row.tools
  BY <1>1 DEF Settles, ListOps
<1> QED BY <1>1, <1>2, ListRows

\* A handler failed, and takes its flip back.
LEMMA HandlerFailsRows ==
  ASSUME PageTyped, RowsInv, NEW q, q \in wire, HandlerFails(q)
  PROVE  RowsInv'
<1>1. /\ q.op \notin {"get", "run"} /\ wire' = wire \ {q} /\ UNCHANGED <<row, page, shown>>
      /\ \/ toolList' = toolList /\ (q.op = "proxy" => toolList[q.tool] = Gone)
         \/ /\ q.op = "proxy" /\ toolList[q.tool] # Gone
            /\ \E b \in BOOLEAN : (b <=> ~q.val) /\ toolList' = [toolList EXCEPT ![q.tool].proxy = b]
      /\ stale' <=> (stale \/ (q.op \in WriteOps /\ q.tainted))
  BY HandlerFailsTyped
<1>2. q.pc \in {"failed", "error"}
  BY DEF HandlerFails
<1>3. CASE q.op \in ListOps
  <2>1. ASSUME Settles(q, toolList, row.tools) PROVE toolList' = row.tools
    <3>1. CASE q.op = "proxy"
      <4>1. PICK b \in BOOLEAN : (b <=> ~q.val) /\ row.tools = [toolList EXCEPT ![q.tool].proxy = b]
        BY <1>2, <2>1, <3>1 DEF Settles
      <4>2. toolList[q.tool] # Gone
        BY <1>2, <2>1, <3>1 DEF Settles
      <4>3. PICK c \in BOOLEAN : (c <=> ~q.val) /\ toolList' = [toolList EXCEPT ![q.tool].proxy = c]
        BY <1>1, <3>1, <4>2
      <4>4. b = c
        BY <4>1, <4>3
      <4> QED BY <4>1, <4>3, <4>4
    <3>2. CASE q.op # "proxy"
      <4>1. toolList = row.tools
        BY <1>2, <2>1, <3>2 DEF Settles
      <4> QED BY <1>1, <3>2, <4>1
    <3> QED BY <3>1, <3>2
  <2>2. q.op \in WriteOps
    BY <1>3 DEF ListOps, WriteOps
  <2> QED BY <1>1, <1>3, <2>1, <2>2, ListRows
<1>4. CASE q.op \notin ListOps
  BY <1>1, <1>2, <1>4, QuietRows DEF ListOps
<1> QED BY <1>3, <1>4

\* A write was answered: the fetch that follows will mend the page.
LEMMA SaveRows ==
  ASSUME PageTyped, RowsInv, NEW q, q \in wire, SaveAnswered(q)
  PROVE  RowsInv'
<1> DEFINE w == wire \ {q}
<1>1. /\ UNCHANGED <<row, page, shown, toolList>>
  BY DEF SaveAnswered, SaveOps
<1>2. \A a \in w : WireTyped(a)
  BY WireIs
<1>3. Overlapping(w)
  BY DEF RowsInv, Overlapping
<1>4. AllTainted(w)
  <2>1. q.op \in WriteOps /\ q.op \notin {"run", "authorize"}
    BY DEF SaveAnswered, WriteOps
  <2> QED BY <2>1 DEF RowsInv, Overlapping, AllTainted
<1> HIDE DEF w
<1>5. wire' = Prompted(w) \/ wire' = Refetch(w)
  BY <1>1 DEF SaveAnswered, w
<1>6. /\ Overlapping(wire') /\ Mending(wire')
      /\ \A a \in wire' : a \in w \/ a.pc = "sent"
  BY <1>2, <1>3, <1>4, <1>5, RefetchMade
<1>7. GetsRow'
  BY <1>1, <1>6 DEF RowsInv, GetsRow, w
<1> QED BY <1>6, <1>7 DEF RowsInv, ShowsUnlessMended

\* What a request does next keeps the invariant.
LEMMA GoesRows == ASSUME PageTyped, RowsInv, NEW q \in wire, Goes(q) PROVE RowsInv'
<1>1. CASE FetchFailed(q) \/ LeaveAnswered(q)
  <2>1. wire' = wire \ {q} /\ row' = row /\ page' = "left"
    BY <1>1 DEF FetchFailed, LeaveAnswered, Taken
  <2> QED BY <2>1, TakenRows DEF RowsInv, ShowsUnlessMended
<1>2. CASE PromptAnswered(q) \/ RunAnswered(q)
  <2>1. /\ wire' = wire \ {q} /\ UNCHANGED <<row, page, shown, toolList, stale>>
        /\ q.op \in {"assigned", "run"}
    BY <1>2 DEF PromptAnswered, RunAnswered, Answered, Taken
  <2>2. q.op \notin ListOps \union {"get"} /\ q.op \notin SaveOps /\ q.op \notin WriteOps
    BY <2>1 DEF ListOps, SaveOps, WriteOps
  <2> QED BY <2>1, <2>2, QuietRows
<1> QED BY <1>1, <1>2, ServeRows, StopsRows, FetchRows, SaveRows, ListAnsweredRows, HandlerFailsRows DEF Goes

\* Every step keeps the invariant.
LEMMA RowsInvStep ==
  ASSUME PageTyped, RowsInv, [ConnectorPageNext]_connectorPageVars
  PROVE  RowsInv'
<1>1. CASE UNCHANGED connectorPageVars
  BY <1>1 DEF RowsInv, GetsRow, ShowsUnlessMended, connectorPageVars, viewVars
<1>2. CASE PageUserActs
  BY <1>2, UserActsRows
<1>3. ASSUME NEW q \in wire, Goes(q) PROVE RowsInv'
  BY <1>3, GoesRows
<1> QED BY <1>1, <1>2, <1>3 DEF ConnectorPageNext, Goes

\* What the steps of the page keep.
ConnectorPageInv == PageTyped /\ RunsInv /\ RowsInv

\* What the invariant says in the words of the properties.
LEMMA ConnectorPageFromInv ==
  ConnectorPageInv => ConnectorPageTypeOK /\ PageShowsRows /\ ResultIsOfTool
BY ConnectorPageFromTyped, PageShowsFromInv DEF ConnectorPageInv, RunsInv

\* It holds at the start.
LEMMA ConnectorPageInvInit == ConnectorPageInit => ConnectorPageInv
BY ConnectorPageTypedInit, RunsInvInit, RowsInvInit DEF ConnectorPageInv

\* Every step keeps it.
LEMMA ConnectorPageInvStep ==
  ConnectorPageInv /\ [ConnectorPageNext]_connectorPageVars => ConnectorPageInv'
BY PageTypedStep, RunsInvStep, RowsInvStep DEF ConnectorPageInv

-----------------------------------------------------------------------------
(* The page of a server.                                                   *)

KeyOps  == {"generate", "revoke", "deleteKey"}
Ops     == {"load", "reload", "update", "assign", "delete"} \union KeyOps
Changes == [words : Words \union {Blank}] \union [active : BOOLEAN]
Details == [active : BOOLEAN, words : Words, links : SUBSET Linkable, keys : KeyLists]
Loads   == [server : Details, boxes : SUBSET Linkable]
Answers == {Deleted} \union ServerRow \union Loads
Args    == {Anywhere} \union Keys \union (SUBSET Linkable) \union Changes
Asks    == [op : Ops, arg : Args, pc : {"sent", "answered", "failed"},
            answer : Answers, tainted : BOOLEAN]
Modals  == [pc : {"open", "reading", "assigning", "closed"}, server : Servers,
            list : SUBSET Linkable]

\* What is known of a request of the page by its kind.
AskTyped(q) ==
  /\ q \in Asks
  /\ q.op = "update" => q.arg \in Changes
  /\ q.op = "assign" => q.arg \in SUBSET Linkable
  /\ q.op \in {"revoke", "deleteKey"} => q.arg \in Keys
  /\ q.pc = "answered" =>
       /\ q.op \in {"load", "reload"} => q.answer \in Loads
       /\ q.op = "update" => q.answer \in ServerRow

ServerTyped ==
  /\ servers \in [Servers -> ServerRow \union {Deleted}] /\ keys \in KeyLists
  /\ linkable \in SUBSET Linkable /\ given \in [Servers -> SUBSET Linkable]
  /\ \A q \in asks : AskTyped(q)
  /\ modal \in [Linkable -> Modals]
  /\ view \in Views \union {Deleted}
  /\ ticks \in SUBSET Linkable /\ onPage \in SUBSET Linkable
  /\ known \in SUBSET Linkable /\ unticked \in SUBSET Linkable
  /\ aged \in BOOLEAN /\ left \in BOOLEAN

\* The page is loaded before anything else is asked.
LoadFirst ==
  /\ \A q \in asks : q.op = "load" <=> view = Deleted
  /\ view = Deleted => \A p, q \in asks : p = q

SrvInv == ServerTyped /\ LoadFirst

Alike(a, q) == a.op = q.op /\ a.arg = q.arg /\ a.pc = q.pc /\ a.answer = q.answer

\* A request that is there after another one was made.
LEMMA AskingFrom ==
  ASSUME NEW w \in SUBSET Asks, NEW op \in Ops, NEW arg \in Args,
         NEW a, a \in Asking(w, op, arg)
  PROVE  /\ a \in Asks
         /\ \/ /\ a.op = op /\ a.arg = arg /\ a.pc = "sent" /\ a.answer = Deleted
               /\ a.tainted <=> \E q \in w : {q.op, op} \cap ServerWrites # {}
            \/ \E q \in w : Alike(a, q) /\ (a.tainted <=> q.tainted \/ op \in ServerWrites)
<1>1. CASE a = SentAsk(op, arg, w)
  <2> DEFINE b == \E q \in w : {q.op, op} \cap ServerWrites # {}
  <2>1. a = [op |-> op, arg |-> arg, pc |-> "sent", answer |-> Deleted, tainted |-> b]
    BY <1>1 DEF SentAsk
  <2>2. b \in BOOLEAN
    OBVIOUS
  <2> HIDE DEF b
  <2>3. a \in Asks /\ a.op = op /\ a.arg = arg /\ a.pc = "sent" /\ a.answer = Deleted /\ a.tainted = b
    BY <2>1, <2>2 DEF Asks, Answers
  <2>4. a.tainted <=> b
    BY <2>3
  <2> QED BY <2>3, <2>4 DEF b
<1>2. ASSUME NEW q \in w, a = [q EXCEPT !.tainted = @ \/ op \in ServerWrites]
      PROVE  a \in Asks /\ Alike(a, q) /\ (a.tainted <=> q.tainted \/ op \in ServerWrites)
  <2> DEFINE b == q.tainted \/ op \in ServerWrites
  <2>1. a = [q EXCEPT !.tainted = b] /\ q \in Asks
    BY <1>2
  <2>2. b \in BOOLEAN
    OBVIOUS
  <2> HIDE DEF b
  <2>3. a \in Asks /\ Alike(a, q) /\ a.tainted = b
    BY <2>1, <2>2 DEF Asks, Alike
  <2>4. a.tainted <=> b
    BY <2>3
  <2> QED BY <2>3, <2>4 DEF b
<1>3. a = SentAsk(op, arg, w) \/ \E q \in w : a = [q EXCEPT !.tainted = @ \/ op \in ServerWrites]
  BY DEF Asking
<1> QED BY <1>1, <1>2, <1>3

\* A request that is there after one has moved.
LEMMA MovesFrom ==
  ASSUME NEW q, q \in asks, NEW pc \in {"sent", "answered", "failed"}, NEW answer \in Answers,
         Moves(q, pc, answer), \A p \in asks : p \in Asks, NEW a, a \in asks'
  PROVE  \/ a \in asks /\ a # q
         \/ /\ a \in Asks /\ a.op = q.op /\ a.arg = q.arg /\ a.tainted = q.tainted
            /\ a.pc = pc /\ a.answer = answer
<1>1. q \in Asks
  OBVIOUS
<1>2. (a \in asks /\ a # q) \/ a = [q EXCEPT !.pc = pc, !.answer = answer]
  BY DEF Moves
<1> QED BY <1>1, <1>2 DEF Asks

\* The fields of what is fetched.
LEMMA FetchedIs ==
  ASSUME ServerTyped, servers[Home] # Deleted
  PROVE  /\ KeysOf(Home) \in KeyLists
         /\ findById(Home) \in Details /\ Loaded \in Loads
         /\ Loaded.server = findById(Home)
         /\ Shown(findById(Home)) =
              [active |-> servers[Home].active, words |-> servers[Home].words, keys |-> KeysOf(Home)]
<1>1. servers[Home] \in ServerRow /\ keys \in KeyLists /\ linkable \in SUBSET Linkable
  BY ServerPageAssumption DEF ServerTyped
<1>2. KeysOf(Home) \in KeyLists
  BY <1>1 DEF KeysOf, KeyLists
<1>3. findById(Home) \in Details
  BY <1>1, <1>2 DEF ServerRow, findById, Details
<1>4. Loaded \in Loads /\ Loaded.server = findById(Home)
  BY <1>1, <1>3 DEF Loaded, Loads
<1>5. Shown(findById(Home)) =
        [active |-> servers[Home].active, words |-> servers[Home].words, keys |-> KeysOf(Home)]
  BY DEF Shown, findById
<1> QED BY <1>2, <1>3, <1>4, <1>5

\* What is shown of a load.
LEMMA ShownIs ==
  ASSUME NEW a \in Details
  PROVE  Shown(a) \in Views /\ Shown(a) # Deleted /\ a.links \in SUBSET Linkable
BY ServerPageAssumption DEF Shown, Views, Details

\* At the start the rows and the requests of the server page have their types.
LEMMA SrvInvInit == ServerPageInit => SrvInv
<1> SUFFICES ASSUME ServerPageInit PROVE SrvInv
  OBVIOUS
<1>1. servers \in [Servers -> ServerRow \union {Deleted}]
  <2>1. PICK words \in Words, links \in SUBSET Linkable, there \in SUBSET (Servers \ {Home}) :
          servers = [s \in Servers |-> IF s = Home \/ s \in there
                                    THEN [active |-> TRUE, words |-> words,
                                          links |-> IF s = Home THEN links ELSE {}]
                                    ELSE Deleted]
    BY DEF ServerPageInit
  <2> QED BY <2>1 DEF ServerRow
<1>2. given \in [Servers -> SUBSET Linkable]
  <2>1. given = [s \in Servers |-> IF servers[s] = Deleted THEN {} ELSE servers[s].links]
    BY DEF ServerPageInit
  <2> QED BY <1>1, <2>1 DEF ServerRow
<1>3. keys \in KeyLists
  <2>1. keys = [k \in Keys |-> IF k \in OwnKeys THEN Deleted ELSE [on |-> TRUE, scope |-> Home]]
    BY DEF ServerPageInit
  <2> QED BY <2>1, ServerPageAssumption DEF KeyLists, KeyRow
<1>4. \A q \in asks : AskTyped(q) /\ q.op = "load"
  <2> TAKE q \in asks
  <2>1. q \in Asking({}, "load", Anywhere)
    BY DEF ServerPageInit, Asking
  <2>2. q \in Asks /\ q.op = "load" /\ q.pc = "sent"
    <3>1. {} \in SUBSET Asks /\ "load" \in Ops /\ Anywhere \in Args
      BY DEF Ops, Args
    <3> QED BY <2>1, <3>1, AskingFrom
  <2> QED BY <2>2 DEF AskTyped
<1>5. modal \in [Linkable -> Modals]
  <2>1. modal = [c \in Linkable |-> [pc |-> "open", server |-> Home, list |-> {}]]
    BY DEF ServerPageInit
  <2> QED BY <2>1, ServerPageAssumption DEF Modals
<1>6. /\ linkable = Linkable /\ view = Deleted /\ ticks = {} /\ onPage = {} /\ left = FALSE
      /\ aged = FALSE /\ known = {} /\ unticked = {}
  BY DEF ServerPageInit
<1>7. ServerTyped
  BY <1>1, <1>2, <1>3, <1>4, <1>5, <1>6 DEF ServerTyped
<1>8. asks = {SentAsk("load", Anywhere, {})}
  BY DEF ServerPageInit
<1> QED BY <1>4, <1>6, <1>7, <1>8 DEF SrvInv, LoadFirst

\* A request has the argument of its kind.
Fits(op, arg) ==
  /\ op \in Ops \ {"load"} /\ arg \in Args
  /\ op = "update" => arg \in Changes
  /\ op = "assign" => arg \in SUBSET Linkable
  /\ op \in {"revoke", "deleteKey"} => arg \in Keys

\* A request is made.
LEMMA AskingTyped ==
  ASSUME ServerTyped, NEW w, w \subseteq asks, NEW op, NEW arg, Fits(op, arg),
         NEW a, a \in Asking(w, op, arg), LoadFirst, view # Deleted
  PROVE  AskTyped(a) /\ a.op # "load"
<1>1. \A q \in w : AskTyped(q) /\ q \in Asks /\ q.op # "load"
  BY DEF ServerTyped, AskTyped, LoadFirst
<1>2. w \in SUBSET Asks /\ op \in Ops /\ arg \in Args
  BY <1>1 DEF Fits
<1>3. /\ a \in Asks
      /\ \/ a.op = op /\ a.arg = arg /\ a.pc = "sent" /\ a.answer = Deleted
         \/ \E q \in w : Alike(a, q)
  BY <1>2, AskingFrom
<1>4. CASE a.op = op /\ a.arg = arg /\ a.pc = "sent"
  BY <1>3, <1>4 DEF AskTyped, Fits
<1>5. CASE \E q \in w : Alike(a, q)
  BY <1>1, <1>3, <1>5 DEF AskTyped, Alike
<1> QED BY <1>3, <1>4, <1>5

\* A request moves on.
LEMMA MovesTyped ==
  ASSUME ServerTyped, LoadFirst, NEW q, q \in asks, NEW pc \in {"answered", "failed"},
         NEW answer \in Answers, Moves(q, pc, answer), view' = view,
         pc = "answered" => /\ q.op \in {"load", "reload"} => answer \in Loads
                            /\ q.op = "update" => answer \in ServerRow
  PROVE  (\A a \in asks' : AskTyped(a)) /\ LoadFirst'
<1>1. \A p \in asks : AskTyped(p) /\ p \in Asks
  BY DEF ServerTyped, AskTyped
<1>2. ASSUME NEW a \in asks'
      PROVE  \/ a \in asks /\ a # q
             \/ /\ a \in Asks /\ a.op = q.op /\ a.arg = q.arg /\ a.tainted = q.tainted
                /\ a.pc = pc /\ a.answer = answer
  BY <1>1, MovesFrom
<1>3. \A a \in asks' : AskTyped(a)
  BY <1>1, <1>2 DEF AskTyped
<1>4. \A a \in asks' : a.op = "load" <=> view = Deleted
  BY <1>2 DEF LoadFirst
<1>5. view = Deleted => \A a, b \in asks' : a = b
  <2>1. view = Deleted => asks = {q}
    BY DEF LoadFirst
  <2>2. asks' = (asks \ {q}) \union {[q EXCEPT !.pc = pc, !.answer = answer]}
    BY DEF Moves
  <2> QED BY <2>1, <2>2
<1> QED BY <1>3, <1>4, <1>5 DEF LoadFirst

\* What the modal does.
LEMMA HandleSubmitTyped == ASSUME SrvInv, NEW c \in Linkable, handleSubmit(c) PROVE SrvInv'
<1>1. ServerTyped /\ LoadFirst
  BY DEF SrvInv
<1>2. PICK s \in Servers :
        /\ modal' = [modal EXCEPT ![c] = [pc |-> "reading", server |-> s, list |-> {}]]
        /\ IF servers[s] # Deleted THEN UNCHANGED servers
           ELSE s # Home /\ \E w \in Words :
                 servers' = [servers EXCEPT ![s] = [active |-> TRUE, words |-> w, links |-> {}]]
  BY DEF handleSubmit
<1>3. modal' \in [Linkable -> Modals]
  BY <1>1, <1>2 DEF ServerTyped, Modals
<1>4. servers' \in [Servers -> ServerRow \union {Deleted}]
  <2>1. CASE UNCHANGED servers
    BY <1>1, <2>1 DEF ServerTyped
  <2>2. ASSUME NEW w \in Words,
               servers' = [servers EXCEPT ![s] = [active |-> TRUE, words |-> w, links |-> {}]]
        PROVE  servers' \in [Servers -> ServerRow \union {Deleted}]
    <3>1. [active |-> TRUE, words |-> w, links |-> {}] \in ServerRow
      BY DEF ServerRow
    <3> QED BY <1>1, <2>2, <3>1 DEF ServerTyped
  <2> QED BY <1>2, <2>1, <2>2
<1>5. UNCHANGED <<keys, linkable, asks, view, ticks, onPage, left, known, unticked, aged, given>>
  BY DEF handleSubmit, modalUnchanged, pageVars
<1> QED BY <1>1, <1>3, <1>4, <1>5 DEF SrvInv, ServerTyped, LoadFirst

\* The fields of a modal that is open.
LEMMA ModalIs ==
  ASSUME ServerTyped, NEW c \in Linkable
  PROVE  /\ modal[c] \in Modals /\ modal[c].server \in Servers /\ modal[c].list \in SUBSET Linkable
         /\ servers[modal[c].server] # Deleted => servers[modal[c].server] \in ServerRow
         /\ \A s \in Servers : servers[s] # Deleted =>
              /\ servers[s] \in ServerRow /\ servers[s].links \in SUBSET Linkable
              /\ servers[s].active \in BOOLEAN /\ servers[s].words \in Words
BY DEF ServerTyped, Modals, ServerRow

\* A modal reads the assignments of its server.
LEMMA ModalReadsTyped == ASSUME SrvInv, NEW c \in Linkable, ModalReads(c) PROVE SrvInv'
<1>1. ServerTyped /\ LoadFirst
  BY DEF SrvInv
<1> DEFINE m == [modal[c] EXCEPT !.pc = "assigning", !.list = servers[modal[c].server].links]
<1>2. modal' = [modal EXCEPT ![c] = m]
  BY DEF ModalReads
<1>3. m \in Modals
  <2>1. modal[c] \in Modals /\ servers[modal[c].server].links \in SUBSET Linkable
    BY <1>1, ModalIs DEF ModalReads
  <2> QED BY <2>1 DEF Modals
<1> HIDE DEF m
<1>4. modal' \in [Linkable -> Modals]
  BY <1>1, <1>2, <1>3 DEF ServerTyped
<1>5. UNCHANGED <<servers, keys, linkable, asks, view, ticks, onPage, left, known, unticked, aged, given>>
  BY DEF ModalReads, modalUnchanged, pageVars
<1> QED BY <1>1, <1>4, <1>5 DEF SrvInv, ServerTyped, LoadFirst

\* The list of a server is replaced.
LEMMA AssignTyped ==
  ASSUME ServerTyped, NEW s \in Servers, NEW list \in SUBSET Linkable, NEW read, NEW cleared,
         Assignable(s, list), assignConnectors(s, list, read, cleared)
  PROVE  /\ servers' \in [Servers -> ServerRow \union {Deleted}]
         /\ given' \in [Servers -> SUBSET Linkable]
         /\ servers' = [servers EXCEPT ![s] = [servers[s] EXCEPT !.links = list]]
         /\ given' = [given EXCEPT ![s] =
                        (given[s] \ ((servers[s].links \ read) \union cleared)) \union list]
<1>1. servers[s] \in ServerRow /\ servers \in [Servers -> ServerRow \union {Deleted}]
      /\ given \in [Servers -> SUBSET Linkable]
  BY DEF Assignable, ServerTyped
<1>2. servers' = [servers EXCEPT ![s] = [servers[s] EXCEPT !.links = list]]
  BY <1>1 DEF assignConnectors
<1>3. [servers[s] EXCEPT !.links = list] \in ServerRow
  BY <1>1 DEF ServerRow
<1>4. given' = [given EXCEPT ![s] =
                  (given[s] \ ((servers[s].links \ read) \union cleared)) \union list]
  BY <1>1 DEF assignConnectors
<1>5. (given[s] \ ((servers[s].links \ read) \union cleared)) \union list \in SUBSET Linkable
  BY <1>1
<1> QED BY <1>1, <1>2, <1>3, <1>4, <1>5

\* A modal writes the assignments.
LEMMA ModalWritesTyped == ASSUME SrvInv, NEW c \in Linkable, ModalWrites(c) PROVE SrvInv'
<1>1. ServerTyped /\ LoadFirst
  BY DEF SrvInv
<1>2. /\ Assignable(modal[c].server, Listed(modal[c].list, c))
      /\ assignConnectors(modal[c].server, Listed(modal[c].list, c), modal[c].list, {})
      /\ \E pc \in {"closed", "open"} : modal' = [modal EXCEPT ![c].pc = pc]
  BY DEF ModalWrites
<1>3. modal[c] \in Modals /\ modal[c].server \in Servers /\ Listed(modal[c].list, c) \in SUBSET Linkable
  BY <1>1, ModalIs DEF Listed
<1>4. modal' \in [Linkable -> Modals]
  <2>1. PICK pc \in {"closed", "open"} : modal' = [modal EXCEPT ![c] = [modal[c] EXCEPT !.pc = pc]]
    BY <1>2
  <2>2. [modal[c] EXCEPT !.pc = pc] \in Modals
    BY <1>3, <2>1 DEF Modals
  <2> QED BY <1>1, <2>1, <2>2 DEF ServerTyped
<1>5. servers' \in [Servers -> ServerRow \union {Deleted}] /\ given' \in [Servers -> SUBSET Linkable]
  BY <1>1, <1>2, <1>3, AssignTyped
<1>6. UNCHANGED <<keys, linkable, asks, view, ticks, onPage, left, known, unticked, aged>>
  BY DEF ModalWrites, modalUnchanged, pageVars
<1> QED BY <1>1, <1>4, <1>5, <1>6 DEF SrvInv, ServerTyped, LoadFirst

\* A modal fails.
LEMMA ModalFailsTyped == ASSUME SrvInv, NEW c \in Linkable, ModalFails(c) PROVE SrvInv'
<1>1. ServerTyped /\ LoadFirst
  BY DEF SrvInv
<1>2. modal' = [modal EXCEPT ![c] = [modal[c] EXCEPT !.pc = "open"]]
  BY DEF ModalFails
<1>3. [modal[c] EXCEPT !.pc = "open"] \in Modals
  BY <1>1, ModalIs DEF Modals
<1>4. modal' \in [Linkable -> Modals]
  BY <1>1, <1>2, <1>3 DEF ServerTyped
<1>5. UNCHANGED <<servers, keys, linkable, asks, view, ticks, onPage, left, known, unticked, aged, given>>
  BY DEF ModalFails, modalUnchanged, pageVars
<1> QED BY <1>1, <1>4, <1>5 DEF SrvInv, ServerTyped, LoadFirst

\* What the user of the page does.
LEMMA RequestTyped ==
  ASSUME SrvInv, NEW op, NEW arg, Fits(op, arg), Request(op, arg)
  PROVE  SrvInv'
<1>1. ServerTyped /\ LoadFirst /\ view # Deleted /\ asks' = Asking(asks, op, arg)
  BY DEF SrvInv, Request
<1>2. \A a \in asks' : AskTyped(a) /\ a.op # "load"
  <2>1. asks \subseteq asks
    OBVIOUS
  <2> QED BY <1>1, <2>1, AskingTyped
<1>3. UNCHANGED <<servers, keys, linkable, view, ticks, onPage, left, known, unticked, modal, aged, given>>
  BY DEF Request, pageVars
<1> QED BY <1>1, <1>2, <1>3 DEF SrvInv, ServerTyped, LoadFirst

\* Every handler of the page makes a request that fits.
LEMMA ClickFits ==
  ASSUME SrvInv,
         \/ \E w \in Words \union {Blank} : handleSaveDetails(w)
         \/ \E k \in Keys : handleRevokeKey(k) \/ handleDeleteKey(k)
         \/ handleToggleActive \/ handleSaveConnectors \/ handleGenerateKey \/ handleDeleteServer
  PROVE  \E op \in ServerWrites, arg \in Args :
           /\ Fits(op, arg) /\ Request(op, arg)
           /\ op = "assign" => arg = ticks
<1>1. ServerTyped
  BY DEF SrvInv
<1>0. ASSUME NEW x \in Changes PROVE Fits("update", x) /\ x \in Args
  <2>1. x \in Args
    BY DEF Args
  <2>2. "update" \in Ops \ {"load"}
    BY DEF Ops
  <2> QED BY <2>1, <2>2 DEF Fits
<1>2. ASSUME NEW w \in Words \union {Blank}, handleSaveDetails(w)
      PROVE  Fits("update", [words |-> w]) /\ Request("update", [words |-> w]) /\ [words |-> w] \in Args
  <2>1. [words |-> w] \in Changes
    BY DEF Changes
  <2> QED BY <1>0, <1>2, <2>1 DEF handleSaveDetails
<1>3. ASSUME handleToggleActive
      PROVE  Fits("update", [active |-> ~ view.active]) /\ Request("update", [active |-> ~ view.active])
             /\ [active |-> ~ view.active] \in Args
  <2> DEFINE b == ~ view.active
  <2>1. b \in BOOLEAN
    OBVIOUS
  <2>2. Request("update", [active |-> b])
    BY <1>3 DEF handleToggleActive
  <2> HIDE DEF b
  <2>3. [active |-> b] \in Changes
    BY <2>1 DEF Changes
  <2>4. Fits("update", [active |-> b]) /\ Request("update", [active |-> b]) /\ [active |-> b] \in Args
    BY <1>0, <2>2, <2>3
  <2> QED BY <2>4 DEF b
<1>4. ASSUME handleSaveConnectors
      PROVE  Fits("assign", ticks) /\ Request("assign", ticks) /\ ticks \in Args
  BY <1>1, <1>4 DEF handleSaveConnectors, Fits, Ops, Args, ServerTyped
<1>5. ASSUME NEW op \in {"generate", "delete"}, Request(op, Anywhere)
      PROVE  Fits(op, Anywhere) /\ Anywhere \in Args
  BY <1>5 DEF Fits, Ops, KeyOps, Args
<1>6. ASSUME NEW k \in Keys, NEW op \in {"revoke", "deleteKey"}, Request(op, k)
      PROVE  Fits(op, k) /\ k \in Args
  BY <1>6 DEF Fits, Ops, KeyOps, Args
<1>7. {"update", "assign", "generate", "revoke", "deleteKey", "delete"} \subseteq ServerWrites
  BY DEF ServerWrites
<1>8. CASE \E w \in Words \union {Blank} : handleSaveDetails(w)
  BY <1>2, <1>7, <1>8
<1>9. CASE \E k \in Keys : handleRevokeKey(k) \/ handleDeleteKey(k)
  BY <1>6, <1>7, <1>9 DEF handleRevokeKey, handleDeleteKey
<1>10. CASE handleToggleActive
  BY <1>3, <1>7, <1>10
<1>11. CASE handleSaveConnectors
  BY <1>4, <1>7, <1>11
<1>12. CASE handleGenerateKey \/ handleDeleteServer
  BY <1>5, <1>7, <1>12 DEF handleGenerateKey, handleDeleteServer
<1> QED BY <1>8, <1>9, <1>10, <1>11, <1>12

\* The boxes of the page are ticked.
LEMMA TickingTyped ==
  ASSUME SrvInv, NEW now \in SUBSET Linkable, Ticking(now)
  PROVE  SrvInv'
<1>1. ServerTyped /\ LoadFirst
  BY DEF SrvInv
<1>2. /\ ticks' = now /\ unticked' = unticked \union (ticks \ now)
      /\ UNCHANGED <<servers, keys, linkable, asks, view, onPage, left, known, modal, aged, given>>
  BY DEF Ticking
<1>3. unticked' \in SUBSET Linkable
  BY <1>1, <1>2 DEF ServerTyped
<1> QED BY <1>1, <1>2, <1>3 DEF SrvInv, ServerTyped, LoadFirst

\* Every way to tick boxes ticks boxes of connectors.
LEMMA TicksFit ==
  ASSUME SrvInv, (\E c \in Linkable : handleToggleConnector(c)) \/ TickAll \/ TickNone
  PROVE  \E now \in SUBSET Linkable : Ticking(now)
<1>1. onPage \in SUBSET Linkable /\ ticks \in SUBSET Linkable
  BY DEF SrvInv, ServerTyped
<1>2. CASE \E c \in Linkable : handleToggleConnector(c)
  <2>1. PICK c \in Linkable : handleToggleConnector(c)
    BY <1>2
  <2>2. (IF c \in ticks THEN ticks \ {c} ELSE ticks \union {c}) \in SUBSET Linkable
    BY <1>1
  <2> QED BY <2>1, <2>2 DEF handleToggleConnector
<1>3. CASE TickAll \/ TickNone
  BY <1>1, <1>3 DEF TickAll, TickNone
<1> QED BY <1>2, <1>3

\* What a request writes.
LEMMA AskIs ==
  ASSUME ServerTyped, NEW q, q \in asks
  PROVE  /\ AskTyped(q) /\ q \in Asks /\ q.op \in Ops /\ q.arg \in Args
         /\ q.pc \in {"sent", "answered", "failed"} /\ q.tainted \in BOOLEAN
BY DEF ServerTyped, AskTyped, Asks

\* The fields of the row that are sent are written.
LEMMA FieldsTyped ==
  ASSUME ServerTyped, servers[Home] # Deleted, NEW data \in Changes
  PROVE  /\ FieldsWritten(data) \in [Servers -> ServerRow \union {Deleted}]
         /\ FieldsWritten(data)[Home] \in ServerRow
         /\ FieldsWritten(data)[Home].links = servers[Home].links
         /\ \A s \in Servers \ {Home} : FieldsWritten(data)[s] = servers[s]
<1> DEFINE a == IF "active" \in DOMAIN data THEN data.active ELSE servers[Home].active
           w == IF "words" \in DOMAIN data /\ data.words # Blank THEN data.words
                ELSE servers[Home].words
           r == [active |-> a, words |-> w, links |-> servers[Home].links]
<1>1. servers[Home] \in ServerRow /\ servers \in [Servers -> ServerRow \union {Deleted}] /\ Home \in Servers
  BY ServerPageAssumption DEF ServerTyped
<1>2. FieldsWritten(data) = [servers EXCEPT ![Home] = r]
  BY DEF FieldsWritten
<1>3. a \in BOOLEAN
  <2>1. CASE data \in [words : Words \union {Blank}]
    <3>1. DOMAIN data = {"words"}
      BY <2>1
    <3>2. a = servers[Home].active
      BY <3>1
    <3> QED BY <1>1, <3>2 DEF ServerRow
  <2>2. CASE data \in [active : BOOLEAN]
    <3>1. "active" \in DOMAIN data /\ data.active \in BOOLEAN
      BY <2>2
    <3> QED BY <3>1
  <2> QED BY <2>1, <2>2 DEF Changes
<1>4. w \in Words
  <2>1. CASE data \in [words : Words \union {Blank}]
    <3>1. data.words \in Words \union {Blank}
      BY <2>1
    <3> QED BY <1>1, <3>1 DEF ServerRow
  <2>2. CASE data \in [active : BOOLEAN]
    <3>1. DOMAIN data = {"active"}
      BY <2>2
    <3> QED BY <1>1, <3>1 DEF ServerRow
  <2> QED BY <2>1, <2>2 DEF Changes
<1> HIDE DEF a, w
<1>5. r \in ServerRow /\ r.links = servers[Home].links
  BY <1>1, <1>3, <1>4 DEF ServerRow
<1> HIDE DEF r
<1> QED BY <1>1, <1>2, <1>5

\* A key is written, or is left as it is.
LEMMA KeyWrittenTyped ==
  ASSUME ServerTyped, NEW k \in Keys, NEW v,
         v \in KeyRow \union {Deleted} \/ keys[k] = Deleted, KeyWritten(k, v)
  PROVE  keys' \in KeyLists
BY DEF KeyWritten, ServerTyped, KeyLists

\* A request has done its work on the rows.
LEMMA EffectTyped ==
  ASSUME ServerTyped, NEW q, q \in asks, Accepted(q), Effect(q)
  PROVE  /\ servers' \in [Servers -> ServerRow \union {Deleted}] /\ keys' \in KeyLists
         /\ given' \in [Servers -> SUBSET Linkable]
         /\ q.op = "update" => servers'[Home] \in ServerRow
<1>1. /\ AskTyped(q) /\ q.op \in Ops
      /\ servers \in [Servers -> ServerRow \union {Deleted}] /\ keys \in KeyLists
      /\ given \in [Servers -> SUBSET Linkable] /\ Home \in Servers
  BY AskIs, ServerPageAssumption DEF ServerTyped
<1>2. CASE q.op = "update"
  <2>1. servers' = FieldsWritten(q.arg) /\ UNCHANGED <<keys, given>>
    BY <1>2 DEF Effect
  <2>2. servers[Home] # Deleted /\ q.arg \in Changes
    BY <1>1, <1>2 DEF Accepted, AskTyped
  <2>3. /\ FieldsWritten(q.arg) \in [Servers -> ServerRow \union {Deleted}]
        /\ FieldsWritten(q.arg)[Home] \in ServerRow
    BY <2>2, FieldsTyped
  <2> QED BY <1>1, <2>1, <2>3
<1>3. CASE q.op = "assign"
  <2>1. assignConnectors(Home, q.arg, known, unticked \ q.arg) /\ UNCHANGED keys
    BY <1>3 DEF Effect
  <2>2. Assignable(Home, q.arg) /\ q.arg \in SUBSET Linkable
    BY <1>1, <1>3 DEF Accepted, AskTyped
  <2> QED BY <1>1, <1>3, <2>1, <2>2, AssignTyped
<1>4. CASE q.op = "generate"
  <2>1. PICK k \in OwnKeys : keys' = [keys EXCEPT ![k] = [on |-> TRUE, scope |-> Home]]
    BY <1>4 DEF Effect, generate
  <2>2. [on |-> TRUE, scope |-> Home] \in KeyRow
    BY <1>1 DEF KeyRow
  <2>3. keys' \in KeyLists
    BY <1>1, <2>1, <2>2, ServerPageAssumption DEF KeyLists
  <2>4. UNCHANGED <<servers, given>>
    BY <1>4 DEF Effect, generate
  <2> QED BY <1>1, <1>4, <2>3, <2>4
<1>5. CASE q.op = "revoke"
  <2>1. KeyWritten(q.arg, [keys[q.arg] EXCEPT !.on = FALSE]) /\ UNCHANGED <<servers, given>>
    BY <1>5 DEF Effect, revoke
  <2>2. q.arg \in Keys /\ (keys[q.arg] \in KeyRow \/ keys[q.arg] = Deleted)
    BY <1>1, <1>5 DEF AskTyped, KeyLists
  <2>3. [keys[q.arg] EXCEPT !.on = FALSE] \in KeyRow \/ keys[q.arg] = Deleted
    BY <2>2 DEF KeyRow
  <2>4. keys' \in KeyLists
    BY <2>1, <2>2, <2>3, KeyWrittenTyped
  <2> QED BY <1>1, <1>5, <2>1, <2>4
<1>6. CASE q.op = "deleteKey"
  <2>1. KeyWritten(q.arg, Deleted) /\ UNCHANGED <<servers, given>>
    BY <1>6 DEF Effect, deleteKey
  <2>2. q.arg \in Keys
    BY <1>1, <1>6 DEF AskTyped
  <2>3. keys' \in KeyLists
    BY <2>1, <2>2, KeyWrittenTyped
  <2> QED BY <1>1, <1>6, <2>1, <2>3
<1>7. CASE q.op = "delete"
  <2>1. /\ servers' = [servers EXCEPT ![Home] = Deleted]
        /\ keys' = [k \in Keys |-> IF keys[k] # Deleted /\ keys[k].scope = Home
                                   THEN [keys[k] EXCEPT !.scope = Anywhere] ELSE keys[k]]
        /\ given' = [given EXCEPT ![Home] = {}]
    BY <1>7 DEF Effect, delete
  <2>2. ASSUME NEW k \in Keys, keys[k] # Deleted
        PROVE  [keys[k] EXCEPT !.scope = Anywhere] \in KeyRow
    <3>1. keys[k] \in KeyRow
      BY <1>1, <2>2 DEF KeyLists
    <3> QED BY <3>1 DEF KeyRow
  <2>3. keys' \in KeyLists
    BY <1>1, <2>1, <2>2 DEF KeyLists
  <2> QED BY <1>1, <1>7, <2>1, <2>3
<1>8. CASE q.op \in {"load", "reload"}
  <2>1. UNCHANGED <<servers, keys, given>>
    BY <1>8 DEF Effect
  <2> QED BY <1>1, <1>8, <2>1
<1> QED BY <1>1, <1>2, <1>3, <1>4, <1>5, <1>6, <1>7, <1>8 DEF Ops, KeyOps

\* What a request is answered.
AnswerTo(q) ==
  CASE q.op \in {"load", "reload"} -> Loaded
    [] q.op = "update"             -> servers'[Home]
    [] OTHER                       -> Deleted

\* What a request is answered.
LEMMA AnswerToIs ==
  ASSUME NEW q, q \in asks, q.op \in Ops
  PROVE  /\ q.op \in {"load", "reload"} => AnswerTo(q) = Loaded
         /\ q.op = "update" => AnswerTo(q) = servers'[Home]
         /\ q.op \notin {"load", "reload", "update"} => AnswerTo(q) = Deleted
BY DEF AnswerTo

\* A request is answered.
LEMMA AnswerTyped == ASSUME SrvInv, NEW q, q \in asks, Answer(q) PROVE SrvInv'
<1>1. ServerTyped /\ LoadFirst /\ AskTyped(q) /\ q.op \in Ops
  BY AskIs DEF SrvInv
<1>2. /\ Accepted(q) /\ Effect(q) /\ Moves(q, "answered", AnswerTo(q))
      /\ UNCHANGED <<linkable, view, ticks, onPage, left, known, unticked, modal, aged>>
  BY DEF Answer, AnswerTo, pageVars
<1>3. /\ servers' \in [Servers -> ServerRow \union {Deleted}] /\ keys' \in KeyLists
      /\ given' \in [Servers -> SUBSET Linkable]
      /\ q.op = "update" => servers'[Home] \in ServerRow
  BY <1>1, <1>2, EffectTyped
<1>4. q.op \in {"load", "reload"} => Loaded \in Loads
  <2>1. q.op \in {"load", "reload"} => servers[Home] # Deleted
    BY <1>2 DEF Accepted
  <2> QED BY <1>1, <2>1, FetchedIs
<1>5. /\ AnswerTo(q) \in Answers
      /\ q.op \in {"load", "reload"} => AnswerTo(q) \in Loads
      /\ q.op = "update" => AnswerTo(q) \in ServerRow
  BY <1>1, <1>3, <1>4, AnswerToIs DEF Answers
<1>6. (\A a \in asks' : AskTyped(a)) /\ LoadFirst'
  BY <1>1, <1>2, <1>5, MovesTyped
<1> QED BY <1>1, <1>2, <1>3, <1>6 DEF SrvInv, ServerTyped

\* A request fails or its answer is lost.
LEMMA AskFailsTyped == ASSUME SrvInv, NEW q, q \in asks, AskFails(q) PROVE SrvInv'
<1>1. ServerTyped /\ LoadFirst
  BY DEF SrvInv
<1>2. /\ Moves(q, "failed", Deleted)
      /\ aged' = (aged \/ (q.pc = "answered" /\ q.op \in ServerWrites \union {"reload"}))
      /\ UNCHANGED <<servers, keys, linkable, view, ticks, onPage, left, known, unticked, modal, given>>
  BY DEF AskFails, pageVars
<1>3. (\A a \in asks' : AskTyped(a)) /\ LoadFirst'
  <2>1. Deleted \in Answers
    BY DEF Answers
  <2> QED BY <1>1, <1>2, <2>1, MovesTyped
<1>4. aged' \in BOOLEAN
  BY <1>2
<1> QED BY <1>1, <1>2, <1>3, <1>4 DEF SrvInv, ServerTyped

\* A connector goes, with its assignments.
LEMMA ConnectorDeletedTyped ==
  ASSUME SrvInv, NEW c \in Linkable, ConnectorDeleted(c)
  PROVE  /\ SrvInv'
         /\ \A s \in Servers :
              /\ servers[s] = Deleted <=> servers'[s] = Deleted
              /\ given'[s] = given[s] \ {c}
              /\ servers[s] # Deleted =>
                   /\ servers'[s].links = servers[s].links \ {c}
                   /\ servers'[s].active = servers[s].active /\ servers'[s].words = servers[s].words
<1>1. ServerTyped /\ LoadFirst
  BY DEF SrvInv
<1>2. /\ linkable' = linkable \ {c}
      /\ servers' = [s \in Servers |-> IF servers[s] = Deleted THEN Deleted
                                       ELSE [servers[s] EXCEPT !.links = servers[s].links \ {c}]]
      /\ given' = [s \in Servers |-> given[s] \ {c}]
      /\ UNCHANGED <<keys, asks, view, ticks, onPage, left, known, unticked, modal, aged>>
  BY DEF ConnectorDeleted, pageVars
<1>3. ASSUME NEW s \in Servers, servers[s] # Deleted
      PROVE  /\ servers'[s] \in ServerRow /\ servers'[s] # Deleted
             /\ servers'[s].links = servers[s].links \ {c}
             /\ servers'[s].active = servers[s].active /\ servers'[s].words = servers[s].words
  <2>1. servers[s] \in ServerRow
    BY <1>1, <1>3 DEF ServerTyped
  <2>2. servers'[s] = [servers[s] EXCEPT !.links = servers[s].links \ {c}]
    BY <1>2, <1>3
  <2>3. servers'[s] \in ServerRow
    BY <2>1, <2>2 DEF ServerRow
  <2> QED BY <2>1, <2>2, <2>3, ServerPageAssumption DEF ServerRow
<1>4. \A s \in Servers : servers[s] = Deleted => servers'[s] = Deleted
  BY <1>2
<1>5. servers' \in [Servers -> ServerRow \union {Deleted}]
  <2>1. \A s \in Servers : servers'[s] \in ServerRow \union {Deleted}
    BY <1>3, <1>4
  <2>2. servers' = [s \in Servers |-> servers'[s]]
    BY <1>2
  <2> QED BY <2>1, <2>2
<1>6. given' \in [Servers -> SUBSET Linkable] /\ \A s \in Servers : given'[s] = given[s] \ {c}
  BY <1>1, <1>2 DEF ServerTyped
<1>7. SrvInv'
  BY <1>1, <1>2, <1>5, <1>6 DEF SrvInv, ServerTyped, LoadFirst
<1> QED BY <1>3, <1>4, <1>6, <1>7

\* The page has loaded.
LEMMA PageLoadedTyped == ASSUME SrvInv, NEW q, q \in asks, PageLoaded(q) PROVE SrvInv'
<1>1. ServerTyped /\ LoadFirst /\ AskTyped(q) /\ q \in Asks /\ q.tainted \in BOOLEAN
  BY AskIs DEF SrvInv
<1>2. /\ q.op = "load" /\ asks' = asks \ {q} /\ aged' = q.tainted
      /\ UNCHANGED <<servers, keys, linkable, modal, given, unticked>>
  BY DEF PageLoaded, Settled
<1>3. asks' = {} /\ view = Deleted
  BY <1>1, <1>2 DEF LoadFirst
<1>4. CASE q.pc = "failed"
  <2>1. left' = TRUE /\ UNCHANGED <<view, ticks, onPage, known>>
    BY <1>4 DEF PageLoaded
  <2> QED BY <1>1, <1>2, <1>3, <2>1 DEF SrvInv, ServerTyped, LoadFirst
<1>5. CASE q.pc = "answered"
  <2>1. /\ view' = Shown(q.answer.server) /\ ticks' = q.answer.server.links
        /\ onPage' = q.answer.boxes /\ known' = q.answer.server.links /\ UNCHANGED left
    BY <1>5 DEF PageLoaded
  <2>2. q.answer.server \in Details /\ q.answer.boxes \in SUBSET Linkable
    BY <1>1, <1>2, <1>5 DEF AskTyped, Loads
  <2>3. view' \in Views /\ ticks' \in SUBSET Linkable /\ known' \in SUBSET Linkable
    BY <2>1, <2>2, ShownIs
  <2> QED BY <1>1, <1>2, <1>3, <2>1, <2>2, <2>3 DEF SrvInv, ServerTyped, LoadFirst
<1> QED BY <1>4, <1>5 DEF PageLoaded

\* The page has loaded again after a write of a key.
LEMMA ReloadedTyped == ASSUME SrvInv, NEW q, q \in asks, Reloaded(q) PROVE SrvInv'
<1>1. ServerTyped /\ LoadFirst /\ AskTyped(q) /\ q \in Asks /\ q.tainted \in BOOLEAN
  BY AskIs DEF SrvInv
<1>2. /\ q.op = "reload" /\ asks' = asks \ {q} /\ aged' = q.tainted /\ view' = Shown(q.answer.server)
      /\ q.pc = "answered"
      /\ UNCHANGED <<servers, keys, linkable, modal, given, unticked, ticks, onPage, left, known>>
  BY DEF Reloaded, Settled
<1>3. view' \in Views /\ view' # Deleted
  <2>1. q.answer.server \in Details
    BY <1>1, <1>2 DEF AskTyped, Loads
  <2> QED BY <1>2, <2>1, ShownIs
<1>4. view # Deleted
  BY <1>1, <1>2 DEF LoadFirst
<1>5. \A p \in asks' : p.op # "load"
  BY <1>1, <1>2, <1>4 DEF LoadFirst
<1> QED BY <1>1, <1>2, <1>3, <1>5 DEF SrvInv, ServerTyped, LoadFirst

\* A key was written: the page loads again.
LEMMA KeyDoneTyped == ASSUME SrvInv, NEW q, q \in asks, KeyDone(q) PROVE SrvInv'
<1>1. ServerTyped /\ LoadFirst /\ AskTyped(q) /\ q \in Asks
  BY AskIs DEF SrvInv
<1>2. /\ q.op \in KeyOps /\ asks' = Asking(asks \ {q}, "reload", Anywhere) /\ aged' = (aged \/ q.tainted)
      /\ UNCHANGED <<servers, keys, linkable, modal, given, view, ticks, onPage, left, known, unticked>>
  BY DEF KeyDone, Settled, KeyOps, pageVars
<1>3. view # Deleted
  BY <1>1, <1>2 DEF LoadFirst, KeyOps
<1>4. \A a \in asks' : AskTyped(a) /\ a.op # "load"
  <2>1. Fits("reload", Anywhere) /\ asks \ {q} \subseteq asks
    BY DEF Fits, Ops, Args
  <2> QED BY <1>1, <1>2, <1>3, <2>1, AskingTyped
<1>5. aged' \in BOOLEAN
  BY <1>2
<1> QED BY <1>1, <1>2, <1>3, <1>4, <1>5 DEF SrvInv, ServerTyped, LoadFirst

\* The answer of an update is merged into what is shown.
LEMMA UpdateDoneTyped ==
  ASSUME SrvInv, NEW q, q \in asks, UpdateDone(q)
  PROVE  SrvInv' /\ view' = [active |-> q.answer.active, words |-> q.answer.words, keys |-> view.keys]
<1>1. ServerTyped /\ LoadFirst /\ AskTyped(q) /\ q \in Asks
  BY AskIs DEF SrvInv
<1>2. /\ q.op = "update" /\ q.pc = "answered" /\ asks' = asks \ {q} /\ aged' = (aged \/ q.tainted)
      /\ view' = [view EXCEPT !.active = q.answer.active, !.words = q.answer.words]
      /\ UNCHANGED <<servers, keys, linkable, modal, given, ticks, onPage, left, known, unticked>>
  BY DEF UpdateDone, Settled
<1>3. view \in Views /\ q.answer \in ServerRow
  BY <1>1, <1>2 DEF LoadFirst, AskTyped, ServerTyped
<1>4. view' = [active |-> q.answer.active, words |-> q.answer.words, keys |-> view.keys]
  BY <1>2, <1>3 DEF Views
<1>5. view' \in Views /\ view' # Deleted
  BY <1>3, <1>4, ServerPageAssumption DEF Views, ServerRow
<1>6. \A p \in asks' : p.op # "load"
  BY <1>1, <1>2, <1>3, ServerPageAssumption DEF LoadFirst
<1>7. aged' \in BOOLEAN
  BY <1>2
<1>8. SrvInv'
  BY <1>1, <1>2, <1>5, <1>6, <1>7 DEF SrvInv, ServerTyped, LoadFirst
<1> QED BY <1>4, <1>8

\* An answer that changes nothing of what is shown.
LEMMA OnlySaidTyped == ASSUME SrvInv, NEW q, q \in asks, OnlySaid(q) PROVE SrvInv'
<1>1. ServerTyped /\ LoadFirst
  BY DEF SrvInv
<1>2. /\ asks' = asks \ {q}
      /\ left' = (left \/ (q.op = "delete" /\ q.pc = "answered"))
      /\ aged' = (aged \/ (q.op \in ServerWrites /\ q.tainted) \/ (q.op = "reload"))
      /\ UNCHANGED <<servers, keys, linkable, modal, given, view, ticks, onPage, known, unticked>>
  BY DEF OnlySaid, Settled
<1>3. left' \in BOOLEAN /\ aged' \in BOOLEAN
  BY <1>2
<1> QED BY <1>1, <1>2, <1>3 DEF SrvInv, ServerTyped, LoadFirst

\* The assignments a server has.
LinksOf(s) == IF servers[s] = Deleted THEN {} ELSE servers[s].links

\* What was given is there; the boxes that were ticked when the page was loaded still
\* are, or the user cleared them, and so are those of a list that is being saved.
AddInv ==
  /\ \A s \in Servers : given[s] \subseteq LinksOf(s)
  /\ view # Deleted => known \subseteq ticks \union unticked
  /\ \A q \in asks : q.op = "assign" => known \subseteq q.arg \union unticked

\* No modal has given anything at the start.
LEMMA AddInvInit == ServerPageInit => AddInv
<1> SUFFICES ASSUME ServerPageInit PROVE AddInv
  OBVIOUS
<1>1. \A s \in Servers : given[s] = LinksOf(s)
  BY DEF ServerPageInit, LinksOf
<1>2. view = Deleted /\ known = {}
  BY DEF ServerPageInit
<1> QED BY <1>1, <1>2 DEF AddInv

\* A list that has what was there when it was read, and what was not cleared, takes away
\* nothing that was given since.
LEMMA AssignAdds ==
  ASSUME ServerTyped, AddInv, NEW s \in Servers, NEW list \in SUBSET Linkable, NEW read, NEW cleared,
         Assignable(s, list), assignConnectors(s, list, read, cleared),
         read \subseteq list \union cleared
  PROVE  \A t \in Servers : given'[t] \subseteq LinksOf(t)'
<1>1. /\ servers' = [servers EXCEPT ![s] = [servers[s] EXCEPT !.links = list]]
      /\ given' = [given EXCEPT ![s] =
                    (given[s] \ ((servers[s].links \ read) \union cleared)) \union list]
      /\ servers' \in [Servers -> ServerRow \union {Deleted}]
  BY AssignTyped
<1>2. servers[s] \in ServerRow /\ servers \in [Servers -> ServerRow \union {Deleted}]
      /\ given \in [Servers -> SUBSET Linkable] /\ Deleted \notin ServerRow
  BY ServerPageAssumption DEF Assignable, ServerTyped
<1> TAKE t \in Servers
<1>3. CASE t # s
  BY <1>1, <1>2, <1>3 DEF AddInv, LinksOf
<1>4. CASE t = s
  <2>1. given[s] \subseteq servers[s].links
    BY <1>2 DEF AddInv, LinksOf
  <2>2. given'[s] = (given[s] \ ((servers[s].links \ read) \union cleared)) \union list
    BY <1>1, <1>2
  <2>3. given'[s] \subseteq list
    BY <2>1, <2>2
  <2>4. [servers[s] EXCEPT !.links = list] \in ServerRow /\ servers'[s] = [servers[s] EXCEPT !.links = list]
    BY <1>1, <1>2 DEF ServerRow
  <2>5. servers'[s] # Deleted /\ servers'[s].links = list
    BY <1>2, <2>4 DEF ServerRow
  <2> QED BY <1>4, <2>3, <2>5 DEF LinksOf
<1> QED BY <1>3, <1>4

\* What no request of the page touches.
LEMMA AddSame ==
  ASSUME AddInv, UNCHANGED <<asks, view, ticks, known, unticked>>,
         \A s \in Servers : given'[s] \subseteq LinksOf(s)'
  PROVE  AddInv'
BY DEF AddInv

\* A modal writes what was assigned and what it adds.
LEMMA ModalAdds ==
  ASSUME SrvInv, AddInv, NEW c \in Linkable,
         handleSubmit(c) \/ ModalReads(c) \/ ModalWrites(c) \/ ModalFails(c)
  PROVE  AddInv'
<1>1. ServerTyped /\ servers \in [Servers -> ServerRow \union {Deleted}] /\ given \in [Servers -> SUBSET Linkable]
  BY DEF SrvInv, ServerTyped
<1>2. UNCHANGED <<asks, view, ticks, known, unticked>>
  BY DEF handleSubmit, ModalReads, ModalWrites, ModalFails, modalUnchanged, pageVars
<1>3. CASE UNCHANGED <<servers, given>>
  BY <1>2, <1>3, AddSame DEF AddInv, LinksOf
<1>4. CASE handleSubmit(c)
  <2>1. UNCHANGED given
    BY <1>4 DEF handleSubmit
  <2>2. PICK s \in Servers :
          IF servers[s] # Deleted THEN UNCHANGED servers
          ELSE s # Home /\ \E w \in Words :
                 servers' = [servers EXCEPT ![s] = [active |-> TRUE, words |-> w, links |-> {}]]
    BY <1>4 DEF handleSubmit
  <2>3. CASE servers[s] = Deleted
    <3>1. given[s] = {}
      BY <2>3 DEF AddInv, LinksOf
    <3>2. \A t \in Servers \ {s} : servers'[t] = servers[t]
      BY <1>1, <2>2, <2>3
    <3>3. \A t \in Servers : given'[t] \subseteq LinksOf(t)'
      BY <2>1, <3>1, <3>2 DEF AddInv, LinksOf
    <3> QED BY <1>2, <3>3, AddSame
  <2> QED BY <1>3, <2>1, <2>2, <2>3
<1>5. CASE ModalReads(c) \/ ModalFails(c)
  BY <1>3, <1>5 DEF ModalReads, ModalFails
<1>6. CASE ModalWrites(c)
  <2>1. /\ Assignable(modal[c].server, Listed(modal[c].list, c))
        /\ assignConnectors(modal[c].server, Listed(modal[c].list, c), modal[c].list, {})
    BY <1>6 DEF ModalWrites
  <2>2. modal[c].server \in Servers /\ Listed(modal[c].list, c) \in SUBSET Linkable
    BY <1>1, ModalIs DEF Listed
  <2>3. modal[c].list \subseteq Listed(modal[c].list, c) \union {}
    BY DEF Listed
  <2>4. \A t \in Servers : given'[t] \subseteq LinksOf(t)'
    BY <1>1, <2>1, <2>2, <2>3, AssignAdds
  <2> QED BY <1>2, <2>4, AddSame
<1> QED BY <1>4, <1>5, <1>6

\* A request alone changes no assignment.
LEMMA RequestAdds ==
  ASSUME SrvInv, AddInv, NEW op \in ServerWrites, NEW arg, Fits(op, arg), Request(op, arg),
         op = "assign" => arg = ticks
  PROVE  AddInv'
<1>1. ServerTyped /\ LoadFirst /\ view # Deleted /\ asks' = Asking(asks, op, arg)
      /\ UNCHANGED <<servers, view, ticks, known, unticked, given>>
  BY DEF SrvInv, Request, pageVars
<1>2. \A q \in asks : q \in Asks
  BY <1>1 DEF ServerTyped, AskTyped
<1>3. ASSUME NEW a \in asks', a.op = "assign" PROVE known \subseteq a.arg \union unticked
  <2>1. asks \in SUBSET Asks /\ op \in Ops /\ arg \in Args
    BY <1>2 DEF Fits
  <2>2. (a.op = op /\ a.arg = arg) \/ \E q \in asks : Alike(a, q)
    BY <1>1, <2>1, AskingFrom
  <2> QED BY <1>1, <1>3, <2>2 DEF AddInv, Alike
<1> QED BY <1>1, <1>3 DEF AddInv, LinksOf

\* Neither do the boxes.
LEMMA TickingAdds ==
  ASSUME SrvInv, AddInv, NEW now, Ticking(now)
  PROVE  AddInv'
<1>1. /\ ticks' = now /\ unticked' = unticked \union (ticks \ now)
      /\ UNCHANGED <<servers, asks, view, known, given>>
  BY DEF Ticking
<1> QED BY <1>1 DEF AddInv, LinksOf

\* The page, of one server, replaces what it was opened with.
LEMMA AnswerAdds == ASSUME SrvInv, AddInv, NEW q, q \in asks, Answer(q) PROVE AddInv'
<1>1. /\ ServerTyped /\ LoadFirst /\ AskTyped(q) /\ q.op \in Ops
      /\ servers \in [Servers -> ServerRow \union {Deleted}] /\ given \in [Servers -> SUBSET Linkable]
      /\ Home \in Servers
  BY AskIs, ServerPageAssumption DEF SrvInv, ServerTyped
<1>2. /\ Accepted(q) /\ Effect(q) /\ Moves(q, "answered", AnswerTo(q))
      /\ UNCHANGED <<linkable, view, ticks, onPage, left, known, unticked, modal, aged>>
  BY DEF Answer, AnswerTo, pageVars
<1>3. \A a \in asks' : \E p \in asks : a.op = p.op /\ a.arg = p.arg
  <2>1. asks' = (asks \ {q}) \union {[q EXCEPT !.pc = "answered", !.answer = AnswerTo(q)]}
    BY <1>2 DEF Moves
  <2>2. q \in Asks
    BY <1>1 DEF AskTyped
  <2>3. [q EXCEPT !.pc = "answered", !.answer = AnswerTo(q)].op = q.op
        /\ [q EXCEPT !.pc = "answered", !.answer = AnswerTo(q)].arg = q.arg
    BY <2>2 DEF Asks
  <2> QED BY <2>1, <2>3
<1>4. \A s \in Servers : given'[s] \subseteq LinksOf(s)'
  <2>1. CASE q.op = "update"
    <3>1. servers' = FieldsWritten(q.arg) /\ UNCHANGED given
      BY <2>1, <1>2 DEF Effect
    <3>2. servers[Home] # Deleted /\ q.arg \in Changes
      BY <1>1, <1>2, <2>1 DEF Accepted, AskTyped
    <3>3. /\ FieldsWritten(q.arg)[Home] \in ServerRow
          /\ FieldsWritten(q.arg)[Home].links = servers[Home].links
          /\ \A s \in Servers \ {Home} : FieldsWritten(q.arg)[s] = servers[s]
      BY <1>1, <3>2, FieldsTyped
    <3> QED BY <3>1, <3>2, <3>3, ServerPageAssumption DEF AddInv, LinksOf
  <2>2. CASE q.op = "assign"
    <3>1. assignConnectors(Home, q.arg, known, unticked \ q.arg) /\ Assignable(Home, q.arg)
      BY <1>2, <2>2 DEF Effect, Accepted
    <3>2. q.arg \in SUBSET Linkable
      BY <1>1, <2>2 DEF AskTyped
    <3>3. known \subseteq q.arg \union (unticked \ q.arg)
      BY <2>2 DEF AddInv
    <3> QED BY <1>1, <3>1, <3>2, <3>3, AssignAdds
  <2>3. CASE q.op = "delete"
    <3>1. servers' = [servers EXCEPT ![Home] = Deleted] /\ given' = [given EXCEPT ![Home] = {}]
      BY <1>2, <2>3 DEF Effect, delete
    <3> QED BY <1>1, <3>1 DEF AddInv, LinksOf
  <2>4. CASE q.op \in {"load", "reload", "generate", "revoke", "deleteKey"}
    <3>1. UNCHANGED <<servers, given>>
      BY <1>2, <2>4 DEF Effect, generate, revoke, deleteKey
    <3> QED BY <3>1 DEF AddInv, LinksOf
  <2> QED BY <1>1, <2>1, <2>2, <2>3, <2>4 DEF Ops, KeyOps
<1> QED BY <1>2, <1>3, <1>4 DEF AddInv

\* A connector that goes is taken out of what was given too.
LEMMA ConnectorDeletedAdds ==
  ASSUME SrvInv, AddInv, NEW c \in Linkable, ConnectorDeleted(c)
  PROVE  AddInv'
<1>1. UNCHANGED <<asks, view, ticks, known, unticked>>
  BY DEF ConnectorDeleted, pageVars
<1>2. \A s \in Servers : given'[s] \subseteq LinksOf(s)'
  BY ConnectorDeletedTyped DEF AddInv, LinksOf
<1> QED BY <1>1, <1>2, AddSame

\* The other steps of the page leave the assignments alone.
LEMMA PageAdds ==
  ASSUME SrvInv, AddInv, NEW q, q \in asks,
         AskFails(q) \/ PageLoaded(q) \/ Reloaded(q) \/ KeyDone(q) \/ UpdateDone(q) \/ OnlySaid(q)
  PROVE  AddInv'
<1>1. ServerTyped /\ LoadFirst /\ AskTyped(q) /\ \A p \in asks : p \in Asks
  BY AskIs DEF SrvInv, ServerTyped, AskTyped
<1>2. UNCHANGED <<servers, given, unticked>>
  BY DEF AskFails, PageLoaded, Reloaded, KeyDone, UpdateDone, OnlySaid, Settled, pageVars
<1>3. CASE PageLoaded(q)
  <2>1. asks' = asks \ {q} /\ q.op = "load"
    BY <1>3 DEF PageLoaded, Settled
  <2>2. asks' = {} /\ view = Deleted
    BY <1>1, <2>1 DEF LoadFirst
  <2>3. view' = Deleted \/ known' = ticks'
    BY <1>3, <2>2 DEF PageLoaded
  <2> QED BY <1>2, <2>2, <2>3 DEF AddInv, LinksOf
<1>4. CASE AskFails(q) \/ KeyDone(q) \/ Reloaded(q) \/ UpdateDone(q) \/ OnlySaid(q)
  <2>1. UNCHANGED <<ticks, known>>
    BY <1>4 DEF AskFails, Reloaded, KeyDone, UpdateDone, OnlySaid, pageVars
  <2>2. view # Deleted \/ UNCHANGED view
    BY <1>1, <1>4 DEF AskFails, Reloaded, KeyDone, UpdateDone, OnlySaid, pageVars, LoadFirst
  <2>3. \A a \in asks' : a.op = "assign" => \E p \in asks : a.op = p.op /\ a.arg = p.arg
    <3>1. CASE AskFails(q)
      <4>1. asks' = (asks \ {q}) \union {[q EXCEPT !.pc = "failed", !.answer = Deleted]}
        BY <3>1 DEF AskFails, Moves
      <4>2. [q EXCEPT !.pc = "failed", !.answer = Deleted].op = q.op
            /\ [q EXCEPT !.pc = "failed", !.answer = Deleted].arg = q.arg
        BY <1>1 DEF Asks
      <4> QED BY <4>1, <4>2
    <3>2. CASE KeyDone(q)
      <4>1. asks' = Asking(asks \ {q}, "reload", Anywhere)
        BY <3>2 DEF KeyDone, Settled
      <4>2. asks \ {q} \in SUBSET Asks /\ "reload" \in Ops /\ Anywhere \in Args
        BY <1>1 DEF Ops, Args
      <4>3. \A a \in asks' : a.op = "reload" \/ \E p \in asks \ {q} : Alike(a, p)
        BY <4>1, <4>2, AskingFrom
      <4> QED BY <4>3 DEF Alike
    <3>3. CASE Reloaded(q) \/ UpdateDone(q) \/ OnlySaid(q)
      BY <3>3 DEF Reloaded, UpdateDone, OnlySaid, Settled
    <3> QED BY <1>4, <3>1, <3>2, <3>3
  <2> QED BY <1>2, <2>1, <2>2, <2>3 DEF AddInv, LinksOf
<1> QED BY <1>3, <1>4

\* The row of the server of the page, as the page shows one.
Now == [active |-> servers[Home].active, words |-> servers[Home].words, keys |-> KeysOf(Home)]

\* An answer that nothing overlapped is what the database holds.
Fresh(q) ==
  q.pc = "answered" /\ ~ q.tainted /\ servers[Home] # Deleted =>
    /\ q.op \in {"load", "reload"} => Shown(q.answer.server) = Now
    /\ q.op = "update" => /\ q.answer.active = servers[Home].active
                          /\ q.answer.words = servers[Home].words

\* A request that will fetch the server, or that has overlapped others.
Repairs(q) ==
  \/ q.op = "reload"
  \/ q.op \in ServerWrites /\ q.tainted
  \/ q.op \in KeyOps /\ q.pc = "answered"

\* An update that will be merged into what is shown.
Merges(q) == q.op = "update" /\ q.pc = "answered" /\ view.keys = KeysOf(Home)

\* Requests that overlap, one of them a write, are tainted.
Overlaps ==
  \A p, q \in asks : p # q /\ {p.op, q.op} \cap ServerWrites # {} => p.tainted /\ q.tainted

ViewInv ==
  ~ aged /\ view # Deleted /\ servers[Home] # Deleted =>
    view = Now \/ \E q \in asks : Repairs(q) \/ Merges(q)

ShowInv ==
  /\ Overlaps /\ ViewInv
  /\ \A q \in asks : Fresh(q) /\ (q.op = "delete" /\ q.pc = "answered" => servers[Home] = Deleted)

\* The page shows nothing at the start.
LEMMA ShowInvInit == ServerPageInit => ShowInv
<1> SUFFICES ASSUME ServerPageInit PROVE ShowInv
  OBVIOUS
<1>1. asks = {SentAsk("load", Anywhere, {})} /\ view = Deleted
  BY DEF ServerPageInit
<1>2. \A q \in asks : q.pc = "sent"
  BY <1>1 DEF SentAsk
<1> QED BY <1>1, <1>2 DEF ShowInv, Overlaps, ViewInv, Fresh

\* Nothing that the page shows has changed in the database.
RowSame ==
  /\ servers[Home] = Deleted => servers'[Home] = Deleted
  /\ servers[Home] # Deleted /\ servers'[Home] # Deleted =>
       /\ servers'[Home].active = servers[Home].active
       /\ servers'[Home].words = servers[Home].words
       /\ KeysOf(Home)' = KeysOf(Home)

\* A request that is as it was, but tainted perhaps.
Still(a, q) == Alike(a, q) /\ (q.tainted => a.tainted)

\* The server and its keys as they were.
LEMMA RowSameIs == ASSUME RowSame, servers'[Home] # Deleted PROVE Now' = Now /\ KeysOf(Home)' = KeysOf(Home)
BY DEF RowSame, Now

\* An answer that is fresh stays so while the row does.
LEMMA FreshStays ==
  ASSUME RowSame, NEW q, NEW a, Fresh(q), Still(a, q)
  PROVE  Fresh(a)'
<1>1. CASE servers'[Home] # Deleted /\ a.pc = "answered" /\ ~ a.tainted
  <2>1. Now' = Now /\ servers[Home] # Deleted /\ servers'[Home].active = servers[Home].active
        /\ servers'[Home].words = servers[Home].words
    BY <1>1, RowSameIs DEF RowSame
  <2>2. q.pc = "answered" /\ ~ q.tainted /\ a.answer = q.answer /\ a.op = q.op
    BY <1>1 DEF Still, Alike
  <2>3. /\ q.op \in {"load", "reload"} => Shown(q.answer.server) = Now
        /\ q.op = "update" => /\ q.answer.active = servers[Home].active
                              /\ q.answer.words = servers[Home].words
    BY <2>1, <2>2 DEF Fresh
  <2>4. Shown(a.answer.server)' = Shown(q.answer.server)
    BY <2>2 DEF Shown
  <2> QED BY <2>1, <2>2, <2>3, <2>4 DEF Fresh
<1>2. CASE ~ (servers'[Home] # Deleted /\ a.pc = "answered" /\ ~ a.tainted)
  BY <1>2 DEF Fresh
<1> QED BY <1>1, <1>2

\* The requests there were are there, or those that are gone did not matter; the others
\* are new and wait for their answer.
LEMMA ShowStays ==
  ASSUME ShowInv, RowSame, UNCHANGED <<view, aged>>, Overlaps',
         \A a \in asks' : a.pc = "sent" \/ \E q \in asks : Still(a, q),
         \A q \in asks : (Repairs(q) \/ Merges(q)) => \E a \in asks' : Still(a, q)
  PROVE  ShowInv'
<1>1. \A a \in asks' : Fresh(a)' /\ (a.op = "delete" /\ a.pc = "answered" => servers'[Home] = Deleted)
  <2> TAKE a \in asks'
  <2>1. CASE a.pc = "sent"
    BY <2>1 DEF Fresh
  <2>2. ASSUME NEW q \in asks, Still(a, q)
        PROVE  Fresh(a)' /\ (a.op = "delete" /\ a.pc = "answered" => servers'[Home] = Deleted)
    <3>1. Fresh(a)'
      BY <2>2, FreshStays DEF ShowInv
    <3> QED BY <2>2, <3>1 DEF ShowInv, RowSame, Still, Alike
  <2> QED BY <2>1, <2>2
<1>2. ViewInv'
  <2> SUFFICES ASSUME ~ aged, view # Deleted, servers'[Home] # Deleted
               PROVE  view = Now' \/ \E a \in asks' : (Repairs(a) \/ Merges(a))'
    BY DEF ViewInv
  <2>1. Now' = Now /\ KeysOf(Home)' = KeysOf(Home) /\ servers[Home] # Deleted
    BY RowSameIs DEF RowSame
  <2>2. CASE view = Now
    BY <2>1, <2>2
  <2>3. ASSUME NEW q \in asks, Repairs(q) \/ Merges(q)
        PROVE  \E a \in asks' : (Repairs(a) \/ Merges(a))'
    <3>1. PICK a \in asks' : Still(a, q)
      BY <2>3
    <3>2. (Repairs(a) \/ Merges(a))'
      BY <2>1, <2>3, <3>1 DEF Repairs, Merges, Still, Alike
    <3> QED BY <3>2
  <2> QED BY <2>1, <2>2, <2>3 DEF ShowInv, ViewInv
<1> QED BY <1>1, <1>2 DEF ShowInv

\* What no request of the page touches.
LEMMA ShowSame ==
  ASSUME SrvInv, ShowInv, RowSame, UNCHANGED <<asks, view, aged>>
  PROVE  ShowInv'
<1>1. Overlaps'
  BY DEF ShowInv, Overlaps
<1>2. \A q \in asks : Still(q, q)
  BY DEF Still, Alike
<1> QED BY <1>1, <1>2, ShowStays

\* The modals leave what the page shows of its server alone, or it is aged.
LEMMA ModalShows ==
  ASSUME SrvInv, ShowInv, NEW c \in Linkable,
         handleSubmit(c) \/ ModalReads(c) \/ ModalWrites(c) \/ ModalFails(c)
  PROVE  ShowInv'
<1>1. ServerTyped /\ servers \in [Servers -> ServerRow \union {Deleted}] /\ Home \in Servers
  BY ServerPageAssumption DEF SrvInv, ServerTyped
<1>2. UNCHANGED <<keys, asks, view, aged>>
  BY DEF handleSubmit, ModalReads, ModalWrites, ModalFails, modalUnchanged, pageVars
<1>3. KeysOf(Home)' = KeysOf(Home)
  BY <1>2 DEF KeysOf
<1>4. RowSame
  <2>1. CASE servers'[Home] = servers[Home]
    BY <1>3, <2>1 DEF RowSame
  <2>2. CASE handleSubmit(c)
    <3>1. servers'[Home] = servers[Home]
      BY <1>1, <2>2 DEF handleSubmit
    <3> QED BY <2>1, <3>1
  <2>3. CASE ModalReads(c) \/ ModalFails(c)
    BY <2>1, <2>3 DEF ModalReads, ModalFails
  <2>4. CASE ModalWrites(c)
    <3> DEFINE s == modal[c].server
               list == Listed(modal[c].list, c)
    <3>1. Assignable(s, list) /\ assignConnectors(s, list, modal[c].list, {})
      BY <2>4 DEF ModalWrites
    <3>2. s \in Servers /\ list \in SUBSET Linkable
      BY <1>1, ModalIs DEF Listed
    <3>3. servers' = [servers EXCEPT ![s] = [servers[s] EXCEPT !.links = list]]
      BY <1>1, <3>1, <3>2, AssignTyped
    <3>4. servers[s] \in ServerRow
      BY <1>1, <3>1, <3>2 DEF Assignable
    <3>5. CASE s = Home
      <4>1. servers'[Home] = [servers[Home] EXCEPT !.links = list] /\ servers[Home] \in ServerRow
            /\ servers[Home] # Deleted
        BY <1>1, <3>1, <3>3, <3>4, <3>5 DEF Assignable
      <4> HIDE DEF s, list
      <4> QED BY <1>3, <4>1 DEF RowSame, ServerRow
    <3>6. CASE s # Home
      BY <1>1, <2>1, <3>3, <3>6
    <3> QED BY <3>5, <3>6
  <2> QED BY <2>2, <2>3, <2>4
<1> QED BY <1>2, <1>4, ShowSame

\* The boxes are not shown of the row.
LEMMA TickingShows == ASSUME SrvInv, ShowInv, NEW now, Ticking(now) PROVE ShowInv'
<1>1. UNCHANGED <<servers, keys, asks, view, aged>>
  BY DEF Ticking
<1>2. RowSame
  BY <1>1 DEF RowSame, KeysOf
<1> QED BY <1>1, <1>2, ShowSame

\* The page is aged when a connector of its server goes.
LEMMA ConnectorDeletedShows ==
  ASSUME SrvInv, ShowInv, NEW c \in Linkable, ConnectorDeleted(c)
  PROVE  ShowInv'
<1>1. UNCHANGED <<keys, asks, view, aged>>
  BY DEF ConnectorDeleted, pageVars
<1>2. KeysOf(Home)' = KeysOf(Home)
  BY <1>1 DEF KeysOf
<1>3. RowSame
  BY <1>2, ConnectorDeletedTyped, ServerPageAssumption DEF RowSame
<1> QED BY <1>1, <1>3, ShowSame

\* A further request of the page, beside those of w.
LEMMA AskingOverlaps ==
  ASSUME SrvInv, ShowInv, NEW w, w \subseteq asks, NEW op \in Ops, NEW arg \in Args,
         op \in ServerWrites \/ \A q \in w : q.tainted,
         asks' = Asking(w, op, arg)
  PROVE  /\ Overlaps'
         /\ \A a \in asks' : (a.op = op /\ a.pc = "sent") \/ \E q \in w : Still(a, q)
         /\ \A q \in w : \E a \in asks' : Still(a, q)
<1>1. \A q \in asks : q \in Asks
  BY DEF SrvInv, ServerTyped, AskTyped
<1>2. w \in SUBSET Asks
  BY <1>1
<1> DEFINE New(a)   == /\ a.op = op /\ a.pc = "sent"
                       /\ a.tainted <=> \E q \in w : {q.op, op} \cap ServerWrites # {}
           Old(a, q) == Alike(a, q) /\ (a.tainted <=> q.tainted \/ op \in ServerWrites)
<1>3. \A a \in asks' : New(a) \/ \E q \in w : Old(a, q)
  BY <1>2, AskingFrom
<1>4. ASSUME NEW q \in w PROVE \E a \in asks' : Still(a, q)
  <2> DEFINE b == q.tainted \/ op \in ServerWrites
             a == [q EXCEPT !.tainted = b]
  <2>1. a \in asks'
    BY DEF Asking
  <2>2. b \in BOOLEAN /\ q \in Asks
    BY <1>2
  <2>3. q.tainted => b
    OBVIOUS
  <2> HIDE DEF b
  <2>4. Alike(a, q) /\ a.tainted = b
    BY <2>2 DEF Asks, Alike
  <2>5. a.tainted <=> b
    BY <2>4
  <2>6. Still(a, q)
    BY <2>3, <2>4, <2>5 DEF Still
  <2> QED BY <2>1, <2>6
<1>5. \A a \in asks' : (a.op = op /\ a.pc = "sent") \/ \E q \in w : Still(a, q)
  BY <1>3 DEF Still
<1>6. ASSUME NEW a \in asks', NEW b \in asks', a # b, {a.op, b.op} \cap ServerWrites # {}
      PROVE  a.tainted
  <2>1. CASE New(a)
    <3>1. CASE New(b)
      <4>1. a = SentAsk(op, arg, w) \/ \E q \in w : a = [q EXCEPT !.tainted = @ \/ op \in ServerWrites]
        BY DEF Asking
      <4>2. b = SentAsk(op, arg, w) \/ \E q \in w : b = [q EXCEPT !.tainted = @ \/ op \in ServerWrites]
        BY DEF Asking
      <4>3. w # {}
        BY <1>6, <4>1, <4>2
      <4>4. PICK q \in w : TRUE
        BY <4>3
      <4>5. {q.op, op} \cap ServerWrites # {}
        BY <1>6, <2>1, <3>1
      <4> QED BY <2>1, <4>5
    <3>2. ASSUME NEW q \in w, Old(b, q) PROVE a.tainted
      <4>1. {q.op, op} \cap ServerWrites # {}
        BY <1>6, <2>1, <3>2 DEF Alike
      <4> QED BY <2>1, <4>1
    <3> QED BY <1>3, <3>1, <3>2
  <2>2. ASSUME NEW p \in w, Old(a, p) PROVE a.tainted
    BY <2>2
  <2> QED BY <1>3, <2>1, <2>2
<1>7. Overlaps'
  BY <1>6 DEF Overlaps
<1> QED BY <1>4, <1>5, <1>7

\* A request is made beside others that overlap, or alone.
LEMMA RequestShows ==
  ASSUME SrvInv, ShowInv, NEW op \in ServerWrites, NEW arg \in Args, Fits(op, arg), Request(op, arg)
  PROVE  ShowInv'
<1>1. asks' = Asking(asks, op, arg) /\ UNCHANGED <<servers, keys, view, aged>>
  BY DEF Request, pageVars
<1>2. RowSame
  BY <1>1 DEF RowSame, KeysOf
<1>3. /\ Overlaps'
      /\ \A a \in asks' : (a.op = op /\ a.pc = "sent") \/ \E q \in asks : Still(a, q)
      /\ \A q \in asks : \E a \in asks' : Still(a, q)
  <2>1. asks \subseteq asks /\ op \in Ops
    BY DEF Fits
  <2> QED BY <1>1, <2>1, AskingOverlaps
<1> QED BY <1>1, <1>2, <1>3, ShowStays

\* A write that nothing overlaps is the only request.
LEMMA AloneIs ==
  ASSUME ShowInv, NEW q, q \in asks, q.op \in ServerWrites, ~ q.tainted
  PROVE  asks = {q}
<1>1. ASSUME NEW p \in asks, p # q PROVE FALSE
  <2>1. {p.op, q.op} \cap ServerWrites # {}
    OBVIOUS
  <2> QED BY <1>1, <2>1 DEF ShowInv, Overlaps
<1> QED BY <1>1

\* Requests that went on or away overlap no more than they did.
LEMMA OverlapsStays ==
  ASSUME ShowInv, NEW q, q \in asks,
         \A a \in asks' : \/ a \in asks /\ a # q
                          \/ /\ a.op = q.op /\ (q.tainted => a.tainted)
                             /\ \A b \in asks' : (b \in asks /\ b # q) \/ b = a
  PROVE  Overlaps'
<1> SUFFICES ASSUME NEW a \in asks', NEW b \in asks', a # b, {a.op, b.op} \cap ServerWrites # {}
             PROVE  a.tainted /\ b.tainted
  BY DEF Overlaps
<1>1. CASE a \in asks /\ a # q /\ b \in asks /\ b # q
  BY <1>1 DEF ShowInv, Overlaps
<1>2. CASE ~ (a \in asks /\ a # q)
  <2>1. a.op = q.op /\ (q.tainted => a.tainted) /\ b \in asks /\ b # q
    BY <1>2
  <2>2. q.tainted /\ b.tainted
    BY <2>1 DEF ShowInv, Overlaps
  <2> QED BY <2>1, <2>2
<1>3. CASE ~ (b \in asks /\ b # q)
  <2>1. b.op = q.op /\ (q.tainted => b.tainted) /\ a \in asks /\ a # q
    BY <1>3
  <2>2. q.tainted /\ a.tainted
    BY <2>1 DEF ShowInv, Overlaps
  <2> QED BY <2>1, <2>2
<1> QED BY <1>1, <1>2, <1>3

\* A request that moves on overlaps as before.
LEMMA MovesOverlaps ==
  ASSUME SrvInv, ShowInv, NEW q, q \in asks, NEW pc \in {"answered", "failed"},
         NEW answer \in Answers, Moves(q, pc, answer)
  PROVE  /\ Overlaps'
         /\ \A a \in asks' : \/ a \in asks /\ a # q
                             \/ /\ a.op = q.op /\ a.pc = pc /\ a.answer = answer
                                /\ (a.tainted <=> q.tainted)
         /\ \E a \in asks' : a.op = q.op /\ a.pc = pc /\ (a.tainted <=> q.tainted)
<1> DEFINE m == [q EXCEPT !.pc = pc, !.answer = answer]
<1>1. asks' = (asks \ {q}) \union {m}
  BY DEF Moves
<1>2. q \in Asks
  BY AskIs DEF SrvInv
<1>3. m.op = q.op /\ m.pc = pc /\ m.answer = answer /\ m.tainted = q.tainted
  BY <1>2 DEF Asks
<1>4. m.tainted <=> q.tainted
  BY <1>3
<1> HIDE DEF m
<1>5. Overlaps'
  BY <1>1, <1>3, <1>4, OverlapsStays
<1> QED BY <1>1, <1>3, <1>4, <1>5

\* What a write leaves of what the page shows.
LEMMA EffectShows ==
  ASSUME SrvInv, NEW q, q \in asks, Accepted(q), Effect(q)
  PROVE  /\ servers[Home] = Deleted => servers'[Home] = Deleted
         /\ q.op \in {"load", "reload", "assign"} => RowSame
         /\ q.op = "update" => KeysOf(Home)' = KeysOf(Home)
         /\ q.op = "delete" => servers'[Home] = Deleted
<1>1. /\ ServerTyped /\ AskTyped(q) /\ q.op \in Ops /\ Home \in Servers
      /\ servers \in [Servers -> ServerRow \union {Deleted}]
  BY AskIs, ServerPageAssumption DEF SrvInv, ServerTyped
<1>2. CASE q.op \in {"load", "reload"}
  <2>1. UNCHANGED <<servers, keys, given>>
    BY <1>2 DEF Effect
  <2>2. KeysOf(Home)' = KeysOf(Home)
    BY <2>1 DEF KeysOf
  <2> QED BY <1>2, <2>1, <2>2 DEF RowSame
<1>3. CASE q.op = "assign"
  <2>1. assignConnectors(Home, q.arg, known, unticked \ q.arg) /\ UNCHANGED keys
        /\ Assignable(Home, q.arg)
    BY <1>3 DEF Effect, Accepted
  <2>2. q.arg \in SUBSET Linkable
    BY <1>1, <1>3 DEF AskTyped
  <2>3. servers' = [servers EXCEPT ![Home] = [servers[Home] EXCEPT !.links = q.arg]]
    BY <1>1, <2>1, <2>2, AssignTyped
  <2>4. servers[Home] \in ServerRow /\ servers[Home] # Deleted
        /\ servers'[Home] = [servers[Home] EXCEPT !.links = q.arg]
    BY <1>1, <2>1, <2>3 DEF Assignable
  <2>5. servers'[Home].active = servers[Home].active /\ servers'[Home].words = servers[Home].words
    BY <2>4 DEF ServerRow
  <2>6. KeysOf(Home)' = KeysOf(Home)
    BY <2>1 DEF KeysOf
  <2> QED BY <1>3, <2>4, <2>5, <2>6 DEF RowSame
<1>4. CASE q.op = "update"
  <2>1. UNCHANGED keys /\ servers[Home] # Deleted
    BY <1>4 DEF Effect, Accepted
  <2>2. KeysOf(Home)' = KeysOf(Home)
    BY <2>1 DEF KeysOf
  <2> QED BY <1>4, <2>1, <2>2
<1>5. CASE q.op \in KeyOps
  <2>1. UNCHANGED servers
    BY <1>5 DEF Effect, generate, revoke, deleteKey, KeyOps
  <2> QED BY <1>5, <2>1 DEF KeyOps
<1>6. CASE q.op = "delete"
  <2>1. servers' = [servers EXCEPT ![Home] = Deleted]
    BY <1>6 DEF Effect, delete
  <2> QED BY <1>1, <1>6, <2>1
<1> QED BY <1>1, <1>2, <1>3, <1>4, <1>5, <1>6 DEF Ops

\* The answer of the server is of the row as it is now.
LEMMA AnswerShows == ASSUME SrvInv, ShowInv, NEW q, q \in asks, Answer(q) PROVE ShowInv'
<1>1. /\ ServerTyped /\ LoadFirst /\ AskTyped(q) /\ q.op \in Ops /\ q \in Asks
  BY AskIs DEF SrvInv
<1>2. /\ q.pc = "sent" /\ Accepted(q) /\ Effect(q) /\ Moves(q, "answered", AnswerTo(q))
      /\ UNCHANGED <<view, aged>>
  BY DEF Answer, AnswerTo, pageVars
<1>3. AnswerTo(q) \in Answers
  <2>1. q.op = "update" => servers'[Home] \in ServerRow
    BY <1>1, <1>2, EffectTyped
  <2>2. q.op \in {"load", "reload"} => Loaded \in Loads
    <3>1. q.op \in {"load", "reload"} => servers[Home] # Deleted
      BY <1>2 DEF Accepted
    <3> QED BY <1>1, <3>1, FetchedIs
  <2> QED BY <1>1, <2>1, <2>2, AnswerToIs DEF Answers
<1>4. /\ Overlaps'
      /\ \A a \in asks' : \/ a \in asks /\ a # q
                          \/ /\ a.op = q.op /\ a.pc = "answered" /\ a.answer = AnswerTo(q)
                             /\ (a.tainted <=> q.tainted)
      /\ \E a \in asks' : a.op = q.op /\ a.pc = "answered" /\ (a.tainted <=> q.tainted)
  BY <1>2, <1>3, MovesOverlaps
<1>5. /\ servers[Home] = Deleted => servers'[Home] = Deleted
      /\ q.op \in {"load", "reload", "assign"} => RowSame
      /\ q.op = "update" => KeysOf(Home)' = KeysOf(Home)
      /\ q.op = "delete" => servers'[Home] = Deleted
  BY <1>2, EffectShows
<1>6. \A a \in asks' : a.op = "delete" /\ a.pc = "answered" => servers'[Home] = Deleted
  BY <1>4, <1>5 DEF ShowInv
<1>7. CASE q.op \in {"load", "reload"}
  <2>1. RowSame /\ servers[Home] # Deleted
    BY <1>2, <1>5, <1>7 DEF Accepted
  <2>2. ASSUME NEW a \in asks' PROVE Fresh(a)'
    <3>1. CASE a \in asks /\ a # q
      <4>1. Still(a, a)
        BY DEF Still, Alike
      <4> QED BY <2>1, <3>1, <4>1, FreshStays DEF ShowInv
    <3>2. CASE a.op = q.op /\ a.answer = AnswerTo(q)
      <4>1. a.answer = Loaded /\ Shown(a.answer.server) = Now
        BY <1>1, <1>7, <2>1, <3>2, AnswerToIs, FetchedIs DEF Now
      <4>2. Shown(a.answer.server)' = Shown(a.answer.server)
        BY DEF Shown
      <4>3. servers'[Home] # Deleted => Now' = Now
        BY <2>1, RowSameIs
      <4> QED BY <1>7, <3>2, <4>1, <4>2, <4>3 DEF Fresh
    <3> QED BY <1>4, <3>1, <3>2
  <2>3. ViewInv'
    <3>1. CASE q.op = "load"
      BY <1>1, <1>2, <3>1 DEF LoadFirst, ViewInv
    <3>2. CASE q.op = "reload"
      <4>1. \E a \in asks' : a.op = "reload"
        BY <1>4, <3>2
      <4> QED BY <4>1 DEF ViewInv, Repairs
    <3> QED BY <1>7, <3>1, <3>2
  <2> QED BY <1>4, <1>6, <2>2, <2>3 DEF ShowInv
<1>8. CASE q.op \in ServerWrites /\ q.tainted
  <2>1. ASSUME NEW a \in asks' PROVE a.tainted
    <3>1. CASE a \in asks /\ a # q
      BY <1>8, <3>1 DEF ShowInv, Overlaps
    <3> QED BY <1>4, <1>8, <3>1
  <2>2. \A a \in asks' : Fresh(a)'
    BY <2>1 DEF Fresh
  <2>3. ViewInv'
    <3>1. \E a \in asks' : a.op \in ServerWrites /\ a.tainted
      BY <1>4, <1>8
    <3> QED BY <3>1 DEF ViewInv, Repairs
  <2> QED BY <1>4, <1>6, <2>2, <2>3 DEF ShowInv
<1>9. CASE q.op \in ServerWrites /\ ~ q.tainted
  <2>1. asks = {q}
    BY <1>9, AloneIs
  <2>2. PICK a \in asks' : a.op = q.op /\ a.pc = "answered"
    BY <1>4
  <2>3. \A b \in asks' : b.op = q.op /\ b.pc = "answered" /\ b.answer = AnswerTo(q)
    BY <1>4, <2>1
  <2>4. \A b \in asks' : Fresh(b)'
    <3>1. q.op = "update" => AnswerTo(q) = servers'[Home]
      BY <1>1, AnswerToIs
    <3>2. q.op \notin {"load", "reload"}
      BY <1>9 DEF ServerWrites
    <3> QED BY <2>3, <3>1, <3>2 DEF Fresh
  <2>5. ViewInv'
    <3> SUFFICES ASSUME ~ aged, view # Deleted, servers'[Home] # Deleted
                 PROVE  view = Now' \/ \E b \in asks' : (Repairs(b) \/ Merges(b))'
      BY <1>2 DEF ViewInv
    <3>1. view = Now
      <4>1. servers[Home] # Deleted
        BY <1>5
      <4>2. ~ Repairs(q) /\ ~ Merges(q)
        BY <1>2, <1>9 DEF Repairs, Merges, ServerWrites
      <4> QED BY <2>1, <4>1, <4>2 DEF ShowInv, ViewInv
    <3>2. CASE q.op = "update"
      <4>1. view.keys = KeysOf(Home)'
        BY <1>5, <3>1, <3>2 DEF Now
      <4> QED BY <1>2, <2>2, <3>2, <4>1 DEF Merges
    <3>3. CASE q.op = "assign"
      <4>1. Now' = Now
        BY <1>5, <3>3, RowSameIs
      <4> QED BY <3>1, <4>1
    <3>4. CASE q.op \in KeyOps
      BY <2>2, <3>4 DEF Repairs
    <3>5. CASE q.op = "delete"
      BY <1>5, <3>5
    <3> QED BY <1>9, <3>2, <3>3, <3>4, <3>5 DEF ServerWrites, KeyOps
  <2> QED BY <1>4, <1>6, <2>4, <2>5 DEF ShowInv
<1> QED BY <1>1, <1>7, <1>8, <1>9 DEF Ops, ServerWrites, KeyOps

\* An answer that is lost leaves the page aged.
LEMMA AskFailsShows == ASSUME SrvInv, ShowInv, NEW q, q \in asks, AskFails(q) PROVE ShowInv'
<1>1. /\ q.op \in Ops /\ q \in Asks
  BY AskIs DEF SrvInv
<1>2. /\ Moves(q, "failed", Deleted) /\ q.pc \in {"sent", "answered"}
      /\ aged' = (aged \/ (q.pc = "answered" /\ q.op \in ServerWrites \union {"reload"}))
      /\ UNCHANGED <<servers, keys, view>>
  BY DEF AskFails, pageVars
<1>3. /\ Overlaps'
      /\ \A a \in asks' : \/ a \in asks /\ a # q
                          \/ a.op = q.op /\ a.pc = "failed" /\ (a.tainted <=> q.tainted)
      /\ \E a \in asks' : a.op = q.op /\ a.pc = "failed" /\ (a.tainted <=> q.tainted)
  <2>1. Deleted \in Answers
    BY DEF Answers
  <2> QED BY <1>2, <2>1, MovesOverlaps
<1>4. RowSame /\ Now' = Now /\ KeysOf(Home)' = KeysOf(Home)
  BY <1>2 DEF RowSame, Now, KeysOf
<1>5. ASSUME NEW a \in asks'
      PROVE  Fresh(a)' /\ (a.op = "delete" /\ a.pc = "answered" => servers'[Home] = Deleted)
  <2>1. CASE a \in asks /\ a # q
    <3>1. Still(a, a)
      BY DEF Still, Alike
    <3>2. Fresh(a)'
      BY <1>4, <2>1, <3>1, FreshStays DEF ShowInv
    <3> QED BY <1>2, <2>1, <3>2 DEF ShowInv
  <2>2. CASE a.pc = "failed"
    BY <2>2 DEF Fresh
  <2> QED BY <1>3, <2>1, <2>2
<1>6. ViewInv'
  <2> SUFFICES ASSUME ~ aged', view # Deleted, servers[Home] # Deleted
               PROVE  view = Now \/ \E a \in asks' : (Repairs(a) \/ Merges(a))'
    BY <1>2, <1>4 DEF ViewInv
  <2>1. ~ aged /\ ~ (q.pc = "answered" /\ q.op \in ServerWrites \union {"reload"})
    BY <1>2
  <2>2. view = Now \/ \E p \in asks : Repairs(p) \/ Merges(p)
    BY <2>1 DEF ShowInv, ViewInv
  <2>3. ASSUME NEW p \in asks, Repairs(p) \/ Merges(p), p # q
        PROVE  \E a \in asks' : (Repairs(a) \/ Merges(a))'
    <3>1. p \in asks'
      BY <1>2, <2>3 DEF Moves
    <3>2. (Repairs(p) \/ Merges(p))'
      BY <1>2, <1>4, <2>3 DEF Repairs, Merges
    <3> QED BY <3>1, <3>2
  <2>4. CASE Repairs(q) \/ Merges(q)
    <3>1. q.op = "reload" \/ (q.op \in ServerWrites /\ q.tainted)
      BY <2>1, <2>4 DEF Repairs, Merges, ServerWrites, KeyOps
    <3>2. \E a \in asks' : Repairs(a)
      BY <1>3, <3>1 DEF Repairs
    <3> QED BY <3>2 DEF Repairs
  <2> QED BY <2>2, <2>3, <2>4
<1> QED BY <1>3, <1>5, <1>6 DEF ShowInv

\* A request is taken from those under way.
LEMMA TakenShows ==
  ASSUME ShowInv, NEW q, q \in asks, asks' = asks \ {q}, UNCHANGED <<servers, keys>>
  PROVE  /\ Overlaps' /\ Now' = Now
         /\ \A a \in asks' : Fresh(a)' /\ (a.op = "delete" /\ a.pc = "answered" => servers'[Home] = Deleted)
<1>1. RowSame /\ Now' = Now
  BY DEF RowSame, Now, KeysOf
<1>2. Overlaps'
  BY DEF ShowInv, Overlaps
<1>3. ASSUME NEW a \in asks'
      PROVE  Fresh(a)' /\ (a.op = "delete" /\ a.pc = "answered" => servers'[Home] = Deleted)
  <2>1. Still(a, a)
    BY DEF Still, Alike
  <2>2. Fresh(a)'
    BY <1>1, <2>1, FreshStays DEF ShowInv
  <2> QED BY <2>2 DEF ShowInv
<1> QED BY <1>1, <1>2, <1>3

\* A load that ran alone shows the row.
LEMMA FetchedShows ==
  ASSUME SrvInv, ShowInv, NEW q, q \in asks, PageLoaded(q) \/ Reloaded(q)
  PROVE  ShowInv'
<1>1. /\ asks' = asks \ {q} /\ aged' = q.tainted /\ UNCHANGED <<servers, keys>>
      /\ q.op \in {"load", "reload"}
  BY DEF PageLoaded, Reloaded, Settled
<1>2. /\ Overlaps' /\ Now' = Now
      /\ \A a \in asks' : Fresh(a)' /\ (a.op = "delete" /\ a.pc = "answered" => servers'[Home] = Deleted)
  BY <1>1, TakenShows
<1>3. ViewInv'
  <2>1. CASE q.pc = "answered"
    <3>1. view' = Shown(q.answer.server)
      BY <2>1 DEF PageLoaded, Reloaded
    <3>2. ~ q.tainted /\ servers[Home] # Deleted => view' = Now
      BY <1>1, <2>1, <3>1 DEF ShowInv, Fresh
    <3> QED BY <1>1, <1>2, <3>2 DEF ViewInv
  <2>2. CASE q.pc # "answered"
    <3>1. q.op = "load" /\ UNCHANGED view
      BY <2>2 DEF PageLoaded, Reloaded
    <3>2. view = Deleted
      BY <3>1 DEF SrvInv, LoadFirst
    <3> QED BY <3>1, <3>2 DEF ViewInv
  <2> QED BY <2>1, <2>2
<1> QED BY <1>2, <1>3 DEF ShowInv

\* A load follows the write of a key.
LEMMA KeyDoneShows == ASSUME SrvInv, ShowInv, NEW q, q \in asks, KeyDone(q) PROVE ShowInv'
<1>1. /\ q.op \in KeyOps /\ asks' = Asking(asks \ {q}, "reload", Anywhere)
      /\ UNCHANGED <<servers, keys, view>>
  BY DEF KeyDone, Settled, KeyOps, pageVars
<1>2. \A p \in asks \ {q} : p.tainted
  BY <1>1 DEF ShowInv, Overlaps, KeyOps, ServerWrites
<1>3. /\ Overlaps'
      /\ \A a \in asks' : (a.op = "reload" /\ a.pc = "sent") \/ \E p \in asks \ {q} : Still(a, p)
  <2>1. asks \ {q} \subseteq asks /\ "reload" \in Ops /\ Anywhere \in Args
    BY DEF Ops, Args
  <2> QED BY <1>1, <1>2, <2>1, AskingOverlaps
<1>4. RowSame
  BY <1>1 DEF RowSame, KeysOf
<1>5. ASSUME NEW a \in asks'
      PROVE  Fresh(a)' /\ (a.op = "delete" /\ a.pc = "answered" => servers'[Home] = Deleted)
  <2>1. CASE a.pc = "sent"
    BY <2>1 DEF Fresh
  <2>2. ASSUME NEW p \in asks \ {q}, Still(a, p)
        PROVE  Fresh(a)' /\ (a.op = "delete" /\ a.pc = "answered" => servers'[Home] = Deleted)
    <3>1. Fresh(a)'
      BY <1>4, <2>2, FreshStays DEF ShowInv
    <3> QED BY <1>1, <2>2, <3>1 DEF ShowInv, Still, Alike
  <2> QED BY <1>3, <2>1, <2>2
<1>6. ViewInv'
  <2>1. SentAsk("reload", Anywhere, asks \ {q}) \in asks'
    BY <1>1 DEF Asking
  <2>2. SentAsk("reload", Anywhere, asks \ {q}).op = "reload"
    BY DEF SentAsk
  <2>3. \E a \in asks' : a.op = "reload"
    BY <2>1, <2>2
  <2> QED BY <2>3 DEF ViewInv, Repairs
<1> QED BY <1>3, <1>5, <1>6 DEF ShowInv

\* The answer merged into what is shown is the row.
LEMMA UpdateDoneShows == ASSUME SrvInv, ShowInv, NEW q, q \in asks, UpdateDone(q) PROVE ShowInv'
<1>1. /\ q.op = "update" /\ q.pc = "answered" /\ asks' = asks \ {q} /\ aged' = (aged \/ q.tainted)
      /\ UNCHANGED <<servers, keys>>
  BY DEF UpdateDone, Settled
<1>2. /\ Overlaps' /\ Now' = Now
      /\ \A a \in asks' : Fresh(a)' /\ (a.op = "delete" /\ a.pc = "answered" => servers'[Home] = Deleted)
  BY <1>1, TakenShows
<1>3. view # Deleted
  BY <1>1 DEF SrvInv, LoadFirst
<1>4. ViewInv'
  <2> SUFFICES ASSUME ~ aged, ~ q.tainted, servers[Home] # Deleted PROVE view' = Now
    BY <1>1, <1>2 DEF ViewInv
  <2>1. asks = {q}
    BY <1>1, AloneIs DEF ServerWrites
  <2>2. view = Now \/ Merges(q)
    BY <1>1, <1>3, <2>1 DEF ShowInv, ViewInv, Repairs, KeyOps
  <2>3. view.keys = KeysOf(Home)
    BY <2>2 DEF Now, Merges
  <2>4. q.answer.active = servers[Home].active /\ q.answer.words = servers[Home].words
    BY <1>1 DEF ShowInv, Fresh
  <2>5. view' = [active |-> q.answer.active, words |-> q.answer.words, keys |-> view.keys]
    BY UpdateDoneTyped
  <2> QED BY <2>3, <2>4, <2>5 DEF Now
<1> QED BY <1>2, <1>4 DEF ShowInv

\* An answer that is only said leaves what is shown.
LEMMA OnlySaidShows == ASSUME SrvInv, ShowInv, NEW q, q \in asks, OnlySaid(q) PROVE ShowInv'
<1>1. /\ \/ q.op \in {"assign", "delete"} /\ q.pc = "answered"
         \/ q.op # "load" /\ q.pc = "failed"
      /\ asks' = asks \ {q}
      /\ aged' = (aged \/ (q.op \in ServerWrites /\ q.tainted) \/ (q.op = "reload"))
      /\ UNCHANGED <<servers, keys, view>>
  BY DEF OnlySaid, Settled
<1>2. /\ Overlaps' /\ Now' = Now
      /\ \A a \in asks' : Fresh(a)' /\ (a.op = "delete" /\ a.pc = "answered" => servers'[Home] = Deleted)
  BY <1>1, TakenShows
<1>3. q.op \in Ops
  BY AskIs DEF SrvInv
<1>4. ViewInv'
  <2> SUFFICES ASSUME ~ aged', view # Deleted, servers[Home] # Deleted PROVE view = Now
    BY <1>1, <1>2 DEF ViewInv
  <2>1. ~ aged /\ ~ (q.op \in ServerWrites /\ q.tainted) /\ q.op # "reload"
    BY <1>1
  <2>2. q.op \in ServerWrites /\ ~ q.tainted
    BY <1>1, <1>3, <2>1 DEF Ops, KeyOps, ServerWrites
  <2>3. asks = {q}
    BY <2>2, AloneIs
  <2>4. ~ (q.op = "delete" /\ q.pc = "answered")
    BY DEF ShowInv
  <2>5. ~ Repairs(q) /\ ~ Merges(q)
    BY <1>1, <2>1, <2>2, <2>4 DEF Repairs, Merges, KeyOps
  <2> QED BY <2>1, <2>3, <2>5 DEF ShowInv, ViewInv
<1> QED BY <1>2, <1>4 DEF ShowInv

\* The three invariants of the page of a server.
ServerPageInv == SrvInv /\ AddInv /\ ShowInv

\* What the invariant says in the words of the properties.
LEMMA ServerPageFromInv == ServerPageInv => ServerPageTypeOK /\ AssignmentsAdd /\ ServerPageShowsRow
<1> SUFFICES ASSUME ServerPageInv PROVE ServerPageTypeOK /\ AssignmentsAdd /\ ServerPageShowsRow
  OBVIOUS
<1>1. ServerTyped
  BY DEF ServerPageInv, SrvInv
<1>2. ServerPageTypeOK
  <2>1. \A q \in asks : q.pc \in {"sent", "answered", "failed"}
    BY <1>1, AskIs
  <2>2. \A c \in Linkable : modal[c].pc \in {"open", "reading", "assigning", "closed"}
    BY <1>1, ModalIs DEF Modals
  <2> QED BY <1>1, <2>1, <2>2 DEF ServerPageTypeOK, ServerTyped
<1>3. AssignmentsAdd
  BY DEF ServerPageInv, AddInv, AssignmentsAdd, LinksOf
<1>4. ServerPageShowsRow
  <2> SUFFICES ASSUME view # Deleted, asks = {}, ~ aged, servers[Home] # Deleted
               PROVE  view = Shown(findById(Home))
    BY DEF ServerPageShowsRow
  <2>1. view = Now
    BY DEF ServerPageInv, ShowInv, ViewInv
  <2> QED BY <1>1, <2>1, FetchedIs DEF Now
<1> QED BY <1>2, <1>3, <1>4

\* It holds at the start.
LEMMA ServerPageInvInit == ServerPageInit => ServerPageInv
BY SrvInvInit, AddInvInit, ShowInvInit DEF ServerPageInv

\* Every step keeps it.
LEMMA ServerPageInvStep == ServerPageInv /\ [ServerPageNext]_serverPageVars => ServerPageInv'
<1> SUFFICES ASSUME ServerPageInv, [ServerPageNext]_serverPageVars PROVE ServerPageInv'
  OBVIOUS
<1>1. SrvInv /\ AddInv /\ ShowInv
  BY DEF ServerPageInv
<1>2. CASE UNCHANGED serverPageVars
  <2>1. UNCHANGED <<servers, keys, linkable, asks, view, ticks, onPage, left, known, unticked, modal, aged, given>>
    BY <1>2 DEF serverPageVars, pageVars
  <2>2. SrvInv'
    BY <1>1, <2>1 DEF SrvInv, ServerTyped, LoadFirst
  <2>3. AddInv'
    BY <1>1, <2>1 DEF AddInv, LinksOf
  <2>4. RowSame
    BY <2>1 DEF RowSame, KeysOf
  <2>5. ShowInv'
    BY <1>1, <2>1, <2>4, ShowSame
  <2> QED BY <2>2, <2>3, <2>5 DEF ServerPageInv
<1>3. ASSUME NEW c \in Linkable, handleSubmit(c) \/ ModalReads(c) \/ ModalWrites(c) \/ ModalFails(c)
      PROVE  ServerPageInv'
  <2>1. SrvInv'
    BY <1>1, <1>3, HandleSubmitTyped, ModalReadsTyped, ModalWritesTyped, ModalFailsTyped
  <2>2. AddInv' /\ ShowInv'
    BY <1>1, <1>3, ModalAdds, ModalShows
  <2> QED BY <2>1, <2>2 DEF ServerPageInv
<1>4. ASSUME NEW now \in SUBSET Linkable, Ticking(now) PROVE ServerPageInv'
  BY <1>1, <1>4, TickingTyped, TickingAdds, TickingShows DEF ServerPageInv
<1>5. ASSUME NEW op \in ServerWrites, NEW arg \in Args, Fits(op, arg), Request(op, arg), op = "assign" => arg = ticks
      PROVE  ServerPageInv'
  BY <1>1, <1>5, RequestTyped, RequestAdds, RequestShows DEF ServerPageInv
<1>6. ASSUME NEW c \in Linkable, ConnectorDeleted(c) PROVE ServerPageInv'
  BY <1>1, <1>6, ConnectorDeletedTyped, ConnectorDeletedAdds, ConnectorDeletedShows DEF ServerPageInv
<1>7. ASSUME NEW q, q \in asks, Answer(q) PROVE ServerPageInv'
  BY <1>1, <1>7, AnswerTyped, AnswerAdds, AnswerShows DEF ServerPageInv
<1>8. ASSUME NEW q, q \in asks,
             AskFails(q) \/ PageLoaded(q) \/ Reloaded(q) \/ KeyDone(q) \/ UpdateDone(q) \/ OnlySaid(q)
      PROVE  ServerPageInv'
  <2>1. AddInv'
    BY <1>1, <1>8, PageAdds
  <2>2. SrvInv'
    BY <1>1, <1>8, AskFailsTyped, PageLoadedTyped, ReloadedTyped, KeyDoneTyped, UpdateDoneTyped, OnlySaidTyped
  <2>3. ShowInv'
    BY <1>1, <1>8, AskFailsShows, FetchedShows, KeyDoneShows, UpdateDoneShows, OnlySaidShows
  <2> QED BY <2>1, <2>2, <2>3 DEF ServerPageInv
<1>9. CASE ServerPageNext
  <2>1. CASE \E c \in Linkable :
               \/ handleSubmit(c) \/ ModalReads(c) \/ ModalWrites(c) \/ ModalFails(c)
               \/ handleToggleConnector(c) \/ ConnectorDeleted(c)
    BY <1>1, <1>3, <1>4, <1>6, <2>1, TicksFit
  <2>2. CASE TickAll \/ TickNone
    BY <1>1, <1>4, <2>2, TicksFit
  <2>3. CASE \/ \E w \in Words \union {Blank} : handleSaveDetails(w)
             \/ \E k \in Keys : handleRevokeKey(k) \/ handleDeleteKey(k)
             \/ handleToggleActive \/ handleSaveConnectors \/ handleGenerateKey \/ handleDeleteServer
    BY <1>1, <1>5, <2>3, ClickFits
  <2>4. CASE \E q \in asks :
               \/ Answer(q) \/ AskFails(q) \/ PageLoaded(q) \/ Reloaded(q) \/ KeyDone(q)
               \/ UpdateDone(q) \/ OnlySaid(q)
    BY <1>7, <1>8, <2>4
  <2> QED BY <1>9, <2>1, <2>2, <2>3, <2>4 DEF ServerPageNext
<1> QED BY <1>2, <1>9

-----------------------------------------------------------------------------
(* The theorems, first of each part by itself.                             *)

\* While nobody edits the tools after the diff it stands for, a connector that is stamped
\* with the release of the program has its tools, through every resync and deployment.
THEOREM StampTrue == CatalogSpec => []StampIsTrue
BY CatInvInit, CatInvStep, CatalogFromInv, PTL DEF CatalogSpec

\* A tool that was switched off by hand stays off through every resync, unless it came
\* back to the catalog, or a transaction had already read its row.
THEOREM ManualDisableStays == CatalogSpec => []ManualDisableKept
BY CatInvInit, CatInvStep, CatalogFromInv, PTL DEF CatalogSpec

\* After an import that nothing disturbed the rows tell the document.
THEOREM ImportsComplete == ImportSpec => []ImportIsComplete
BY ImportInvInit, ImportInvStep, ImportFromInv, PTL DEF ImportSpec

\* The status of an edge that stays is changed by a person, or by a writer that found the
\* edge neither noted nor rejected, and such a writer takes nothing active back but on the
\* kinds that are bumped as suggested.  An edge confirmed without a note, and one that a
\* sync deletes and creates again, are the exceptions VerdictKept names.
THEOREM VerdictStays == EdgesSpec => VerdictKept
<1>1. EdgesInv /\ [EdgesNext]_edgesVars => \A l \in Links : Kept(l)
  BY VerdictStep
<1>2. EdgesInv /\ [EdgesNext]_edgesVars => [\A l \in Links : Kept(l)]_edgesVars
  BY <1>1
<1>3. EdgesSpec => [][\A l \in Links : Kept(l)]_edgesVars
  BY <1>2, EdgesInvInit, EdgesInvStep, PTL DEF EdgesSpec
<1> QED BY <1>3 DEF VerdictKept, Kept

\* Once nothing is under way and nothing overlapped, the page shows what the database holds.
THEOREM PageShows == ConnectorPageSpec => []PageShowsRows
BY ConnectorPageInvInit, ConnectorPageInvStep, ConnectorPageFromInv, PTL DEF ConnectorPageSpec

\* What the page of a server or a modal assigned stays, until somebody clears it or writes
\* a list that was read before.
THEOREM AssignmentsOnlyAdd == ServerPageSpec => []AssignmentsAdd
BY ServerPageInvInit, ServerPageInvStep, ServerPageFromInv, PTL DEF ServerPageSpec

-----------------------------------------------------------------------------
(* The composition.                                                        *)

\* The invariants of the five parts.
CatalogRunInv == CatInv /\ ImportInv /\ EdgesInv /\ ConnectorPageInv /\ ServerPageInv

\* Every part starts as it does alone.
LEMMA CatalogRunInvInit == CatalogRunInit => CatalogRunInv
BY CatInvInit, ImportInvInit, EdgesInvInit, ConnectorPageInvInit, ServerPageInvInit
DEF CatalogRunInit, CatalogRunInv

\* A step of the composition is one of each part, or none.
LEMMA CatalogParts ==
  [CatalogRunNext]_catalogRunVars =>
    /\ [CatalogNext]_catalogVars /\ [ImportNext]_importVars /\ [EdgesNext]_edgesVars
    /\ [ConnectorPageNext]_connectorPageVars /\ [ServerPageNext]_serverPageVars
BY DEF CatalogRunNext, catalogRunVars

\* Every step keeps the invariants.
LEMMA CatalogRunInvStep == CatalogRunInv /\ [CatalogRunNext]_catalogRunVars => CatalogRunInv'
BY CatalogParts, CatInvStep, ImportInvStep, EdgesInvStep, ConnectorPageInvStep, ServerPageInvStep
DEF CatalogRunInv

\* The five invariants hold in every reachable state of the composition.
THEOREM CatalogRunInvHolds == CatalogRunSpec => []CatalogRunInv
BY CatalogRunInvInit, CatalogRunInvStep, PTL DEF CatalogRunSpec

\* Every variable of the five parts has its type.
THEOREM CatalogRunTyped == CatalogRunSpec => []CatalogRunTypeOK
<1>1. CatalogRunInv => CatalogRunTypeOK
  BY CatalogFromInv, ImportFromInv, EdgesFromInv, ConnectorPageFromInv, ServerPageFromInv
  DEF CatalogRunInv, CatalogRunTypeOK
<1> QED BY <1>1, CatalogRunInvHolds, PTL

\* What the pages of a connector and of a server show, once nothing is under way and nothing
\* overlapped, is what the database holds, and the result in the playground is of its tool.
THEOREM PagesTrue == CatalogRunSpec => []PageIsTrue
<1>1. CatalogRunInv => PageIsTrue
  BY ConnectorPageFromInv, ServerPageFromInv DEF CatalogRunInv, PageIsTrue
<1> QED BY <1>1, CatalogRunInvHolds, PTL
=============================================================================
