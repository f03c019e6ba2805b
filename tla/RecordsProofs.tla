--------------------------- MODULE RecordsProofs ---------------------------
(***************************************************************************)
(* Proofs about Records: what survives the way from a record to the config *)
(* that is live and back to what list prints, for any spellings, records,  *)
(* proxy configurations and cap, and for sequences of commands of any      *)
(* length.                                                                 *)
(***************************************************************************)
EXTENDS Records, DifferProofs

Configured == {"InUse", "Standby"}

\* The records that become DomainInfos, with normalised names and a status
\* that deserves a config, and what they are rendered to.
LEMMA DesiredShape ==
    ASSUME TypeOK
    PROVE  /\ DOMAIN desired = {i \in DOMAIN records : Deployable(records[i])}
           /\ \A i \in DOMAIN desired :
                 /\ desired[i] = InfoOf(records[i])
                 /\ desired[i].name \in Names
                 /\ desired[i].no \in Int
                 /\ desired[i].status \in Configured
           /\ IsList(RenderedDesired)
           /\ DOMAIN RenderedDesired = DOMAIN desired
           /\ \A i \in DOMAIN desired :
                 /\ RenderedDesired[i].name = desired[i].name
                 /\ RenderedDesired[i].body
                       = render_domain_config(desired[i], proxy_conf)
<1>1. records \in Seq(RawRecords) /\ records \in RecordFiles
      /\ proxy_conf \in ProxyConfs
  BY RecordsAssumption DEF TypeOK
<1>2. /\ DOMAIN records = 1..Len(records) /\ Len(records) \in Nat
      /\ \A i \in DOMAIN records : records[i] \in RawRecords
  BY <1>1
<1>3. /\ DOMAIN desired = {i \in DOMAIN records : Deployable(records[i])}
      /\ \A i \in DOMAIN desired : desired[i] = InfoOf(records[i])
  BY DEF desired, DesiredOf
<1>4. ASSUME NEW i \in DOMAIN desired
      PROVE  /\ desired[i].name \in Names
             /\ desired[i].no \in Int
             /\ desired[i].status \in Configured
  <2>1. records[i] \in RawRecords /\ Deployable(records[i])
    BY <1>2, <1>3, <1>4
  <2>2. ToLower[records[i].name] \in Names
    BY <2>1, RecordsAssumption DEF Deployable, RawRecords, validate_domain_name
  <2>3. from_i32(records[i].status) \in Configured
    BY <2>1 DEF Deployable, should_have_config, Configured
  <2> QED  BY <1>3, <2>1, <2>2, <2>3
           DEF InfoOf, DomainInfo, validate_domain_name, RawRecords
<1>5. /\ DOMAIN RenderedDesired = DOMAIN desired
      /\ \A i \in DOMAIN desired :
            /\ RenderedDesired[i].name = desired[i].name
            /\ RenderedDesired[i].body = render_domain_config(desired[i], proxy_conf)
            /\ RenderedDesired[i] = [name |-> RenderedDesired[i].name,
                                     body |-> RenderedDesired[i].body]
  BY DEF RenderedDesired, Rendered
<1>6. \A i \in DOMAIN desired : RenderedDesired[i].body \in Bodies
  <2>1. ASSUME NEW i \in DOMAIN desired PROVE RenderedDesired[i].body \in Bodies
    <3>1. desired[i] = DomainInfo(records[i].no, desired[i].name, desired[i].status)
      BY <1>3 DEF InfoOf, DomainInfo
    <3>2. i \in DOMAIN records
      BY <1>3
    <3>3. records[i].no \in {0} \cup UNION {{file[j].no : j \in DOMAIN file} :
                                            file \in RecordFiles}
      BY <1>1, <3>2
    <3>4. desired[i].name \in Names /\ desired[i].status \in {"InUse", "Standby"}
      BY <1>4 DEF Configured
    <3>5. render_domain_config(DomainInfo(records[i].no, desired[i].name,
                                          desired[i].status), proxy_conf) \in Bodies
      BY <1>1, <3>3, <3>4, RenderAssumption
    <3> QED  BY <1>5, <3>1, <3>5
  <2> QED  BY <2>1
<1>7. \A i \in DOMAIN desired : RenderedDesired[i] \in DomainInfos
  BY <1>4, <1>5, <1>6 DEF DomainInfos
<1>8. DOMAIN desired \in SUBSET Nat /\ IsFiniteSet(DOMAIN desired)
  <2>1. IsFiniteSet(1..Len(records))
    BY <1>2, FS_Interval
  <2> QED  BY <1>2, <1>3, <2>1, FS_Subset
<1>9. IsList(RenderedDesired)
  <2>1. RenderedDesired = [i \in DOMAIN desired |-> RenderedDesired[i]]
    BY <1>5 DEF RenderedDesired
  <2> QED  BY <1>5, <1>7, <1>8, <2>1 DEF IsList
<1> QED  BY <1>3, <1>4, <1>5, <1>9

\* The list that is diffed names what the desired list names.
LEMMA SameNames ==
    ASSUME TypeOK
    PROVE  /\ \A positions \in SUBSET DOMAIN desired :
                 NamesAt(RenderedDesired, positions) = NamesAt(desired, positions)
           /\ desired_names(RenderedDesired) = desired_names(desired)
           /\ desired_names(desired) \subseteq Names
<1>1. DOMAIN RenderedDesired = DOMAIN desired
      /\ \A i \in DOMAIN desired : RenderedDesired[i].name = desired[i].name
                                   /\ desired[i].name \in Names
  BY DesiredShape
<1>2. \A positions \in SUBSET DOMAIN desired :
         NamesAt(RenderedDesired, positions) = NamesAt(desired, positions)
  BY <1>1 DEF NamesAt
<1> QED  BY <1>1, <1>2 DEF desired_names, NamesAt

\* What a sync computes and stages from what it has found.
LEMMA SyncStages ==
    ASSUME TypeOK, NEW found \in ManagedTrees
    PROVE  /\ Diff(found) \in DiffResults
           /\ Fits(Diff(found), RenderedDesired)
           /\ Diff(found).to_add \in SUBSET DOMAIN desired
           /\ Diff(found).to_update \in SUBSET DOMAIN desired
           /\ Diff(found).to_remove \subseteq Files(found) \ desired_names(desired)
           /\ StagedTree(RenderedDesired, Diff(found), found) \in ManagedTrees
<1>1. [n \in Names |-> TRUE] \in [Names -> BOOLEAN]
  OBVIOUS
<1>2. Diff(found) = compute_diff(RenderedDesired, found, [n \in Names |-> TRUE])
  BY DEF Diff
<1>3. IsList(RenderedDesired) /\ DOMAIN RenderedDesired = DOMAIN desired
  BY DesiredShape
<1>4. /\ Diff(found) \in DiffResults
      /\ Diff(found).to_add \cup Diff(found).to_update \subseteq DOMAIN RenderedDesired
      /\ Diff(found).to_remove \subseteq Files(found) \ desired_names(RenderedDesired)
  <2> DEFINE d == compute_diff(RenderedDesired, found, [n \in Names |-> TRUE])
  <2>1. /\ d \in DiffResults
        /\ d.to_add \cup d.to_update \subseteq DOMAIN RenderedDesired
        /\ d.to_remove \subseteq Files(found) \ desired_names(RenderedDesired)
    BY <1>1, <1>3, DiffShape
  <2> HIDE DEF d
  <2>2. Diff(found) = d
    BY <1>2 DEF d
  <2> QED  BY <2>1, <2>2
<1>5. Fits(Diff(found), RenderedDesired)
  BY <1>4 DEF Fits
<1>6. StagedTree(RenderedDesired, Diff(found), found) \in ManagedTrees
  BY <1>3, <1>4, <1>5, StagedTreeType
<1> QED  BY <1>3, <1>4, <1>5, <1>6, SameNames

\* The file that is written last for a name and the info that is meant last
\* are those of one position.
LEMMA LastInfoIsLast ==
    ASSUME TypeOK, NEW positions \in SUBSET DOMAIN desired,
           NEW n \in NamesAt(desired, positions)
    PROVE  \E i \in positions :
              /\ desired[i].name = n
              /\ LastInfo(positions, n) = desired[i]
              /\ LastBody(RenderedDesired, positions, n)
                    = render_domain_config(desired[i], proxy_conf)
<1>1. /\ IsList(RenderedDesired) /\ DOMAIN RenderedDesired = DOMAIN desired
      /\ \A i \in DOMAIN desired :
            /\ RenderedDesired[i].name = desired[i].name
            /\ RenderedDesired[i].body = render_domain_config(desired[i], proxy_conf)
  BY DesiredShape
<1>2. n \in NamesAt(RenderedDesired, positions)
  BY <1>1, SameNames
<1>3. PICK i \in positions :
         /\ RenderedDesired[i].name = n
         /\ \A j \in positions : RenderedDesired[j].name = n => j =< i
         /\ LastBody(RenderedDesired, positions, n) = RenderedDesired[i].body
  BY <1>1, <1>2, LastBodyIsLast
<1> DEFINE mine == {j \in positions : desired[j].name = n}
           last == CHOOSE j \in mine : \A k \in mine : k =< j
<1>4. i \in mine /\ \A j \in mine : j =< i
  BY <1>1, <1>3
<1>5. last \in mine /\ \A j \in mine : j =< last
  BY <1>4
<1>6. mine \in SUBSET Nat
  BY <1>1 DEF IsList
<1>7. LastInfo(positions, n) = desired[last]
  BY DEF LastInfo
<1>8. last = i
  <2> HIDE DEF mine, last
  <2>1. last =< i /\ i =< last /\ i \in Nat /\ last \in Nat
    BY <1>4, <1>5, <1>6
  <2> QED  BY <2>1
<1> HIDE DEF last
<1> QED  BY <1>1, <1>3, <1>4, <1>7, <1>8

-----------------------------------------------------------------------------
(* From the text of a config back to what it was rendered from.             *)

\* A word that occurs once is found there.
LEMMA FindsTheOnly ==
    ASSUME NEW line, NEW w, NEW from, NEW k,
           {i \in DOMAIN line : i >= from /\ IsWord(line[i], w)} = {k}
    PROVE  Find(line, w, from) = k
<1>1. (CHOOSE i \in {k} : \A j \in {k} : i =< j) = k
  <2>1. CASE k =< k
    BY <2>1
  <2>2. CASE ~ (k =< k)
    BY <2>2
  <2> QED  BY <2>1, <2>2
<1> QED  BY <1>1 DEF Find

\* The tokens of a header line, and which of them are words to look for.
LEMMA HeaderTokens ==
    ASSUME NEW no \in Int, NEW name, NEW status \in Configured
    PROVE  LET line == Header(DomainInfo(no, name, status))
           IN  /\ DOMAIN line = 1..9 /\ line # <<>>
               /\ \A i \in 1..9 : IsWord(line[i], "Domain") <=> i = 1
               /\ \A i \in 1..9 : IsWord(line[i], "open") <=> i = 3
               /\ \A i \in 1..9 : IsWord(line[i], "No") <=> i = 4
               /\ \A i \in 1..9 : IsWord(line[i], "comma") <=> i = 6
               /\ \A i \in 1..9 : IsWord(line[i], "Status") <=> i = 7
               /\ \A i \in 1..9 : IsWord(line[i], "close") <=> i = 9
               /\ line[5] = Number(no) /\ line[8] = Word(status)
<1> DEFINE line == Header(DomainInfo(no, name, status))
<1>1. line = <<Word("Domain"), Name(name), Word("open"), Word("No"), Number(no),
               Word("comma"), Word("Status"), Word(status), Word("close")>>
  BY DEF Header, DomainInfo
<1> HIDE DEF line
<1>2. DOMAIN line = 1..9 /\ line # <<>>
  <2>1. Len(line) = 9 /\ DOMAIN line = 1..Len(line)
    BY <1>1
  <2>2. Len(<<>>) = 0
    OBVIOUS
  <2> QED  BY <2>1, <2>2
<1>3. /\ line[1] = Word("Domain") /\ line[2] = Name(name) /\ line[3] = Word("open")
      /\ line[4] = Word("No") /\ line[5] = Number(no) /\ line[6] = Word("comma")
      /\ line[7] = Word("Status") /\ line[8] = Word(status) /\ line[9] = Word("close")
  BY <1>1
<1>4. /\ \A i \in {1, 3, 4, 6, 7, 8, 9} : line[i].kind = "word"
      /\ \A i \in {2, 5} : line[i].kind # "word"
      /\ line[1].text = "Domain" /\ line[3].text = "open" /\ line[4].text = "No"
      /\ line[6].text = "comma" /\ line[7].text = "Status" /\ line[8].text = status
      /\ line[9].text = "close"
  BY <1>3 DEF Word, Name, Number
<1>5. \A i \in 1..9 : i = 1 \/ i = 2 \/ i = 3 \/ i = 4 \/ i = 5 \/ i = 6 \/ i = 7
                      \/ i = 8 \/ i = 9
  OBVIOUS
<1>6. status = "InUse" \/ status = "Standby"
  BY DEF Configured
<1>7. \A i \in 1..9 : IsWord(line[i], "Domain") <=> i = 1
  BY <1>4, <1>5, <1>6 DEF IsWord
<1>8. \A i \in 1..9 : IsWord(line[i], "open") <=> i = 3
  BY <1>4, <1>5, <1>6 DEF IsWord
<1>9. \A i \in 1..9 : IsWord(line[i], "No") <=> i = 4
  BY <1>4, <1>5, <1>6 DEF IsWord
<1>10. \A i \in 1..9 : IsWord(line[i], "comma") <=> i = 6
  BY <1>4, <1>5, <1>6 DEF IsWord
<1>11. \A i \in 1..9 : IsWord(line[i], "Status") <=> i = 7
  BY <1>4, <1>5, <1>6 DEF IsWord
<1>12. \A i \in 1..9 : IsWord(line[i], "close") <=> i = 9
  BY <1>4, <1>5, <1>6 DEF IsWord
<1> QED  BY <1>2, <1>3, <1>7, <1>8, <1>9, <1>10, <1>11, <1>12 DEF line

\* The header line says its number and its status to those who search for them.
LEMMA HeaderSays ==
    ASSUME NEW no \in Int, NEW name, NEW status \in Configured
    PROVE  LET line == Header(DomainInfo(no, name, status))
           IN  NumbersIn(line) = {no} /\ StatusesIn(line) = {status}
<1> DEFINE line == Header(DomainInfo(no, name, status))
<1>1. /\ DOMAIN line = 1..9
      /\ \A i \in 1..9 : IsWord(line[i], "open") <=> i = 3
      /\ \A i \in 1..9 : IsWord(line[i], "No") <=> i = 4
      /\ \A i \in 1..9 : IsWord(line[i], "comma") <=> i = 6
      /\ \A i \in 1..9 : IsWord(line[i], "Status") <=> i = 7
      /\ \A i \in 1..9 : IsWord(line[i], "close") <=> i = 9
      /\ line[5] = Number(no) /\ line[8] = Word(status)
  BY HeaderTokens
<1> HIDE DEF line
<1>2. Find(line, "open", 1) = 3
  <2>1. {i \in DOMAIN line : i >= 1 /\ IsWord(line[i], "open")} = {3}
    BY <1>1
  <2> QED  BY <2>1, FindsTheOnly
<1>3. Label(line, "No") = 4
  <2>1. {i \in DOMAIN line : i >= 3 /\ IsWord(line[i], "No")} = {4}
    BY <1>1
  <2>2. Find(line, "No", 3) = 4
    BY <2>1, FindsTheOnly
  <2> QED  BY <1>2, <2>2 DEF Label
<1>4. Label(line, "Status") = 7
  <2>1. {i \in DOMAIN line : i >= 3 /\ IsWord(line[i], "Status")} = {7}
    BY <1>1
  <2>2. Find(line, "Status", 3) = 7
    BY <2>1, FindsTheOnly
  <2> QED  BY <1>2, <2>2 DEF Label
<1>5. NumbersIn(line) = {no}
  <2> DEFINE at == {j \in DOMAIN line :
                      /\ j > 1 /\ j - 1 = Label(line, "No")
                      /\ line[j].kind = "number"
                      /\ j + 1 \in DOMAIN line /\ IsWord(line[j + 1], "comma")}
  <2>1. line[5].kind = "number" /\ line[5].text = no
    BY <1>1 DEF Number
  <2>2. at = {5}
    BY <1>1, <1>3, <2>1
  <2>3. NumbersIn(line) = {line[i].text : i \in at}
    BY DEF NumbersIn
  <2> HIDE DEF at
  <2> QED  BY <2>1, <2>2, <2>3
<1>6. StatusesIn(line) = {status}
  <2> DEFINE rest == {i \in DOMAIN line : i > 7}
             trimmed == {i \in rest : \E j \in rest : j >= i /\ ~IsWord(line[j], "close")}
  <2>1. rest = {8, 9}
    BY <1>1
  <2>2. trimmed = {8}
    <3> HIDE DEF rest
    <3>1. ~IsWord(line[8], "close") /\ IsWord(line[9], "close")
      BY <1>1
    <3> QED  BY <2>1, <3>1
  <2>3. StatusesIn(line) = {StatusNamed(line, trimmed)}
    BY <1>4 DEF StatusesIn
  <2> HIDE DEF rest, trimmed
  <2>4. (status = StatusNames[4] \/ status = StatusNames[3])
        /\ DOMAIN StatusNames = 1..5
    BY DEF StatusNames, Configured
  <2>5. \E k \in DOMAIN StatusNames : IsWord(line[8], StatusNames[k])
    <3>1. IsWord(line[8], status)
      BY <1>1 DEF IsWord, Word
    <3> QED  BY <2>4, <3>1
  <2>6. (CHOOSE i \in {8} : TRUE) = 8
    OBVIOUS
  <2>7. line[8].text = status
    BY <1>1 DEF Word
  <2>8. StatusNamed(line, {8}) = line[CHOOSE i \in {8} : TRUE].text
    BY <2>5 DEF StatusNamed
  <2> QED  BY <2>2, <2>3, <2>6, <2>7, <2>8
<1> QED  BY <1>5, <1>6 DEF line

\* The header comment is found in the text of either template and read for what
\* was rendered, whatever else the text has.
LEMMA HeaderReadBack ==
    ASSUME NEW no \in Int, NEW name, NEW status \in Configured, NEW proxy
    PROVE  parse_config_header(render_domain_config(DomainInfo(no, name, status), proxy))
              = [no |-> no, status |-> status]
<1> DEFINE info == DomainInfo(no, name, status)
           text == render_domain_config(info, proxy)
           headers == {k \in DOMAIN text :
                         text[k] # <<>> /\ IsWord(text[k][1], "Domain")}
           numbered == {k \in headers : NumbersIn(text[k]) # {}}
           stated == {k \in headers : StatusesIn(text[k]) # {}}
           last(lines) == text[CHOOSE k \in lines : \A j \in lines : j =< k]
<1>1. /\ DOMAIN text = 1..3
      /\ text[1] = <<Word("Managed")>>
      /\ text[2] = Header(info)
      /\ text[3] = <<Word("include"), Path(proxy)>> \/ text[3] = <<Word("return")>>
  BY DEF render_domain_config
<1>2. /\ ~IsWord(text[1][1], "Domain")
      /\ text[2] # <<>> /\ IsWord(text[2][1], "Domain")
      /\ ~IsWord(text[3][1], "Domain")
  <2>1. text[2] # <<>> /\ IsWord(text[2][1], "Domain")
    BY <1>1, HeaderTokens
  <2>2. ~IsWord(text[1][1], "Domain")
    BY <1>1 DEF IsWord, Word
  <2>3. text[3][1] = Word("include") \/ text[3][1] = Word("return")
    BY <1>1
  <2>4. ~IsWord(text[3][1], "Domain")
    BY <2>3 DEF IsWord, Word
  <2> QED  BY <2>1, <2>2, <2>4
<1>3. NumbersIn(text[2]) = {no} /\ StatusesIn(text[2]) = {status}
  BY <1>1, HeaderSays
<1> HIDE DEF text, info
<1>4. headers = {2}
  BY <1>1, <1>2
<1>5. numbered = {2} /\ stated = {2}
  BY <1>3, <1>4
<1>6. (CHOOSE k \in {2} : \A j \in {2} : j =< k) = 2
  OBVIOUS
<1>7. parse_config_header(text)
         = [no     |-> IF numbered = {} THEN 0
                       ELSE CHOOSE x \in NumbersIn(last(numbered)) : TRUE,
            status |-> IF stated = {} THEN "InUse"
                       ELSE CHOOSE x \in StatusesIn(last(stated)) : TRUE]
  BY DEF parse_config_header
<1> HIDE DEF headers, numbered, stated
<1>8. last(numbered) = text[2] /\ last(stated) = text[2]
  BY <1>5, <1>6
<1>9. (CHOOSE x \in {no} : TRUE) = no /\ (CHOOSE x \in {status} : TRUE) = status
  OBVIOUS
<1>10. (CHOOSE x \in NumbersIn(last(numbered)) : TRUE) = no
       /\ (CHOOSE x \in StatusesIn(last(stated)) : TRUE) = status
  BY <1>3, <1>8, <1>9
<1>11. numbered # {} /\ stated # {}
  BY <1>5
<1> HIDE DEF last
<1> QED  BY <1>7, <1>10, <1>11 DEF text, info

-----------------------------------------------------------------------------
(* What is found in the live directory.                                     *)

\* Every live config is managed here.
LEMMA AllMarked ==
    ASSUME NEW tree \in ManagedTrees
    PROVE  tree \in Dirs /\ Marked(tree) = tree
<1>1. tree \in Trees
  BY DEF ManagedTrees, Trees
<1>2. tree # Absent
  BY <1>1, ContentsAssumption DEF Trees
<1> QED  BY <1>1, <1>2, ContentsAssumption DEF Marked, ManagedTrees, Dirs

\* A tree and what was meant by each config in it: rendered from that number
\* and that status.
Agree(tree, meanings) ==
    \A n \in Names : tree[n] # NoFile =>
       /\ meanings[n].no \in Int
       /\ meanings[n].status \in Configured
       /\ \E name \in Names, proxy \in ProxyConfs :
             tree[n] = render_domain_config(
                          DomainInfo(meanings[n].no, name, meanings[n].status), proxy)

\* Every live config was rendered from what its last writer meant.
Truthful == Agree(live, meant)

Meanings == [no : Int, status : {"InUse", "Standby", "None"}]

\* What is found has its meaning with it, under whatever name it is found.
LEMMA FoundAgree ==
    ASSUME TypeOK, Truthful, NEW found \in read_live_configs(live, {})
    PROVE  /\ found \in ManagedTrees
           /\ MeantBy(found) \in [Names -> Meanings]
           /\ Agree(found, MeantBy(found))
<1>1. live \in ManagedTrees /\ meant \in [Names -> Meanings]
  BY DEF TypeOK, Meanings
<1>2. live \in Dirs /\ Marked(live) = live
  BY <1>1, AllMarked
<1>3. /\ found \in ManagedTrees
      /\ \A n \in Files(found) :
            \E f \in Files(live) : Trimmed[f] = n /\ found[n] = live[f]
  BY <1>2, ReadsOfMarked
<1>4. NoRecord \in Meanings
  BY DEF NoRecord, Meanings
<1>5. ASSUME NEW n \in Names, found[n] # NoFile
      PROVE  \E f \in Files(live) : MeantBy(found)[n] = meant[f] /\ found[n] = live[f]
  <2> DEFINE same == {f \in Files(live) : Trimmed[f] = n /\ live[f] = found[n]}
             src == CHOOSE f \in Files(live) : Trimmed[f] = n /\ live[f] = found[n]
  <2>1. n \in Files(found)
    BY <1>5 DEF Files
  <2>2. \E f \in Files(live) : Trimmed[f] = n /\ live[f] = found[n]
    BY <1>3, <2>1
  <2>3. src \in Files(live) /\ live[src] = found[n]
    BY <2>2
  <2>4. MeantBy(found)[n] = meant[src]
    BY <1>5 DEF MeantBy
  <2> HIDE DEF src
  <2> QED  BY <2>3, <2>4
<1>6. ASSUME NEW n \in Names PROVE MeantBy(found)[n] \in Meanings
  <2>1. CASE found[n] = NoFile
    <3>1. MeantBy(found)[n] = NoRecord
      BY <2>1 DEF MeantBy
    <3> QED  BY <1>4, <3>1
  <2>2. CASE found[n] # NoFile
    BY <1>1, <1>5, <2>2 DEF Files
  <2> QED  BY <2>1, <2>2
<1>7. MeantBy(found) = [n \in Names |-> MeantBy(found)[n]]
  BY DEF MeantBy
<1>8. MeantBy(found) \in [Names -> Meanings]
  BY <1>6, <1>7
<1>9. ASSUME NEW n \in Names, found[n] # NoFile
      PROVE  /\ MeantBy(found)[n].no \in Int
             /\ MeantBy(found)[n].status \in Configured
             /\ \E name \in Names, proxy \in ProxyConfs :
                   found[n] = render_domain_config(
                      DomainInfo(MeantBy(found)[n].no, name, MeantBy(found)[n].status),
                      proxy)
  <2>1. PICK f \in Files(live) : MeantBy(found)[n] = meant[f] /\ found[n] = live[f]
    BY <1>5, <1>9
  <2>2. f \in Names /\ live[f] # NoFile
    BY DEF Files
  <2>3. /\ meant[f].no \in Int /\ meant[f].status \in Configured
        /\ \E name \in Names, proxy \in ProxyConfs :
              live[f] = render_domain_config(
                           DomainInfo(meant[f].no, name, meant[f].status), proxy)
    BY <2>2 DEF Truthful, Agree
  <2> QED  BY <2>1, <2>3
<1> QED  BY <1>3, <1>8, <1>9 DEF Agree

-----------------------------------------------------------------------------
(* Types, and that what is meant is what is live.                           *)

\* What a sync has done with what it found.
SyncFrom(found) ==
    /\ live' = StagedTree(RenderedDesired, Diff(found), found)
    /\ meant' = [n \in Names |->
          IF n \in NamesAt(desired, Diff(found).to_update)
            THEN Meaning(LastInfo(Diff(found).to_update, n))
          ELSE IF n \in NamesAt(desired, Diff(found).to_add)
            THEN Meaning(LastInfo(Diff(found).to_add, n))
          ELSE IF live'[n] = NoFile THEN NoRecord ELSE MeantBy(found)[n]]

\* A sync stages one of the things there are to find.
LEMMA SyncFinds ==
    ASSUME TypeOK, Sync
    PROVE  /\ \E found \in read_live_configs(live, {}) :
                 found \in ManagedTrees /\ SyncFrom(found)
           /\ records' = records /\ proxy_conf' = proxy_conf
<1>1. live \in Dirs
  BY AllMarked DEF TypeOK
<1>2. \E found \in read_live_configs(live, {}) : SyncFrom(found)
  BY DEF Sync, SyncFrom
<1> QED  BY <1>1, <1>2, ReadsOfMarked DEF Sync

\* What a sync writes and what it means by it, name by name.
LEMMA SyncWrites ==
    ASSUME TypeOK, NEW found \in ManagedTrees, SyncFrom(found), NEW n \in Names
    PROVE  \/ \E i \in DOMAIN desired :
                 /\ live'[n] = render_domain_config(desired[i], proxy_conf)
                 /\ meant'[n] = Meaning(desired[i])
           \/ live'[n] = NoFile /\ meant'[n] = NoRecord
           \/ live'[n] # NoFile /\ live'[n] = found[n] /\ meant'[n] = MeantBy(found)[n]
<1> DEFINE diff == Diff(found)
           update == NamesAt(desired, diff.to_update)
           add == NamesAt(desired, diff.to_add)
<1>1. diff.to_add \in SUBSET DOMAIN desired /\ diff.to_update \in SUBSET DOMAIN desired
  BY SyncStages
<1>2. /\ NamesAt(RenderedDesired, diff.to_update) = update
      /\ NamesAt(RenderedDesired, diff.to_add) = add
  BY <1>1, SameNames
<1>3. live'[n] = IF n \in update THEN LastBody(RenderedDesired, diff.to_update, n)
                 ELSE IF n \in add THEN LastBody(RenderedDesired, diff.to_add, n)
                 ELSE IF n \in preserved_names(RenderedDesired, diff, found)
                   THEN found[n]
                 ELSE NoFile
  BY <1>2 DEF StagedTree, SyncFrom
<1>4. meant'[n] = IF n \in update THEN Meaning(LastInfo(diff.to_update, n))
                  ELSE IF n \in add THEN Meaning(LastInfo(diff.to_add, n))
                  ELSE IF live'[n] = NoFile THEN NoRecord ELSE MeantBy(found)[n]
  BY DEF SyncFrom
<1> HIDE DEF diff
<1>5. CASE n \in update
  BY <1>1, <1>3, <1>4, <1>5, LastInfoIsLast
<1>6. CASE n \notin update /\ n \in add
  BY <1>1, <1>3, <1>4, <1>6, LastInfoIsLast
<1>7. CASE n \notin update /\ n \notin add
  BY <1>3, <1>4, <1>7
<1> QED  BY <1>5, <1>6, <1>7

\* What Up and Add write and mean.
LEMMA PutKeeps ==
    ASSUME TypeOK, NEW tree \in ManagedTrees, NEW meanings \in [Names -> Meanings],
           Agree(tree, meanings), NEW raw \in RawNames, NEW proxy \in ProxyConfs,
           Valid(raw), Put(tree, meanings, NewInfo(raw), proxy)
    PROVE  TypeOK' /\ Truthful'
<1> DEFINE n == ToLower[raw]
           body == render_domain_config(DomainInfo(0, n, "InUse"), proxy)
           meaning == [no |-> 0, status |-> "InUse"]
<1>1. n \in Names
  BY RecordsAssumption DEF Valid, validate_domain_name
<1>2. NewInfo(raw) = DomainInfo(0, n, "InUse") /\ NewInfo(raw).name = n
  BY DEF NewInfo, DomainInfo, validate_domain_name
<1>3. body \in Bodies
  BY <1>1, RenderAssumption
<1>4. Meaning(NewInfo(raw)) = meaning
  BY <1>2 DEF Meaning, DomainInfo
<1>5. live' = [tree EXCEPT ![n] = body] /\ meant' = [meanings EXCEPT ![n] = meaning]
      /\ UNCHANGED <<records, proxy_conf>>
  BY <1>2, <1>4 DEF Put
<1>6. meaning \in Meanings /\ meaning.no = 0 /\ meaning.status = "InUse"
  BY DEF Meanings
<1>7. tree \in [Names -> Bodies \cup {NoFile}]
  BY DEF ManagedTrees
<1>8. \E name \in Names, p \in ProxyConfs :
         body = render_domain_config(DomainInfo(meaning.no, name, meaning.status), p)
  BY <1>1, <1>6
<1> HIDE DEF n, body, meaning
<1>9. live' \in [Names -> Bodies \cup {NoFile}] /\ meant' \in [Names -> Meanings]
  BY <1>1, <1>3, <1>5, <1>6, <1>7
<1>10. TypeOK'
  BY <1>5, <1>9 DEF TypeOK, ManagedTrees, Meanings
<1>11. ASSUME NEW m \in Names, live'[m] # NoFile
       PROVE  /\ meant'[m].no \in Int
              /\ meant'[m].status \in Configured
              /\ \E name \in Names, p \in ProxyConfs :
                    live'[m] = render_domain_config(
                                  DomainInfo(meant'[m].no, name, meant'[m].status), p)
  <2>1. CASE m = n
    <3>1. live'[m] = body /\ meant'[m] = meaning
      BY <1>1, <1>5, <1>7, <2>1
    <3> QED  BY <1>6, <1>8, <3>1 DEF Configured
  <2>2. CASE m # n
    <3>1. live'[m] = tree[m] /\ meant'[m] = meanings[m]
      BY <1>5, <1>7, <2>2
    <3> QED  BY <1>11, <3>1 DEF Agree
  <2> QED  BY <2>1, <2>2
<1> QED  BY <1>10, <1>11 DEF Truthful, Agree

\* What Down and Remove take away.
LEMMA DropKeeps ==
    ASSUME TypeOK, NEW tree \in ManagedTrees, NEW meanings \in [Names -> Meanings],
           Agree(tree, meanings), NEW n \in Names, Drop(tree, meanings, n)
    PROVE  TypeOK' /\ Truthful'
<1>1. live' = [tree EXCEPT ![n] = NoFile] /\ meant' = [meanings EXCEPT ![n] = NoRecord]
      /\ UNCHANGED <<records, proxy_conf>>
  BY DEF Drop
<1>2. tree \in [Names -> Bodies \cup {NoFile}]
  BY DEF ManagedTrees
<1>3. NoRecord \in Meanings
  BY DEF NoRecord, Meanings
<1>4. TypeOK'
  BY <1>1, <1>2, <1>3 DEF TypeOK, ManagedTrees, Meanings
<1>5. ASSUME NEW m \in Names, live'[m] # NoFile
      PROVE  tree[m] # NoFile /\ live'[m] = tree[m] /\ meant'[m] = meanings[m]
  BY <1>1, <1>2, <1>5
<1>6. Truthful'
  BY <1>5 DEF Truthful, Agree
<1> QED  BY <1>4, <1>6

\* Every command keeps the types, and each config together with its meaning.
LEMMA StepKeeps == TypeOK /\ Truthful /\ [Next]_vars => TypeOK' /\ Truthful'
<1> SUFFICES ASSUME TypeOK, Truthful, [Next]_vars PROVE TypeOK' /\ Truthful'
  OBVIOUS
<1>0. live \in ManagedTrees /\ meant \in [Names -> Meanings] /\ Agree(live, meant)
      /\ proxy_conf \in ProxyConfs
  BY DEF TypeOK, Meanings, Truthful
<1>1. CASE Sync
  <2>1. PICK found \in read_live_configs(live, {}) : SyncFrom(found)
    BY <1>1, SyncFinds
  <2>2. /\ found \in ManagedTrees
        /\ MeantBy(found) \in [Names -> Meanings]
        /\ Agree(found, MeantBy(found))
        /\ UNCHANGED <<records, proxy_conf>>
    BY <1>1, FoundAgree, SyncFinds
  <2>3. live' \in ManagedTrees
    BY <2>1, <2>2, SyncStages DEF SyncFrom
  <2>4. \A i \in DOMAIN desired : Meaning(desired[i]) \in Meanings
    BY DesiredShape DEF Meaning, Meanings, Configured
  <2>5. NoRecord \in Meanings
    BY DEF NoRecord, Meanings
  <2>6. ASSUME NEW n \in Names PROVE meant'[n] \in Meanings
    <3>1. \/ \E i \in DOMAIN desired : meant'[n] = Meaning(desired[i])
          \/ meant'[n] = NoRecord
          \/ meant'[n] = MeantBy(found)[n]
      BY <2>1, <2>2, SyncWrites
    <3> QED  BY <2>2, <2>4, <2>5, <3>1
  <2>7. meant' = [n \in Names |-> meant'[n]]
    BY <2>1 DEF SyncFrom
  <2>8. TypeOK'
    BY <2>2, <2>3, <2>6, <2>7 DEF TypeOK, Meanings
  <2>9. ASSUME NEW n \in Names, live'[n] # NoFile
        PROVE  /\ meant'[n].no \in Int
               /\ meant'[n].status \in Configured
               /\ \E name \in Names, proxy \in ProxyConfs :
                     live'[n] = render_domain_config(
                                   DomainInfo(meant'[n].no, name, meant'[n].status), proxy)
    <3>1. \/ \E i \in DOMAIN desired :
                 /\ live'[n] = render_domain_config(desired[i], proxy_conf)
                 /\ meant'[n] = Meaning(desired[i])
          \/ live'[n] = found[n] /\ meant'[n] = MeantBy(found)[n]
      BY <2>1, <2>2, <2>9, SyncWrites
    <3>2. CASE \E i \in DOMAIN desired :
                 /\ live'[n] = render_domain_config(desired[i], proxy_conf)
                 /\ meant'[n] = Meaning(desired[i])
      <4>1. PICK i \in DOMAIN desired :
                 /\ live'[n] = render_domain_config(desired[i], proxy_conf)
                 /\ meant'[n] = Meaning(desired[i])
        BY <3>2
      <4>2. /\ desired[i].name \in Names /\ desired[i].no \in Int
            /\ desired[i].status \in Configured /\ desired[i] = InfoOf(records[i])
        BY DesiredShape
      <4>3. desired[i] = DomainInfo(desired[i].no, desired[i].name, desired[i].status)
        BY <4>2 DEF InfoOf, DomainInfo
      <4>4. meant'[n].no = desired[i].no /\ meant'[n].status = desired[i].status
        BY <4>1 DEF Meaning
      <4>5. live'[n] = render_domain_config(
               DomainInfo(meant'[n].no, desired[i].name, meant'[n].status), proxy_conf)
        BY <4>1, <4>3, <4>4
      <4> QED  BY <1>0, <4>2, <4>4, <4>5
    <3>3. CASE live'[n] = found[n] /\ meant'[n] = MeantBy(found)[n]
      BY <2>2, <2>9, <3>3 DEF Agree
    <3> QED  BY <3>1, <3>2, <3>3
  <2> QED  BY <2>8, <2>9 DEF Truthful, Agree
<1>2. ASSUME NEW raw \in RawNames, Up(raw) PROVE TypeOK' /\ Truthful'
  <2>1. PICK found \in read_live_configs(live, {}) :
           Put(found, MeantBy(found), NewInfo(raw), proxy_conf)
    BY <1>2 DEF Up
  <2>2. Valid(raw)
    BY <1>2 DEF Up
  <2> QED  BY <1>0, <2>1, <2>2, FoundAgree, PutKeeps
<1>3. ASSUME NEW raw \in RawNames, NEW proxy \in ProxyConfs, Add(raw, proxy)
      PROVE  TypeOK' /\ Truthful'
  BY <1>0, <1>3, PutKeeps DEF Add
<1>4. ASSUME NEW raw \in RawNames, Valid(raw) PROVE ToLower[raw] \in Names
  BY <1>4, RecordsAssumption DEF Valid, validate_domain_name
<1>5. ASSUME NEW raw \in RawNames, Down(raw) PROVE TypeOK' /\ Truthful'
  <2>1. PICK found \in read_live_configs(live, {}) :
           Drop(found, MeantBy(found), ToLower[raw])
    BY <1>5 DEF Down, validate_domain_name
  <2>2. ToLower[raw] \in Names
    BY <1>4, <1>5 DEF Down
  <2> QED  BY <2>1, <2>2, FoundAgree, DropKeeps
<1>6. ASSUME NEW raw \in RawNames, Remove(raw) PROVE TypeOK' /\ Truthful'
  <2>1. Drop(live, meant, ToLower[raw]) /\ ToLower[raw] \in Names
    BY <1>4, <1>6 DEF Remove, validate_domain_name
  <2> QED  BY <1>0, <2>1, DropKeeps
<1>7. CASE NewRecords
  BY <1>7 DEF NewRecords, TypeOK, Truthful, Agree
<1>8. CASE NewProxyConf
  BY <1>8 DEF NewProxyConf, TypeOK, Truthful, Agree
<1>9. CASE UNCHANGED vars
  BY <1>9 DEF vars, TypeOK, Truthful, Agree
<1> QED  BY <1>1, <1>2, <1>3, <1>5, <1>6, <1>7, <1>8, <1>9 DEF Next

\* Both hold of every reachable state.
LEMMA KeptAlways == Spec => [](TypeOK /\ Truthful)
<1>1. Init => TypeOK /\ Truthful
  BY DEF Init, TypeOK, Truthful, Agree, EmptyTree, ManagedTrees, NoRecord
<1> QED  BY <1>1, StepKeeps, PTL DEF Spec

\* Whatever records, spellings and commands there are, live holds nothing but
\* rendered configs.
THEOREM TypeCorrect == Spec => []TypeOK
  BY KeptAlways, PTL

\* What list prints of a domain is what the last command that wrote its config
\* meant: the number and the status are found again in the text, and no command
\* loses them, not even where a config is found under another name.
THEOREM ListTruthfulAlways == Spec => []ListTruthful
<1>1. ASSUME TypeOK, Truthful PROVE ListTruthful
  <2>1. ASSUME NEW found \in read_live_configs(live, {}), NEW n \in Files(found)
        PROVE  LET info == Listed(n, found[n])
               IN  /\ info.no = MeantBy(found)[info.name].no
                   /\ info.status = MeantBy(found)[info.name].status
    <3> DEFINE meaning == MeantBy(found)[n]
    <3>1. n \in Names /\ found[n] # NoFile
      BY DEF Files
    <3>2. Agree(found, MeantBy(found))
      BY <1>1, FoundAgree
    <3>3. /\ meaning.no \in Int /\ meaning.status \in Configured
          /\ \E name \in Names, proxy \in ProxyConfs :
                found[n] = render_domain_config(
                              DomainInfo(meaning.no, name, meaning.status), proxy)
      BY <3>1, <3>2 DEF Agree
    <3> HIDE DEF meaning
    <3>4. parse_config_header(found[n]) = [no |-> meaning.no, status |-> meaning.status]
      BY <3>3, HeaderReadBack
    <3>5. Listed(n, found[n]) = DomainInfo(meaning.no, n, meaning.status)
      BY <3>4 DEF Listed
    <3> QED  BY <3>5 DEF DomainInfo, meaning
  <2> QED  BY <2>1 DEF ListTruthful, list
<1> QED  BY <1>1, KeptAlways, PTL

-----------------------------------------------------------------------------
(* What a sync leaves behind.                                               *)

\* A desired domain has a config after a sync.
LEMMA SyncKeepsRecorded ==
    ASSUME TypeOK, Sync, NEW n \in desired_names(desired)
    PROVE  n \in Names /\ live'[n] # NoFile
<1>1. n \in Names
  BY SameNames
<1>2. PICK found \in ManagedTrees : SyncFrom(found)
  BY SyncFinds
<1> DEFINE diff == Diff(found)
<1>3. PICK i \in DOMAIN desired : desired[i].name = n
  BY DEF desired_names, NamesAt
<1>4. /\ DOMAIN RenderedDesired = DOMAIN desired
      /\ RenderedDesired[i].name = n
      /\ IsList(RenderedDesired)
  BY <1>3, DesiredShape
<1>5. n \notin Files(found) => i \in diff.to_add
  <2>1. diff.to_add = {k \in DOMAIN RenderedDesired :
                         [m \in Names |-> TRUE][RenderedDesired[k].name]}
                      \ {k \in DOMAIN RenderedDesired : RenderedDesired[k].name \in Files(found)}
    BY DEF Diff, compute_diff
  <2> HIDE DEF diff
  <2> QED  BY <1>1, <1>3, <1>4, <2>1
<1>6. /\ diff \in DiffResults /\ Fits(diff, RenderedDesired)
      /\ diff.to_remove \subseteq Files(found) \ desired_names(desired)
      /\ live' = StagedTree(RenderedDesired, diff, found)
  BY <1>2, SyncStages DEF SyncFrom
<1> HIDE DEF diff
<1>7. \/ n \in NamesAt(RenderedDesired, diff.to_add \cup diff.to_update)
      \/ n \in Files(found) \ diff.to_remove
  <2>1. CASE n \in Files(found)
    BY <1>6, <2>1
  <2>2. CASE n \notin Files(found)
    BY <1>4, <1>5, <2>2 DEF NamesAt
  <2> QED  BY <2>1, <2>2
<1>8. n \in Files(StagedTree(RenderedDesired, diff, found))
  BY <1>1, <1>2, <1>4, <1>6, <1>7, StagedTreeKeeps
<1> QED  BY <1>1, <1>6, <1>8 DEF Files

\* Every record whose status deserves a config and whose name is well formed
\* has a config after a sync, in whatever spelling and beside whatever damage.
THEOREM RecordedKeptAlways == Spec => RecordedKept
<1> DEFINE Recorded ==
       Sync => \A i \in DOMAIN records :
          /\ from_i32(records[i].status) \in {"InUse", "Standby"}
          /\ ToLower[records[i].name] # 0
          => live'[ToLower[records[i].name]] # NoFile
<1>1. ASSUME TypeOK PROVE Recorded
  <2> SUFFICES ASSUME Sync, NEW i \in DOMAIN records,
                      from_i32(records[i].status) \in {"InUse", "Standby"},
                      ToLower[records[i].name] # 0
               PROVE  live'[ToLower[records[i].name]] # NoFile
    OBVIOUS
  <2>1. Deployable(records[i])
    BY DEF Deployable, should_have_config, validate_domain_name
  <2>2. i \in DOMAIN desired /\ desired[i].name = ToLower[records[i].name]
    BY <1>1, <2>1, DesiredShape DEF InfoOf, DomainInfo, validate_domain_name
  <2>3. ToLower[records[i].name] \in desired_names(desired)
    BY <2>2 DEF desired_names, NamesAt
  <2> QED  BY <1>1, <2>3, SyncKeepsRecorded
<1>2. TypeOK => [Recorded]_vars
  BY <1>1
<1> HIDE DEF Recorded
<1>3. Spec => [][Recorded]_vars
  BY <1>2, TypeCorrect, PTL
<1> QED  BY <1>3 DEF RecordedKept, Recorded

-----------------------------------------------------------------------------
(* The sync after a sync.                                                   *)

\* After a sync of a file that names each domain once, every desired domain
\* has the config it renders to.
LEMMA SyncRenders ==
    ASSUME TypeOK, NEW found \in ManagedTrees, SyncFrom(found), Unique(desired),
           NEW i \in DOMAIN desired
    PROVE  live'[desired[i].name] = render_domain_config(desired[i], proxy_conf)
<1> DEFINE n == desired[i].name
           body == render_domain_config(desired[i], proxy_conf)
           diff == Diff(found)
<1>1. /\ n \in Names /\ DOMAIN RenderedDesired = DOMAIN desired
      /\ RenderedDesired[i].name = n /\ RenderedDesired[i].body = body
  BY DesiredShape
<1>2. live' = StagedTree(RenderedDesired, diff, found)
  BY DEF SyncFrom
<1>3. /\ diff.to_add \in SUBSET DOMAIN desired /\ diff.to_update \in SUBSET DOMAIN desired
      /\ diff.to_remove \subseteq Files(found) \ desired_names(desired)
  BY SyncStages
<1>4. /\ NamesAt(RenderedDesired, diff.to_update) = NamesAt(desired, diff.to_update)
      /\ NamesAt(RenderedDesired, diff.to_add) = NamesAt(desired, diff.to_add)
  BY <1>3, SameNames
<1>5. live'[n] = IF n \in NamesAt(desired, diff.to_update)
                   THEN LastBody(RenderedDesired, diff.to_update, n)
                 ELSE IF n \in NamesAt(desired, diff.to_add)
                   THEN LastBody(RenderedDesired, diff.to_add, n)
                 ELSE IF n \in preserved_names(RenderedDesired, diff, found)
                   THEN found[n]
                 ELSE NoFile
  BY <1>1, <1>2, <1>4 DEF StagedTree
<1>6. /\ diff.to_add = {k \in DOMAIN RenderedDesired :
                          [m \in Names |-> TRUE][RenderedDesired[k].name]}
                       \ {k \in DOMAIN RenderedDesired :
                            RenderedDesired[k].name \in Files(found)}
      /\ i \in DOMAIN RenderedDesired /\ [m \in Names |-> TRUE][RenderedDesired[i].name]
         /\ RenderedDesired[i].name \in Files(found)
         /\ found[RenderedDesired[i].name] # RenderedDesired[i].body
         => i \in diff.to_update
  BY DEF Diff, compute_diff
<1> HIDE DEF diff
<1>7. ASSUME NEW positions \in SUBSET DOMAIN desired, n \in NamesAt(desired, positions)
      PROVE  LastBody(RenderedDesired, positions, n) = body
  <2>1. PICK j \in positions :
           /\ desired[j].name = n
           /\ LastBody(RenderedDesired, positions, n)
                 = render_domain_config(desired[j], proxy_conf)
    BY <1>7, LastInfoIsLast
  <2>2. j = i
    BY <2>1 DEF Unique
  <2> QED  BY <2>1, <2>2
<1>8. ASSUME n \notin NamesAt(desired, diff.to_update), n \notin NamesAt(desired, diff.to_add)
      PROVE  n \in preserved_names(RenderedDesired, diff, found) /\ found[n] = body
  <2>1. i \notin diff.to_update /\ i \notin diff.to_add
    BY <1>8 DEF NamesAt
  <2>2. [m \in Names |-> TRUE][n]
    BY <1>1
  <2>3. n \in Files(found)
    BY <1>1, <1>6, <2>1, <2>2
  <2>4. found[n] = body
    BY <1>1, <1>6, <2>1, <2>2, <2>3
  <2>5. n \in desired_names(desired)
    BY DEF desired_names, NamesAt
  <2> QED  BY <1>3, <1>4, <1>8, <2>3, <2>4, <2>5 DEF preserved_names
<1> QED  BY <1>3, <1>5, <1>7, <1>8

\* When the cap lets all removals through, nothing undesired is left.
LEMMA SyncRemovesAll ==
    ASSUME TypeOK, NEW found \in ManagedTrees, SyncFrom(found),
           Cardinality(Files(found) \ desired_names(desired)) =< MaxRemovals
    PROVE  Files(live') \subseteq desired_names(desired)
<1> DEFINE gone == Files(found) \ desired_names(desired)
           diff == Diff(found)
<1>1. live' = StagedTree(RenderedDesired, diff, found)
  BY DEF SyncFrom
<1>2. diff.to_remove = gone
  <2>1. desired_names(RenderedDesired) = desired_names(desired)
    BY SameNames
  <2>2. diff.to_remove = First(Files(found) \ desired_names(RenderedDesired), MaxRemovals)
    BY DEF Diff, compute_diff, to_remove_of
  <2>3. gone \in SUBSET Names /\ MaxRemovals \in Nat
    BY CapAssumption DEF Files
  <2>4. diff.to_remove = First(gone, MaxRemovals) /\ Cardinality(gone) =< MaxRemovals
    BY <2>1, <2>2
  <2> HIDE DEF gone, diff
  <2> QED  BY <2>3, <2>4, FirstTakesAll
<1>3. /\ diff \in DiffResults /\ Fits(diff, RenderedDesired)
      /\ diff.to_add \in SUBSET DOMAIN desired /\ diff.to_update \in SUBSET DOMAIN desired
      /\ IsList(RenderedDesired)
  BY DesiredShape, SyncStages
<1> HIDE DEF diff
<1>4. NamesAt(RenderedDesired, diff.to_add \cup diff.to_update)
         \subseteq desired_names(desired)
  <2>1. diff.to_add \cup diff.to_update \in SUBSET DOMAIN desired
    BY <1>3
  <2>2. NamesAt(RenderedDesired, diff.to_add \cup diff.to_update)
           = NamesAt(desired, diff.to_add \cup diff.to_update)
    BY <2>1, SameNames
  <2> QED  BY <2>1, <2>2 DEF desired_names, NamesAt
<1>5. ASSUME NEW n \in Names, live'[n] # NoFile PROVE n \in desired_names(desired)
  <2>1. n \in Files(StagedTree(RenderedDesired, diff, found))
    BY <1>1, <1>5 DEF Files
  <2>2. \/ n \in NamesAt(RenderedDesired, diff.to_add \cup diff.to_update)
        \/ n \in Files(found) \ diff.to_remove
    BY <1>3, <2>1, StagedTreeKeeps
  <2> QED  BY <1>2, <1>4, <2>2
<1> QED  BY <1>5 DEF Files

\* Where every desired domain is live as rendered and nothing else is, a diff of
\* what is found touches only names that a domain in .conf stands behind.
LEMMA OnlyUnsettled ==
    ASSUME TypeOK, NEW tree \in ManagedTrees,
           \A i \in DOMAIN desired :
              tree[desired[i].name] = render_domain_config(desired[i], proxy_conf),
           Files(tree) \subseteq desired_names(desired),
           NEW found \in read_live_configs(tree, {})
    PROVE  Touched(found) \subseteq Unsettled
<1> DEFINE d == Diff(found)
<1>1. /\ DOMAIN RenderedDesired = DOMAIN desired
      /\ \A i \in DOMAIN desired :
            /\ RenderedDesired[i].name = desired[i].name
            /\ RenderedDesired[i].body = tree[desired[i].name]
            /\ desired[i].name \in Names
            /\ RenderedDesired[i].body \in Bodies
  BY DesiredShape DEF IsList, DomainInfos
<1>2. \A n \in desired_names(desired) : n \in Names /\ n \in Files(tree)
  BY <1>1, ContentsAssumption DEF Files, desired_names, NamesAt
<1>3. tree \in Dirs /\ Marked(tree) = tree
  BY AllMarked
<1>4. /\ found \in ManagedTrees
      /\ \A n \in Names : n \in Files(found) <=> \E f \in Files(tree) : Trimmed[f] = n
      /\ \A n \in Files(found) :
            \E f \in Files(tree) : Trimmed[f] = n /\ found[n] = tree[f]
  BY <1>3, ReadsOfMarked
<1>5. \A f \in Files(tree) : Trimmed[f] # f => f \in Unsettled /\ Trimmed[f] \in Unsettled
  BY DEF Unsettled
<1>6. \A i \in DOMAIN desired : desired[i].name \notin Unsettled =>
         /\ desired[i].name \in Files(found)
         /\ found[desired[i].name] = RenderedDesired[i].body
  <2> SUFFICES ASSUME NEW i \in DOMAIN desired, desired[i].name \notin Unsettled
               PROVE  /\ desired[i].name \in Files(found)
                      /\ found[desired[i].name] = tree[desired[i].name]
    BY <1>1
  <2> DEFINE n == desired[i].name
  <2>1. n \in Names /\ n \in Files(tree)
    BY <1>2 DEF desired_names, NamesAt
  <2>2. Trimmed[n] = n
    BY <1>5, <2>1
  <2>3. n \in Files(found)
    BY <1>4, <2>1, <2>2
  <2>4. PICK f \in Files(tree) : Trimmed[f] = n /\ found[n] = tree[f]
    BY <1>4, <2>3
  <2>5. f = n
    BY <1>5, <2>4
  <2> QED  BY <2>3, <2>4, <2>5
<1>7. d.to_add \cup d.to_update \subseteq
         {i \in DOMAIN desired : ~ (/\ desired[i].name \in Files(found)
                                    /\ found[desired[i].name] = RenderedDesired[i].body)}
  BY <1>1 DEF Diff, compute_diff
<1>8. d.to_remove \subseteq Files(found) \ desired_names(desired)
  BY <1>4, SyncStages
<1> HIDE DEF d
<1>9. NamesAt(desired, d.to_add \cup d.to_update) \subseteq Unsettled
  BY <1>6, <1>7 DEF NamesAt
<1>10. d.to_remove \subseteq Unsettled
  <2>1. ASSUME NEW n \in Files(found), n \notin desired_names(desired)
        PROVE  n \in Unsettled
    <3>1. PICK f \in Files(tree) : Trimmed[f] = n
      BY <1>4, <2>1
    <3>2. f # n
      BY <2>1, <3>1
    <3> QED  BY <1>5, <3>1, <3>2
  <2> QED  BY <1>8, <2>1
<1> QED  BY <1>9, <1>10 DEF Touched, d

\* A sync that has succeeded leaves nothing to do for the next one, whatever
\* files were live before it, except for desired names in .conf and the names
\* they are found under.  The file must not name a domain twice, and no removal
\* may be deferred.
THEOREM SecondSyncQuietAlways == Spec => SecondSyncQuiet
<1> DEFINE AllFit == \A found \in read_live_configs(live, {}) :
                        Cardinality(Files(found) \ desired_names(desired)) =< MaxRemovals
           Quiet ==
       /\ Sync
       /\ Unique(desired)
       /\ \A found \in read_live_configs(live, {}) :
             Cardinality(Files(found) \ desired_names(desired)) =< MaxRemovals
       => (\A found \in read_live_configs(live, {}) : Touched(found) \subseteq Unsettled)'
<1>1. ASSUME TypeOK PROVE Quiet
  <2> SUFFICES ASSUME Sync, Unique(desired), AllFit
               PROVE  (\A found \in read_live_configs(live, {}) :
                          Touched(found) \subseteq Unsettled)'
    OBVIOUS
  <2>1. PICK found \in read_live_configs(live, {}) :
           found \in ManagedTrees /\ SyncFrom(found)
    BY <1>1, SyncFinds
  <2>2. records' = records /\ proxy_conf' = proxy_conf
    BY <1>1, SyncFinds
  <2>3. live' \in ManagedTrees
    BY <1>1, <2>1, SyncStages DEF SyncFrom
  <2>4. Files(live') \subseteq desired_names(desired)
    BY <1>1, <2>1, SyncRemovesAll
  <2>5. \A i \in DOMAIN desired :
           live'[desired[i].name] = render_domain_config(desired[i], proxy_conf)
    BY <1>1, <2>1, SyncRenders
  <2>6. \A tree \in read_live_configs(live', {}) : Touched(tree) \subseteq Unsettled
    BY <1>1, <2>3, <2>4, <2>5, OnlyUnsettled
  <2>7. desired' = desired
    BY <2>2 DEF desired
  <2>8. RenderedDesired' = RenderedDesired
    BY <2>2, <2>7 DEF RenderedDesired
  <2>9. Unsettled' = Unsettled
    BY <2>7 DEF Unsettled
  <2> QED  BY <2>6, <2>7, <2>8, <2>9 DEF Touched, Diff
<1>2. TypeOK => [Quiet]_vars
  BY <1>1
<1> HIDE DEF Quiet
<1>3. Spec => [][Quiet]_vars
  BY <1>2, TypeCorrect, PTL
<1> QED  BY <1>3 DEF SecondSyncQuiet, Quiet
=============================================================================
