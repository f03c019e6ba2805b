------------------------------- MODULE Records -------------------------------
(***************************************************************************)
(* From the records a caller writes to the configs that are live, and back *)
(* from the live configs to what `list` prints: domain.rs, renderer.rs and *)
(* the conversions of main.rs.  One step is one whole command, successful; *)
(* how a command gets there, and what can go wrong, is in Commands.        *)
(***************************************************************************)
EXTENDS Differ, Integers

CONSTANTS
    RawNames,      \* domain names as they are typed
    ToLower,       \* the normalised name of each, 0 when it is malformed
    ProxyConfs,    \* paths of proxy configurations
    RecordFiles    \* desired-state files

\* A DesiredDomainRecord, unchecked input; what becomes of its app is left out.
RawRecords == [no : Int, name : RawNames, status : Int]

ASSUME RecordsAssumption ==
    /\ ToLower \in [RawNames -> Names \cup {0}]
    /\ 0 \notin Names
    /\ RecordFiles \subseteq Seq(RawRecords)

VARIABLES
    live,         \* the tree in live_dir
    records,      \* the desired-state file
    proxy_conf,   \* [nginx] proxy_conf of the config file
    meant         \* history: for each live name what its last writer meant by it

vars == <<live, records, proxy_conf, meant>>

-----------------------------------------------------------------------------
(* domain.rs                                                                *)

StatusNames == <<"Pending", "Provisioning", "Standby", "InUse", "Failure">>

from_i32(code) == IF code \in 0..4 THEN StatusNames[code + 1] ELSE "None"

\* A bug to catch: every status there is gets a config.
should_have_config_Any(status) == status # "None"

should_have_config(status) == status \in {"InUse", "Standby"}

\* A bug to catch: the name is checked and not normalised.
validate_domain_name_KeepsCase(raw) == IF ToLower[raw] = 0 THEN 0 ELSE raw

\* The lower-case name, or 0 for an error.
validate_domain_name(raw) == ToLower[raw]

DomainInfo(no, name, status) == [no |-> no, name |-> name, status |-> status]

-----------------------------------------------------------------------------
(* renderer.rs: the text of a config, as far as anything depends on it.  A   *)
(* text is a sequence of lines and a line a sequence of tokens.              *)

Word(w) == [kind |-> "word", text |-> w]
Name(n) == [kind |-> "name", text |-> n]
Number(no) == [kind |-> "number", text |-> no]
Path(p) == [kind |-> "path", text |-> p]

\* # Domain: example.com (No: 42, Status: InUse)
\* The words stand for the literal pieces of the line.
Header(info) ==
    <<Word("Domain"), Name(info.name), Word("open"), Word("No"), Number(info.no),
      Word("comma"), Word("Status"), Word(info.status), Word("close")>>

\* The two templates: only the one for InUse includes the proxy conf.
render_domain_config(info, proxy) ==
    <<<<Word("Managed")>>,
      Header(info),
      IF info.status = "InUse" THEN <<Word("include"), Path(proxy)>>
                               ELSE <<Word("return")>>>>

Rendered(info, proxy) ==
    [name |-> info.name, body |-> render_domain_config(info, proxy)]

\* Bodies has what is rendered for the numbers and statuses there can be.
ASSUME RenderAssumption ==
    \A no \in {0} \cup UNION {{file[i].no : i \in DOMAIN file} : file \in RecordFiles},
       name \in Names, status \in {"InUse", "Standby"}, proxy \in ProxyConfs :
          render_domain_config(DomainInfo(no, name, status), proxy) \in Bodies

-----------------------------------------------------------------------------
(* cmd_sync: the records that become DomainInfos, in their order.           *)

\* Records of an unknown status, of a status without a config, and with a
\* malformed name are skipped.
Deployable(record) ==
    /\ should_have_config(from_i32(record.status))
    /\ validate_domain_name(record.name) # 0

InfoOf(record) ==
    DomainInfo(record.no, validate_domain_name(record.name), from_i32(record.status))

\* Each at the position of its record: only their order counts.
DesiredOf(file) ==
    [i \in {j \in DOMAIN file : Deployable(file[j])} |-> InfoOf(file[i])]

desired == DesiredOf(records)

RenderedDesired == [i \in DOMAIN desired |-> Rendered(desired[i], proxy_conf)]

\* Every domain has a certificate: Reconcile and Commands are about those.
Diff(found) == compute_diff(RenderedDesired, found, [n \in Names |-> TRUE])

NoRecord == [no |-> 0, status |-> "None"]
Meaning(info) == [no |-> info.no, status |-> info.status]

\* What was meant by the configs that were found: the meaning goes with the
\* content, from the file it was read from to the name it is found under.
MeantBy(found) ==
    [n \in Names |->
       IF found[n] = NoFile THEN NoRecord
       ELSE meant[CHOOSE f \in Files(live) : Trimmed[f] = n /\ live[f] = found[n]]]

\* The last of the infos at these positions for n, the one written last.
LastInfo(positions, n) ==
    LET mine == {i \in positions : desired[i].name = n}
    IN  desired[CHOOSE i \in mine : \A j \in mine : j =< i]

Sync ==
    /\ \E found \in read_live_configs(live, {}) :
         LET diff == Diff(found)
         IN  /\ has_changes(diff)
             /\ live' = StagedTree(RenderedDesired, diff, found)
             /\ meant' = [n \in Names |->
                   IF n \in NamesAt(desired, diff.to_update)
                     THEN Meaning(LastInfo(diff.to_update, n))
                   ELSE IF n \in NamesAt(desired, diff.to_add)
                     THEN Meaning(LastInfo(diff.to_add, n))
                   ELSE IF live'[n] = NoFile THEN NoRecord ELSE MeantBy(found)[n]]
    /\ UNCHANGED <<records, proxy_conf>>

-----------------------------------------------------------------------------
(* The commands that name one domain.  `up` and `down` deploy what they have *)
(* read, `add` and `remove` write into the live directory.                  *)

Valid(raw) == validate_domain_name(raw) # 0

\* The config of the domain becomes this one in a tree of configs.
Put(tree, meanings, info, proxy) ==
    /\ live' = [tree EXCEPT ![info.name] = render_domain_config(info, proxy)]
    /\ meant' = [meanings EXCEPT ![info.name] = Meaning(info)]
    /\ UNCHANGED <<records, proxy_conf>>

Drop(tree, meanings, n) ==
    /\ tree[n] # NoFile
    /\ live' = [tree EXCEPT ![n] = NoFile]
    /\ meant' = [meanings EXCEPT ![n] = NoRecord]
    /\ UNCHANGED <<records, proxy_conf>>

NewInfo(raw) == DomainInfo(0, validate_domain_name(raw), "InUse")

\* The proxy conf of the config file, whatever add was given.
Up(raw) ==
    /\ Valid(raw)
    /\ \E found \in read_live_configs(live, {}) :
         Put(found, MeantBy(found), NewInfo(raw), proxy_conf)

Add(raw, proxy) == Valid(raw) /\ Put(live, meant, NewInfo(raw), proxy)

Down(raw) ==
    /\ Valid(raw)
    /\ \E found \in read_live_configs(live, {}) :
         Drop(found, MeantBy(found), validate_domain_name(raw))

Remove(raw) == Valid(raw) /\ Drop(live, meant, validate_domain_name(raw))

\* The caller writes another file; the operator changes proxy_conf.
NewRecords ==
    /\ records' \in RecordFiles
    /\ UNCHANGED <<live, proxy_conf, meant>>

NewProxyConf ==
    /\ proxy_conf' \in ProxyConfs
    /\ UNCHANGED <<live, records, meant>>

Init ==
    /\ live = EmptyTree
    /\ records \in RecordFiles
    /\ proxy_conf \in ProxyConfs
    /\ meant = [n \in Names |-> NoRecord]

Next ==
    \/ Sync
    \/ \E raw \in RawNames :
         \/ Up(raw) \/ Down(raw) \/ Remove(raw)
         \/ \E proxy \in ProxyConfs : Add(raw, proxy)
    \/ NewRecords \/ NewProxyConf

Spec == Init /\ [][Next]_vars

-----------------------------------------------------------------------------
(* cmd_list: the metadata comes from the header comment of each config.      *)

IsWord(token, w) == token.kind = "word" /\ token.text = w

\* `find`: the first place of a word in a line, at or after `from`; 0 if none.
Find(line, w, from) ==
    LET places == {i \in DOMAIN line : i >= from /\ IsWord(line[i], w)}
    IN  IF places = {} THEN 0 ELSE CHOOSE i \in places : \A j \in places : i =< j

\* The place of this label behind the first parenthesis of a line, 0 if it is not there.
Label(line, label) ==
    LET paren == Find(line, "open", 1)
    IN  IF paren = 0 THEN 0 ELSE Find(line, label, paren)

\* What stands between "No: " and the next comma, when it parses as a number.
NumbersIn(line) ==
    {line[i].text : i \in {j \in DOMAIN line :
        /\ j > 1 /\ j - 1 = Label(line, "No")
        /\ line[j].kind = "number"
        /\ j + 1 \in DOMAIN line /\ IsWord(line[j + 1], "comma")}}

\* The status that this part of a line names; any other text counts as InUse.
StatusNamed(line, part) ==
    IF \E i \in part, k \in DOMAIN StatusNames :
          part = {i} /\ IsWord(line[i], StatusNames[k])
      THEN line[CHOOSE i \in part : TRUE].text
      ELSE "InUse"

\* A bug to catch: the closing parenthesis is not trimmed.
StatusesIn_Untrimmed(line) ==
    LET start == Label(line, "Status")
    IN  IF start = 0 THEN {}
        ELSE {StatusNamed(line, {i \in DOMAIN line : i > start})}

\* What stands after "Status: ", without the closing parentheses at its end.
StatusesIn(line) ==
    LET start == Label(line, "Status")
        rest == {i \in DOMAIN line : i > start}
        trimmed == {i \in rest : \E j \in rest : j >= i /\ ~IsWord(line[j], "close")}
    IN  IF start = 0 THEN {} ELSE {StatusNamed(line, trimmed)}

\* Every header line overrides what an earlier one has said; without any the
\* number is 0 and the status InUse.
parse_config_header(text) ==
    LET headers == {k \in DOMAIN text :
                      text[k] # <<>> /\ IsWord(text[k][1], "Domain")}
        numbered == {k \in headers : NumbersIn(text[k]) # {}}
        stated == {k \in headers : StatusesIn(text[k]) # {}}
        last(lines) == text[CHOOSE k \in lines : \A j \in lines : j =< k]
    IN  [no     |-> IF numbered = {} THEN 0
                    ELSE CHOOSE no \in NumbersIn(last(numbered)) : TRUE,
         status |-> IF stated = {} THEN "InUse"
                    ELSE CHOOSE status \in StatusesIn(last(stated)) : TRUE]

Listed(n, text) ==
    LET header == parse_config_header(text)
    IN  DomainInfo(header.no, n, header.status)

list(found) == {Listed(n, found[n]) : n \in Files(found)}

-----------------------------------------------------------------------------
TypeOK ==
    /\ live \in ManagedTrees
    /\ records \in RecordFiles
    /\ proxy_conf \in ProxyConfs
    /\ meant \in [Names -> [no : Int, status : {"InUse", "Standby", "None"}]]

Unique(infos) == \A i, j \in DOMAIN infos : infos[i].name = infos[j].name => i = j

\* A desired name that ends in .conf comes back from its file name without it:
\* it is not found again, and the shorter name is found in its place.
Unsettled == UNION {{n, Trimmed[n]} : n \in {m \in desired_names(desired) : Trimmed[m] # m}}

\* The names that a sync would write or remove if it found this.
Touched(found) ==
    LET diff == Diff(found)
    IN  NamesAt(desired, diff.to_add \cup diff.to_update) \cup diff.to_remove

\* A sync that has succeeded leaves nothing to do for the next one, whatever
\* files were live before: what is rendered, written under the domain's name and
\* read back compares equal.  Only desired names in .conf, and the names that
\* they are found under, are written and removed again by every sync.  The file
\* must not name a domain twice, and no removal may be deferred by the cap.
SecondSyncQuiet ==
    [][/\ Sync
       /\ Unique(desired)
       /\ \A found \in read_live_configs(live, {}) :
             Cardinality(Files(found) \ desired_names(desired)) =< MaxRemovals
       => (\A found \in read_live_configs(live, {}) : Touched(found) \subseteq Unsettled)']_vars

\* After a sync every domain with a record in a status that deserves a config
\* has one, however its name is spelled and whatever other records are skipped:
\* it is neither left out nor removed as undesired.
RecordedKept ==
    [][Sync => \A i \in DOMAIN records :
          /\ from_i32(records[i].status) \in {"InUse", "Standby"}
          /\ ToLower[records[i].name] # 0
          => live'[ToLower[records[i].name]] # NoFile]_vars

\* What list prints of a config's number and status is what the last command
\* that wrote it meant, through rendering, carrying forward and the search for
\* the header comment in the text.
ListTruthful ==
    \A found \in read_live_configs(live, {}) : \A info \in list(found) :
       /\ info.no = MeantBy(found)[info.name].no
       /\ info.status = MeantBy(found)[info.name].status
=============================================================================
