------------------------------ MODULE MCRecords ------------------------------
(* Three domains, one of them the first with .conf behind it, another one   *)
(* spelled in two ways; and a malformed name.                               *)
EXTENDS Records

R(no, raw, status) == [no |-> no, name |-> raw, status |-> status]

\* B.com, a.com, a.com.conf and b.com, in string order; then a malformed name.
FourNames == 1..4
Spellings == 1..5
Lowered == <<4, 2, 3, 4, 0>>
DotConfOff == <<1, 2, 2, 4>>
TwoProxies == {"default", "other"}

\* What RenderAssumption asks for.
MCBodies ==
    {render_domain_config(DomainInfo(no, n, status), proxy) :
       no \in 0..2, n \in FourNames, status \in {"InUse", "Standby"}, proxy \in TwoProxies}

\* In use and standby; a spelling and a name in .conf; a malformed name beside a
\* good one; statuses without a config and an unknown one; a domain twice in two
\* spellings; a name beside the one that it is trimmed to.
MCRecordFiles ==
    { <<>>,
      <<R(1, 2, 3), R(2, 4, 2)>>,
      <<R(2, 3, 3), R(1, 1, 2)>>,
      <<R(1, 5, 3), R(2, 2, 3)>>,
      <<R(1, 2, 0), R(2, 4, 7)>>,
      <<R(1, 4, 3), R(2, 1, 2)>>,
      <<R(1, 2, 3), R(2, 3, 2)>> }
=============================================================================
