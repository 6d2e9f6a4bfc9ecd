------------------------------- MODULE MCServices -------------------------------
(***************************************************************************)
(* Services on small instances.                                            *)
(***************************************************************************)
EXTENDS Services

CONSTANTS
    f1, f2,             \* public documents of a process
    p1,                 \* a process of the source
    s1                  \* a published snapshot of the company

-----------------------------------------------------------------------------
\* Two documents, one in each dataset of the source, that may hold the same.
MCListing == <<f1, f2>>
MCDatasetOf == f1 :> 1 @@ f2 :> 2

-----------------------------------------------------------------------------
\* A company with one contract, and a process that fits it, with its codes or without
\* them, 48 hours and 17 seconds before it closes; or closes at once and little is known.
MCCompany ==
    s1 :> [words |-> {"via"}, codes |-> {<<72, 10>>},
           experience |-> {[words |-> {"pavimento"}, value |-> 5]}, capacities |-> {},
           has |-> {"financial", "legal", "technical"}, places |-> {"nacional"}]
Facts(words, codes, value, places, closing, documents) ==
    [words |-> words, codes |-> codes, value |-> value, places |-> places, closed |-> FALSE,
     closing |-> closing, missing |-> 0, documents |-> documents]
MCAnnounced ==
    p1 :> {Facts({"obra", "via"}, codes, 4, {"bogota"}, 172817, TRUE) : codes \in {{<<72, 10, 15>>}, {}}}
          \cup {Facts({"obra", "puente", "rio", "paso", "sur", "calle"}, {}, Null, {}, 20, FALSE)}

\* A request searches twice, the second time for what is not there, or asks for results that
\* are kept.
MCQueries == {<<{p1}, {}>>, <<>>}

Rules == INSTANCE OpportunityRules

\* Releases with the policy of the repository, of which one has no synonyms, and with another
\* policy, that asks for more before anything is reviewed first.
Terms(synonyms) == [stopwords |-> {"calle"}, synonyms |-> synonyms]
MCPolicies ==
    <<[raw |-> Rules!V1, terms |-> Terms("obra" :> {"pavimento"})],
      [raw |-> Rules!V1, terms |-> Terms(<<>>)],
      [raw |-> [Rules!V1 EXCEPT !.thresholds.reviewFirst = 100], terms |-> Terms("obra" :> {"pavimento"})]>>

-----------------------------------------------------------------------------
\* A company that lacks a legal registration: records that a link marks supported, and a
\* part of a person, that it does not; links to what the document says, and to other words.
MCCitations == {<<"segment", "PRIMARY">>, <<"segment", "CONFLICTING">>, <<"other words", "PRIMARY">>}

\* Every release is built under the tag that compose gives by default.
DefaultTag == [r \in Releases |-> "restricted"]

-----------------------------------------------------------------------------
\* What is at rest starts from one of its initial states.
MCInit ==
    /\ AllInit
    /\ part # "documents" => extSource.closing = Null /\ extSource.content = [d \in {f1, f2} |-> "a"]
    /\ oppNow = 0 /\ oppSource[p1].codes # {}

MCSpec == MCInit /\ [][AllNext]_allVars

=============================================================================
