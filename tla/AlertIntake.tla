---------------------------- MODULE AlertIntake ----------------------------
(***************************************************************************)
(* What a runtime alert of Falco, Tetragon, Wazuh or a person is turned    *)
(* into: the events its parser can produce (intel/extractor.py), the       *)
(* indicators and the pattern extracted from them, and the rule drafts     *)
(* made of those (intel/rule_generator.py).  Addresses, names and paths    *)
(* are abstracted to the classes the patterns of the extractor tell apart. *)
(***************************************************************************)
EXTENDS Naturals, Sequences, FiniteSets

Sources == {"falco", "tetragon", "wazuh", "manual"}

\* A target: a private address, another address, a registry, any other host.
Targets == {"none", "internal", "address", "registry", "host"}
Names == {"none", "registry", "external"}

\* ParsedEvent: is a credential path among those read or written, what is
\* connected to and asked of DNS, is a command run, does the text hold a hash.
Events == [source : Sources, reads : BOOLEAN, writes : BOOLEAN, connect : Targets,
           dns : Names, exec : BOOLEAN, hash : BOOLEAN]

\* The branches of evt.type and function_name exclude each other.
OneOperation(e) ==
    Cardinality({k \in 1..3 : CASE k = 1 -> e.reads [] k = 2 -> e.connect # "none"
                                [] k = 3 -> e.exec}) <= 1

\* fd.sip is an address; a DNS name may come with any event.
ParseFalco(e) == OneOperation(e) /\ ~e.writes /\ e.connect \in {"none", "internal", "address"}
ParseTetragon(e) == OneOperation(e) /\ ~e.writes /\ e.dns = "none"
ParseWazuh(e) == ~e.reads /\ e.connect = "none" /\ e.dns = "none" /\ ~e.exec

\* The events parse_event can return for a source.
Parsed(source) ==
    {e \in Events : /\ e.source = source
                    /\ source = "falco" => ParseFalco(e)
                    /\ source = "tetragon" => ParseTetragon(e)
                    /\ source = "wazuh" => ParseWazuh(e)}

----------------------------------------------------------------------------
(* Indicators *)

IocTypes == {"ip", "domain", "path", "sha256", "syscall_chain"}

\* Every indicator an event can show, in the order the extractor looks for them;
\* value says where in the event it comes from.
AllIocs == <<[type |-> "ip", value |-> "target"], [type |-> "domain", value |-> "query"],
             [type |-> "domain", value |-> "target"], [type |-> "path", value |-> "read"],
             [type |-> "path", value |-> "written"], [type |-> "sha256", value |-> "text"],
             [type |-> "syscall_chain", value |-> "cred_read_then_external_connect"]>>

Shows(e, i) ==
    CASE i.type = "ip" -> e.connect = "address"
      [] i.type = "domain" -> IF i.value = "query" THEN e.dns = "external"
                              ELSE e.connect = "host"
      [] i.type = "path" -> IF i.value = "read" THEN e.reads ELSE e.writes
      [] i.type = "sha256" -> e.hash
      [] i.type = "syscall_chain" -> e.reads /\ e.connect = "address"

ExtractIocs(e) == SelectSeq(AllIocs, LAMBDA i : Shows(e, i))

\* Confidence of an indicator, in percent.
confidence == [t \in IocTypes |->
    CASE t = "ip" -> 70 [] t = "domain" -> 75 [] t = "path" -> 65
      [] t \in {"sha256", "syscall_chain"} -> 85]

----------------------------------------------------------------------------
(* Pattern and rule drafts *)

\* external_net of the pattern: an address connected to, or a name asked for.  (A
\* host name connected to counts for the indicators only.)
ExternalNet(e) == e.connect = "address" \/ e.dns = "external"

Dimensions(e) ==
    (IF e.reads \/ e.writes THEN {"INFORMATION_READING"} ELSE {})
    \union (IF ExternalNet(e) THEN {"DATA_TRANSMISSION"} ELSE {})
    \union (IF e.exec THEN {"PAYLOAD_EXECUTION"} ELSE {})

IndicatorCodes(e) ==
    {c \in {"EXF-001", "NET-001", "EXM-008", "EXF-WRITE"} :
        CASE c = "EXF-001" -> e.reads [] c = "NET-001" -> ExternalNet(e)
          [] c = "EXM-008" -> e.exec [] c = "EXF-WRITE" -> e.writes}

AllDrafts == <<"indicator_47", "falco", "sequence_pattern", "agentic_r">>

\* The conditions under which the four generators return a draft.
Drafted(e, kind) ==
    CASE kind = "indicator_47" -> IndicatorCodes(e) # {}
      [] kind = "falco" -> \E n \in 1..Len(ExtractIocs(e)) :
                               ExtractIocs(e)[n].type \in {"ip", "domain", "path"}
      [] kind = "sequence_pattern" -> Cardinality(Dimensions(e)) >= 2
      [] kind = "agentic_r" -> {"INFORMATION_READING", "DATA_TRANSMISSION"} \subseteq Dimensions(e)

GenerateDrafts(e) == SelectSeq(AllDrafts, LAMBDA k : Drafted(e, k))
============================================================================
