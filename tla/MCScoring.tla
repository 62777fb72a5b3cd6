------------------------------ MODULE MCScoring -----------------------------
(* The scoring with one tool that waters zones for some minutes.           *)
EXTENDS Scoring

MCSchemas == [water |-> [
  properties |-> [
    minutes |-> [enum |-> {}, integer |-> TRUE, minimum |-> 1, maximum |-> 2],
    zone |-> [enum |-> {<<"string", "beds">>}, integer |-> FALSE, minimum |-> 0, maximum |-> 0]],
  required |-> {"minutes", "zone"}]]

Asked == [minutes |-> <<"integer", 1>>, zone |-> <<"string", "beds">>]
MCToolCases == <<[expects |-> "water", within |-> FALSE, args |-> Asked],
                 [expects |-> "water", within |-> TRUE, args |-> <<>>],
                 [expects |-> None, within |-> FALSE, args |-> <<>>]>>
MCGroundingCases == <<[refusal |-> FALSE, any |-> FALSE, wanted |-> {"205"}, wrong |-> {"118"}],
                      [refusal |-> TRUE, any |-> FALSE, wanted |-> {}, wrong |-> {}]>>
MCClassifierCases == <<[expects |-> "action"]>>

Plain == [reasons |-> "no", finish |-> "stop"]
Spoilt == {Plain, [Plain EXCEPT !.finish = "length"], [Plain EXCEPT !.reasons = "field"]}

\* Minutes at and across the bounds, and of another type; zones in and out of the enum.
Minutes == {<<"integer", n>> : n \in 0..3} \cup {<<"boolean", TRUE>>}
Zones == {<<"string", "beds">>, <<"string", "barn">>}
Args == {[minutes |-> n, zone |-> z] : n \in Minutes, z \in Zones}
        \cup {[minutes |-> <<"integer", 1>>], <<>>}
        \cup {[minutes |-> <<"integer", 1>>, zone |-> <<"string", "beds">>,
               depth |-> <<"integer", 1>>]}
ToolCalls == {None, Odd}
         \cup {[name |-> "water", parses |-> TRUE, args |-> a] : a \in Args}
         \cup {[name |-> "water", parses |-> FALSE, args |-> <<>>]}
         \cup {[name |-> "heat", parses |-> TRUE, args |-> a] : a \in {<<>>, Asked}}
MCToolReplies ==
  {[call |-> c, reasons |-> "no", finish |-> "stop"] : c \in ToolCalls}
  \cup {[call |-> None, reasons |-> e.reasons, finish |-> e.finish] : e \in Spoilt}
MCGroundingReplies ==
  {[phrases |-> p, reasons |-> "no", finish |-> "stop"] :
     p \in {{}, {"205"}, {"118"}, {"205", "118"}, {"refusal"}, {"205", "refusal"}, Odd}}
  \cup {[phrases |-> {"205"}, reasons |-> "content", finish |-> "length"]}
MCClassifierReplies ==
  {[parsed |-> p, reasons |-> "no", finish |-> "stop"] :
     p \in {"question", "action", "not JSON", "other keys", Odd}}
=============================================================================
