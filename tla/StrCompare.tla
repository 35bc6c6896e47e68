------------------------------ MODULE StrCompare ------------------------------
(* strcmp_by_map, which tests a saved string against a rule of a filter       *)
(* (src/src/common/buffer.h).  BPF cannot compare strings, so the rule is     *)
(* inserted in the hash map str_buf, the string is looked up, and the rule is *)
(* deleted again.  The map is shared by all cpus, while a program is only     *)
(* kept from being preempted on its own: every map access is a step here.     *)
(* Names that ReadArgs has too begin with Compare: the proofs of both stand   *)
(* in one module.                                                             *)
EXTENDS Sequences, Naturals

CONSTANTS Cpu, Char,
          Rule,         \* contents of white and black rules, sequences of Char
          String        \* what the traced program has at the address

ASSUME StrCompareAssumption ==
    /\ Rule \subseteq Seq(Char) /\ Rule # {}
    /\ String \subseteq Seq(Char) /\ String # {}

VARIABLES
    step,       \* [Cpu -> Step]: the access that comes next
    rule,       \* [Cpu -> Rule]: the filter of the opcode
    shown,      \* [Cpu -> String]: the string OP_SAVE_STRING has put in the event
    now,        \* [Cpu -> String]: the content when the address was read again
    matched,    \* [Cpu -> BOOLEAN]: the result
    str_buf,    \* the keys of the map
    rivals      \* history: rules other cpus had between insert and delete meanwhile

compareVars == <<step, rule, shown, now, matched, str_buf, rivals>>

Step == {"idle", "read", "insert", "lookup", "delete", "done"}

\* The cpus that have inserted their rule and not yet deleted it.
Comparing(steps) == {c \in Cpu : steps[c] \in {"lookup", "delete"}}

Others(c) == {rule[d] : d \in Comparing(step) \ {c}}

-----------------------------------------------------------------------------
(* One comparison.                                                           *)

\* The string has been saved; the next opcode is OP_FILTER_STRING with a rule r.
Compare(c, s, r) ==
    /\ step[c] \in {"idle", "done"}
    /\ step' = [step EXCEPT ![c] = "read"]
    /\ rule' = [rule EXCEPT ![c] = r]
    /\ shown' = [shown EXCEPT ![c] = s]
    /\ now' = [now EXCEPT ![c] = s]
    /\ matched' = [matched EXCEPT ![c] = FALSE]
    /\ rivals' = [rivals EXCEPT ![c] = {}]
    /\ UNCHANGED str_buf

\* Bug variant: as if neither length counted the NUL, and with <= for <.
TooShort_equal(s, r) == Len(s) <= Len(r)
\* str_len counts the NUL that ends the saved string, the length of a rule does not.
TooShort(s, r) == Len(s) + 1 < Len(r)

\* A mismatch if the saved string is too short, else the address is read again; another
\* thread of the traced program may have written to it in between, with content s.
ReadAgain(c, s) ==
    /\ step[c] = "read"
    /\ IF TooShort(shown[c], rule[c])
       THEN /\ step' = [step EXCEPT ![c] = "done"]
            /\ UNCHANGED now
       ELSE /\ step' = [step EXCEPT ![c] = "insert"]
            /\ now' = [now EXCEPT ![c] = s]
    /\ UNCHANGED <<rule, shown, matched, str_buf, rivals>>

\* As many bytes as the rule has, zeros behind the end of the string.
Key(s, r) == IF Len(s) < Len(r) THEN s ELSE SubSeq(s, 1, Len(r))

\* Bug variant: the string is inserted and the rule looked up.
Inserted_string(c) == Key(now[c], rule[c])
Inserted(c) == rule[c]

\* The insertion has room: the map holds no more keys than there are cpus (BufIsClean).
Insert(c) ==
    /\ step[c] = "insert"
    /\ step' = [step EXCEPT ![c] = "lookup"]
    /\ str_buf' = str_buf \cup {Inserted(c)}
    /\ rivals' = [d \in Cpu |-> CASE d = c -> Others(c)
                                  [] d # c /\ d \in Comparing(step) -> rivals[d] \cup {rule[c]}
                                  [] OTHER -> rivals[d]]
    /\ UNCHANGED <<rule, shown, now, matched>>

\* Both branches delete the rule next.
Lookup(c) ==
    /\ step[c] = "lookup"
    /\ step' = [step EXCEPT ![c] = "delete"]
    /\ matched' = [matched EXCEPT ![c] = Key(now[c], rule[c]) \in str_buf]
    /\ UNCHANGED <<rule, shown, now, str_buf, rivals>>

\* Bug variant: a mismatch returns without deleting the rule.
Deleted_ifMatched(c) == IF matched[c] THEN {rule[c]} ELSE {}
Deleted(c) == {rule[c]}

Delete(c) ==
    /\ step[c] = "delete"
    /\ step' = [step EXCEPT ![c] = "done"]
    /\ str_buf' = str_buf \ Deleted(c)
    /\ UNCHANGED <<rule, shown, now, matched, rivals>>

-----------------------------------------------------------------------------
CompareInit ==
    /\ step = [c \in Cpu |-> "idle"]
    /\ rule = [c \in Cpu |-> CHOOSE r \in Rule : TRUE]
    /\ shown = [c \in Cpu |-> CHOOSE s \in String : TRUE]
    /\ now = shown
    /\ matched = [c \in Cpu |-> FALSE]
    /\ str_buf = {}
    /\ rivals = [c \in Cpu |-> {}]

CompareNext ==
    \E c \in Cpu :
       \/ \E s \in String, r \in Rule : Compare(c, s, r)
       \/ \E s \in String : ReadAgain(c, s)
       \/ Insert(c)
       \/ Lookup(c)
       \/ Delete(c)

CompareSpec == CompareInit /\ [][CompareNext]_compareVars

-----------------------------------------------------------------------------
(* Properties.                                                               *)

\* Every variable has its type; str_buf holds rules only.
CompareTypeOK ==
    /\ step \in [Cpu -> Step] /\ rule \in [Cpu -> Rule]
    /\ shown \in [Cpu -> String] /\ now \in [Cpu -> String]
    /\ matched \in [Cpu -> BOOLEAN]
    /\ str_buf \subseteq Rule
    /\ rivals \in [Cpu -> SUBSET Rule]

\* A string satisfies a rule if it begins with it.
Satisfies(s, r) == Len(r) <= Len(s) /\ SubSeq(s, 1, Len(r)) = r

\* strcmp_by_map reports a match only for a string that begins with the rule, unless another
\* cpu was comparing with a rule that equals what was read: its entry is found instead.
MatchesAreTrue ==
    \A c \in Cpu :
       step[c] = "done" /\ matched[c] =>
          Satisfies(now[c], rule[c]) \/ Key(now[c], rule[c]) \in rivals[c]

\* It reports a mismatch for a logged string that begins with the rule only if the program
\* has changed it meanwhile, or another cpu that was comparing with the same rule has deleted
\* the entry of this one.
MissesAreTrue ==
    \A c \in Cpu :
       step[c] = "done" /\ ~matched[c] /\ Satisfies(shown[c], rule[c]) =>
          now[c] # shown[c] \/ rule[c] \in rivals[c]

\* Nothing stays behind: a key of str_buf is the rule of a comparison that is under way, so
\* the map of 256 entries cannot fill up and no comparison meets one that is over.
BufIsClean == str_buf \subseteq {rule[c] : c \in Comparing(step)}

=============================================================================
