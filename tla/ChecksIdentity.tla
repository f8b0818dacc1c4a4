--------------------------- MODULE ChecksIdentity ---------------------------
(***************************************************************************)
(* The checks of group "identity" of service/modeldetect/checks_identity.go*)
(* : questions to the model about itself.  An answer is reduced to what    *)
(* the patterns of patterns.go find in it; nothing is found in the answer  *)
(* of a request that failed.                                               *)
(***************************************************************************)
EXTENDS CheckResults

\* Every question of one request: a failed request concludes nothing.
Asked(o, result) == IF o.reply = "ok" THEN result ELSE Bare("inconclusive", {o.reply})

\* A brand of another vendor makes any answer suspect and caps the score.
Branded(o, clues, key, weight) ==
    Result(IF o.brand THEN "suspicious" ELSE "passed",
           clues \cup If(o.brand, {Clue(key, "wrapper", weight)}), 0, o.brand, {"ok"})

\* Claude Code: claiming to be it speaks for a pool and weighs nothing.
PersonaClaudeCode(o) ==
    Asked(o, Branded(o, If(o.denies /\ ~o.claims /\ ~o.tools, {Clue("cc_denied", "official", 1)}),
                     "foreign_brand_persona", 4))

\* The two questions about Kiro.  A lead is how an answer begins: "yes", "no", "".
KiroSignals(who, spec) ==
    LET disowns == spec.mentions /\ (spec.lead = "no" \/ spec.disowns)
        owns == spec.mentions /\ ~disowns /\ spec.lead \in {"yes", "owning"} /\ ~spec.claimsCC
    IN [yes |-> who.lead = "yes" /\ who.kiro,
        disowns |-> disowns,
        owns |-> owns,
        stamp |-> (who.stamp /\ who.lead # "no") \/ (owns /\ spec.stamp),
        amazonQ |-> ~disowns /\ (who.amazonQ \/ spec.amazonQ)]

PersonaKiro(o) ==
    LET s == KiroSignals(o.who, o.spec)
        hit == s.yes \/ s.stamp \/ s.owns \/ s.amazonQ
        replies == {o.who.reply, o.spec.reply}
    IN IF ~Succeeded(replies) THEN Bare("inconclusive", replies)
       ELSE Result(Finished(~hit, replies),
                   If(s.yes, {Clue("kiro_yes", "kiro", 4)}) \cup
                   If(s.stamp, {Clue("kiro_stamp", "kiro", 3)}) \cup
                   If(s.owns, {Clue("kiro_owns_spec", "kiro", 3)}) \cup
                   If(s.amazonQ, {Clue("amazon_q", "kiro", 2)}) \cup
                   If(s.disowns \/ ~hit, {Clue("kiro_disowned", "info", 0)}),
                   0, FALSE, replies)

\* A path of a workspace only informs; to have none speaks for a plain API.
EnvLeak(o) ==
    Asked(o, Result("passed", If(o.noWorkspace /\ ~o.path, {Clue("no_workspace", "official", 1)}),
                    0, FALSE, {"ok"}))

\* A brand in the system prompt ends the check; the estimate of what was injected
\* into the ping is only diagnosed.
SystemDump(o) ==
    Asked(o, Branded(o, If(o.kiro /\ ~o.brand, {Clue("kiro_prompt_leak", "kiro", 3)}),
                     "foreign_brand_prompt", 5))

ModelMeta(o) ==
    Asked(o, Branded(o,
        If(o.claim = "another", {Clue("model_claim_mismatch", "wrapper", 2)}) \cup
        If(o.cutoff = "another", {Clue("cutoff_mismatch", "wrapper", 2)}) \cup
        If(o.platform = "bedrock", {Clue("self_report_bedrock", "bedrock", 1)}) \cup
        If(o.platform = "vertex", {Clue("self_report_vertex", "vertex", 1)}),
        "foreign_brand_model", 5))

\* Judged by the persona alone.
CallerSystemByPersona(o) ==
    LET obeyed == o.pirate.reply = "ok" /\ o.pirate.obeyed
        replies == {o.pirate.reply, o.needle.reply}
    IN IF ~Succeeded(replies) THEN Bare("inconclusive", replies)
       ELSE Result(Finished(obeyed, replies),
                   If(~obeyed, {Clue("system_overridden", "wrapper", 3)}), 0, FALSE, replies)

\* Does a system prompt of the caller reach the model?  A refusal to repeat the id
\* counts as having seen it only where the persona was obeyed.
CallerSystem(o) ==
    LET obeyed == o.pirate.reply = "ok" /\ o.pirate.obeyed
        repeated == o.needle.reply = "ok" /\ o.needle.text = "id"
        withheld == obeyed /\ o.needle.reply = "ok" /\ o.needle.text = "refusal"
        replies == {o.pirate.reply, o.needle.reply}
    IN IF ~Succeeded(replies) THEN Bare("inconclusive", replies)
       ELSE Result(IF withheld THEN "inconclusive" ELSE Finished(obeyed /\ repeated, replies),
                   If(~obeyed /\ ~repeated, {Clue("system_overridden", "wrapper", 3)}),
                   0, FALSE, replies)

=============================================================================
