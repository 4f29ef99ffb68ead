---------------------------- MODULE MCProvenance ----------------------------
EXTENDS Provenance

AnyAnswer == [w \in AgentRuns |->
                IF w = "asg" THEN {"tool", "send", "submit"}
                ELSE {"tool", "submit", "blocked"}]

=============================================================================
