------------------------ MODULE MCActivationJobs ------------------------------
(* Instances of ActivationJobs: two mods, two profiles. *)
EXTENDS ActivationJobs

CONSTANTS a, b, p, q

MCLibrary == <<a, b>>

Ask(mods, mode, profile, batch) ==
    [mods |-> mods, mode |-> mode, profile |-> profile, batch |-> batch]

\* Cards of the Library, a job for one profile, an order list.
MCRequests == {Ask(<<a, b>>, "enable", AnyProfile, FALSE), Ask(<<a>>, "disable", p, FALSE),
               Ask(<<b, a>>, "enable", p, TRUE)}

\* Beside Enable all: a card, an order list, an order list that only places what is on.
MCSweepRequests == {Ask(<<a>>, "disable", AnyProfile, FALSE),
                    Ask(<<b, a>>, "enable", AnyProfile, TRUE),
                    Ask(<<>>, "enable", AnyProfile, TRUE)}

===============================================================================
