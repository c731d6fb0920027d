------------------------- MODULE MCContainerRunner -------------------------
(***************************************************************************)
(* A few launches: with overrides, with an environment variable that is    *)
(* set twice, with a name the verifier does not accept, without an image   *)
(* ID; hardened and debug images, every restart policy, GCA and ITA.       *)
(***************************************************************************)
EXTENDS ContainerRunner

MCBase ==
    [imageRef |-> "ref", digest |-> "digest", imageId |-> "id", restartPolicy |-> "Never",
     args |-> <<"cmd">>, env |-> <<>>, overArgs |-> <<>>, overEnv |-> <<>>,
     monitoring |-> "None", healthExperiment |-> FALSE, hardened |-> TRUE, ita |-> FALSE]

MCLaunches ==
    {[MCBase EXCEPT !.restartPolicy = "Always",
                    !.env = <<<<"A", "1">>, <<"B", "1">>, <<"A", "2">>>>,
                    !.overEnv = <<<<"A", "2">>>>, !.overArgs = <<"cmd">>],
     [MCBase EXCEPT !.restartPolicy = "OnFailure", !.monitoring = "MemoryOnly",
                    !.imageId = Unset],
     [MCBase EXCEPT !.env = <<<<"no-name", "1">>>>],
     [MCBase EXCEPT !.hardened = FALSE, !.ita = TRUE, !.restartPolicy = "Always"]}

MCBanks == <<"SHA1", "SHA256">>
MCNames == {"A", "B"}
=============================================================================
