---------------------------- MODULE MCDatasetOps ----------------------------
(* Instances of DatasetOps: two recorded datasets, merged or reworded into a *)
(* third name, while one of them is deleted, recorded into or edited.        *)
EXTENDS DatasetOps

Episode(task, data1) == [task |-> task, data |-> data1]

MCRecorded ==
    [a |-> [eps |-> <<Episode("pick", "a1"), Episode("place", "a2")>>, settings |-> "so101", ok |-> TRUE, copy |-> FALSE],
     b |-> [eps |-> <<Episode("pick", "b1")>>, settings |-> "so101", ok |-> TRUE, copy |-> FALSE]]

MCRequests ==
    {[kind |-> "merge", sources |-> <<"a", "b">>, name |-> "c", map |-> <<>>],
     [kind |-> "edit", sources |-> <<"a">>, name |-> "c",
      map |-> [pick |-> "grab", place |-> "put"]]}

=============================================================================
