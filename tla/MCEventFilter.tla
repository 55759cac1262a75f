---------------------------- MODULE MCEventFilter ----------------------------
(* A small instance of EventFilter: the pods' slice, the container before and  *)
(* after a restart, a cgroup inside it and a container of another pod.         *)
EXTENDS EventFilter

MCScope == <<<<"kubepods.slice", "cri-a1.scope">>, <<"kubepods.slice", "cri-a2.scope">>>>
MCGroups ==
  {<<"kubepods.slice">>, MCScope[1], Append(MCScope[1], "nested"), MCScope[2],
   <<"kubepods.slice", "cri-b.scope">>}
MCRank == [s \in {"kubepods.slice", "cri-a1.scope", "cri-a2.scope", "nested", "cri-b.scope"} |->
             CASE s = "cri-a1.scope" -> 1 [] s = "cri-a2.scope" -> 2 [] s = "cri-b.scope" -> 3
               [] s = "kubepods.slice" -> 4 [] s = "nested" -> 5]
MCMentionedIn == [s \in DOMAIN MCRank |->
                    IF s = "cri-a1.scope" THEN {1} ELSE IF s = "cri-a2.scope" THEN {2} ELSE {}]
==============================================================================
