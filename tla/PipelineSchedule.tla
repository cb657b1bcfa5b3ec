-------------------------- MODULE PipelineSchedule --------------------------
(***************************************************************************)
(* The stage graph of a query: src/src/parallel/pipeline_schedule.cpp       *)
(* turns the meta-pipelines of a physical plan into stages, one Event per   *)
(* stage, and the dependencies between them.                                *)
(*                                                                         *)
(* A plan is a record                                                      *)
(*   pipelines  the pipelines, numbered in the order they were created      *)
(*   base       the base pipeline of the meta-pipeline a pipeline is in     *)
(*   own        pipelines (not base ones) with a finish event of their own  *)
(*   group      the pipeline whose finish event a pipeline joins, or 0      *)
(*   deps       pipelines whose sink must be complete before it runs        *)
(*   dataflow   pipelines that only have to be initialized before it runs   *)
(*   intra      pipelines of its meta-pipeline that must run before it      *)
(*   build      for the base of a JOIN_BUILD meta-pipeline the base of its  *)
(*              parent meta-pipeline, 0 for every other pipeline            *)
(*   threads    the number of tasks of its execute stage                    *)
(*   inserts    pipelines whose sink may add an event when it finalizes     *)
(*   async      pipelines with an operator that may block                   *)
(* External inputs of common table expressions are not modelled.            *)
(***************************************************************************)
EXTENDS Integers, FiniteSets

\* What the meta-pipelines of a physical plan always are: the pipelines a
\* pipeline refers to belong to the plan, a finish group is that of a pipeline
\* with a finish event of its own, and join builds are base pipelines.
IsPlan(plan) ==
    LET P == plan.pipelines
    IN  /\ IsFiniteSet(P) /\ P = 1..Cardinality(P)
        /\ plan.base \in [P -> P] /\ \A p \in P : plan.base[plan.base[p]] = plan.base[p]
        /\ plan.own \subseteq {p \in P : plan.base[p] # p}
        /\ plan.group \in [P -> P \cup {0}]
        /\ \A p \in P : plan.group[p] # 0 =>
             LET g == plan.group[p]
             IN  g \in plan.own /\ plan.group[g] = 0 /\ plan.base[g] = plan.base[p]
        /\ plan.deps \in [P -> SUBSET P] /\ plan.dataflow \in [P -> SUBSET P]
        /\ plan.intra \in [P -> SUBSET P]
        /\ plan.build \in [P -> P \cup {0}]
        /\ \A p \in P : plan.build[p] # 0 => plan.base[p] = p
        /\ plan.inserts \subseteq P /\ plan.async \subseteq P

\* The stage of a pipeline that one Event carries out.
Stage(p, type) == <<p, type>>

BasePipelines(plan) == {p \in plan.pipelines : plan.base[p] = p}

\* The pipeline whose prepare_finish and finish stages pipeline p uses.
FinishOwner(plan, p) ==
    IF plan.base[p] = p \/ (plan.group[p] = 0 /\ p \in plan.own) THEN p
    ELSE IF plan.group[p] # 0 THEN plan.group[p] ELSE plan.base[p]

\* PipelineScheduleStageStack: the stages that stand for pipeline p.
StageStack(plan, p) ==
    [initialize     |-> Stage(plan.base[p], "initialize"),
     execute        |-> Stage(p, "execute"),
     prepare_finish |-> Stage(FinishOwner(plan, p), "prepare_finish"),
     finish         |-> Stage(FinishOwner(plan, p), "finish"),
     complete       |-> Stage(plan.base[p], "complete")]

Stages(plan) ==
    UNION {LET s == StageStack(plan, p)
           IN  {s.initialize, s.execute, s.prepare_finish, s.finish, s.complete} :
           p \in plan.pipelines}

\* AddBasePipeline: <<dependent, dependency>> pairs of a base pipeline.
BaseDependencies(plan, p) ==
    LET s == StageStack(plan, p)
    IN  {<<s.execute, s.initialize>>, <<s.prepare_finish, s.execute>>,
         <<s.finish, s.prepare_finish>>, <<s.complete, s.finish>>}

\* AddMetaPipeline: the dependencies of the other pipelines of a
\* meta-pipeline.  A pipeline of a finish group, or with a finish event of its
\* own, runs after the base pipeline has finished; any other one joins the
\* base pipeline before its finish.
MemberDependencies(plan, p) ==
    LET b == StageStack(plan, plan.base[p])
        s == StageStack(plan, p)
    IN  CASE plan.group[p] # 0 ->
                {<<s.execute, b.finish>>, <<s.prepare_finish, s.execute>>}
          [] plan.group[p] = 0 /\ p \in plan.own ->
                {<<s.execute, b.finish>>, <<s.prepare_finish, s.execute>>,
                 <<s.finish, s.prepare_finish>>, <<b.complete, s.finish>>}
          [] OTHER ->
                {<<s.execute, b.initialize>>, <<b.prepare_finish, s.execute>>}

\* The dependencies between the execute stages of different pipelines.
PipelineDependencies(plan, p) ==
    LET execute == StageStack(plan, p).execute
    IN  {<<execute, StageStack(plan, d).complete>>   : d \in plan.deps[p]}
   \cup {<<execute, StageStack(plan, d).initialize>> : d \in plan.dataflow[p]}
   \cup {<<execute, StageStack(plan, d).execute>>    : d \in plan.intra[p]}

JoinBuilds(plan) == {p \in plan.pipelines : plan.build[p] # 0}

\* Sibling join builds announce their memory to the temporary memory manager
\* (PrepareFinalize) before any of them finalizes.
SiblingDependencies(plan) ==
    UNION {LET s1 == StageStack(plan, c[1])
               s2 == StageStack(plan, c[2])
           IN  {<<s1.prepare_finish, s2.execute>>, <<s1.finish, s2.prepare_finish>>} :
           c \in {x \in JoinBuilds(plan) \X JoinBuilds(plan) :
                    x[1] # x[2] /\ plan.build[x[1]] = plan.build[x[2]]}}

\* BuildPipelineSchedule: all <<dependent, dependency>> pairs.
BuildPipelineSchedule(plan) ==
    (UNION {BaseDependencies(plan, p) : p \in BasePipelines(plan)})
    \cup (UNION {MemberDependencies(plan, p) :
                    p \in plan.pipelines \ BasePipelines(plan)})
    \cup (UNION {PipelineDependencies(plan, p) : p \in plan.pipelines})
    \cup SiblingDependencies(plan)
=============================================================================
