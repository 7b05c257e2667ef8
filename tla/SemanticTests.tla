---------------------------- MODULE SemanticTests ----------------------------
(***************************************************************************)
(* The test generators for Kubernetes types and for properties with names  *)
(* that mean something (acto/input/test_generators/{pod, resource,         *)
(* service, stateful_set, storage, cron_job, deployment}.py).  A generator *)
(* names what it matches, the schema class its function is annotated with, *)
(* and its test cases, whose schema is filled in when it is called.  A     *)
(* document the operator is given is an atom where only its identity       *)
(* matters.                                                                *)
(***************************************************************************)
EXTENDS TestCases

NoName == ""
AnyClass == "base"
Generator(k8s, property, type, takes, tests) ==
  [k8s |-> k8s, property |-> property, type |-> type, takes |-> takes, tests |-> tests]
OfK8s(name, takes, tests) == Generator(name, NoName, NoName, takes, tests)
OfProperty(name, takes, tests) == Generator(NoName, name, NoName, takes, tests)

Semantic(name, when, to, setup) == TestCase(name, when, to, setup, None, {"semantic"})
Misoperation(name, to, setup) ==
  TestCase(name, <<"always">>, to, setup, None, {"semantic", "invalid"})
Plain(name, when, to, setup) == TestCase(name, when, to, setup, None, {})

Is(v) == <<"is", v>>
Not(v) == <<"not", v>>
Always == <<"always">>
Doc(key, v) == Obj([k \in {key} |-> v])
Doc2(key, v, key2, w) == Obj([k \in {key, key2} |-> IF k = key THEN v ELSE w])
Typed(v) == Doc("type", Str(v))
Limits(resource, n) == Doc("limits", Doc(resource, Num(n)))
Request(resource, n) == Doc("request", Doc(resource, Num(n)))

-----------------------------------------------------------------------------
(* pod.py *)

OneNode == Member(Doc("podAffinity", Obj(Empty)))
DifferentNodes == Member(Doc("podAntiAffinity", Obj(Empty)))

\* The value a test of affinity compares with is the member, not what it holds.
AffinityTests == <<
  Semantic("k8s-all_on_one_node", Not(OneNode), Is(OneNode), Is(None)),
  Semantic("k8s-all_on_different_nodes", Not(DifferentNodes), Is(DifferentNodes), Is(None)),
  TestCase("k8s-invalid_affinity", Not(DifferentNodes), Is(DifferentNodes), Is(None), None,
           {"semantic", "invalid"}),
  Semantic("k8s-null_affinity", <<"some">>, Is(None), Is(DifferentNodes)) >>

RunAs(n) == Member(Doc2("runAsGroup", Num(n), "runAsUser", Num(n)))

PodSecurityContextTests == <<
  TestCase("k8s-bad_security_context", Not(RunAs(500)), Is(RunAs(500)), Is(None), None,
           {"semantic", "invalid"}),
  Semantic("k8s-root_security_context", Not(RunAs(0)), Is(RunAs(0)), Is(None)),
  Semantic("k8s-normal_security_context", Not(RunAs(1000)), Is(RunAs(1000)), Is(None)) >>

Toleration(key, operator, effect) ==
  Member(Obj([k \in {"key", "operator", "effect"} |->
    Str(CASE k = "key" -> key [] k = "operator" -> operator [] k = "effect" -> effect)]))
PlainToleration == Toleration("test-key", "Equal", "NoExecute")
ControlPlane == Toleration("node-role.kubernetes.io/control-plane", "Exists", "NoExecute")
InvalidToleration == Toleration("test-key", "Equal", "INVALID_EFFECT")

TolerationTests == <<
  Semantic("k8s-plain_toleration", Not(PlainToleration), Is(PlainToleration), Is(None)),
  Semantic("k8s-control_plane_toleration", Not(ControlPlane), Is(ControlPlane), Is(None)),
  TestCase("k8s-invalid_toleration", Not(InvalidToleration), Is(InvalidToleration), Is(None),
           None, {"semantic", "invalid"}) >>

TolerationsTests == <<
  Semantic("k8s-tolerations_pop", <<"nonempty">>, <<"front">>, Is(Arr(<<PlainToleration>>))) >>

Policy(v) == Member(Str(v))

ImagePullPolicyTests == <<
  Semantic("k8s-change_image_pull_policy", Not(Policy("Always")), Is(Policy("Always")),
           Is(Policy("Never"))),
  Misoperation("k8s-invalid_image_pull_policy", Is(Str("INVALID_IMAGE_PULL_POLICY")),
               Is(Policy("Never"))) >>

GrpcActionTests == <<
  Misoperation("k8s-invalid_grpc_action",
               Is(Doc2("port", Num(1234), "service", Str("invalid-service"))), Is(None)) >>

LivenessProbeTests == <<
  Misoperation("k8s-http_probe", Is(Doc("httpGet", Doc("path", Str("/invalid-path")))), Is(None)),
  Misoperation("k8s-tcp_probe", Is(Doc("tcpSocket", Doc("port", Num(1234)))), Is(None)),
  Misoperation("k8s-exec_probe",
               Is(Doc("exec", Doc("command", Arr(<<Str("invalid-command")>>)))), Is(None)) >>

ContainerTests == <<
  Misoperation("k8s-container_invalid_name",
               Is(Doc2("name", Str("INVALID_NAME"), "image", Str("nginx"))), Is(None)) >>

InvalidNameTests == << Misoperation("invalid-name", Is(Str("INVALID_NAME")), Is(None)) >>

PreemptionPolicyTests == <<
  Semantic("k8s-change_preemption_policy", Not(Policy("Never")), Is(Policy("Never")),
           Is(Policy("PreemptLowerPriority"))) >>

\* A value that is not allowed, and a change to one that is.
InvalidAndChange(invalid, wrong, change, right, setup) == <<
  Misoperation(invalid, Is(wrong), Is(None)),
  Semantic(change, Not(right), Is(right), Is(setup)) >>

RestartPolicyTests == InvalidAndChange(
  "k8s-invalid_restart_policy", Str("INVALID_RESTART_POLICY"),
  "k8s-restart_policy_change", Str("Always"), Str("Never"))

PriorityClassNameTests == InvalidAndChange(
  "k8s-invalid_priority_class_name", Str("INVALID_PRIORITY_CLASS_NAME"),
  "k8s-priority_class_name_change", Str("system-cluster-critical"), Str("system-node-critical"))

ServiceAccountNameTests == InvalidAndChange(
  "invalid-service-account-name", Str("INVALID_SERVICE_ACCOUNT_NAME"),
  "k8s-service_account_name_change", Str("default"), Str("system:serviceaccount:default:default"))

WhenUnsatisfiableTests == InvalidAndChange(
  "k8s-invalid_value", Str("INVALID_WHEN_UNSATISFIABLE"),
  "k8s-when_unsatisfiable_change", Str("ScheduleAnyway"), None)

TopologySpreadConstraintTests == <<
  Plain("k8s-invalid_topology_spread_constraint", Always,
        Is(Doc("topologyKey", Str("INVALID_TOPOLOGY_KEY"))), Is(None)) >>

-----------------------------------------------------------------------------
(* resource.py, service.py, stateful_set.py, deployment.py *)

QuantityTests == <<
  Plain("k8s-quantity_increase", <<"quantity">>, <<"double">>, Is(Num(2000))),
  Plain("k8s-quantity_decrease", <<"quantity">>, <<"halve">>, Is(Num(1000))) >>

ResourceRequirementsTests == InvalidAndChange(
  "invalid-resourceRequirements", Limits("hugepages-2Mi", 1000),
  "resourceRequirements-change", Limits("cpu", 1000), Limits("cpu", 2000))

VolumeResourceRequirementsTests == InvalidAndChange(
  "k8s-invalid-volumeResourceRequirements", Request("INVALID", 1000),
  "k8s-volumeResourceRequirements-change", Request("storage", 1000), Request("storage", 2000))

Hosts(host) == Doc("hosts", Arr(<<Str(host)>>))
IngressTlsTests == InvalidAndChange(
  "k8s-non_existent_secret",
  Doc2("hosts", Arr(<<Str("test.com")>>), "secretName", Str("non-existent")),
  "k8s-ingressTLS-change", Hosts("example.com"), Hosts("example.org"))

\* A Store makes the precondition fail the first time it is asked.
Asked(t) == [t EXCEPT !.store = TRUE]
ReplicasTests == <<
  Misoperation("k8s-invalid_replicas", Is(Num(0)), Is(Num(1))),
  Asked(Semantic("k8s-scaleDownUp", <<"again">>, <<"up", 4>>, <<"down", 1>>)),
  Asked(Semantic("k8s-scaleUpDown", <<"again">>, <<"down", 1>>, <<"up", 5>>)) >>

UpdateStrategyTests == InvalidAndChange(
  "k8s-invalid_update_strategy", Typed("INVALID_STATEFUL_SET_UPDATE_STRATEGY"),
  "k8s-update_strategy_change", Typed("RollingUpdate"), Typed("OnDelete"))

DeploymentStrategyTests == InvalidAndChange(
  "k8s-invalid_deployment_strategy", Typed("INVALID_DEPLOYMENT_STRATEGY"),
  "k8s-deployment_strategy_change", Typed("RollingUpdate"), Typed("Recreate"))

-----------------------------------------------------------------------------
(* storage.py, cron_job.py *)

Modes(mode) == Arr(<<Str(mode)>>)
Swap(v, w) == <<"swap", v, w>>   \* v, or w if it is v already

AccessModeTests == <<
  Misoperation("k8s-invalid_access_mode", Is(Modes("InvalidAccessMode")), Is(Modes("ReadWriteOnce"))),
  Semantic("k8s-change_access_mode", Always,
           Swap(Modes("ReadWriteMany"), Modes("ReadWriteOnce")), Is(Modes("ReadWriteOnce"))) >>

ApiVersionTests == <<
  Semantic("k8s-change_api_version", Always, Swap(Str("v2"), Str("v1")), Is(Str("v1"))) >>

ConcurrentPolicyTests == <<
  Misoperation("k8s-invalid_concurrency_policy_change", Is(Str("InvalidConcurrencyPolicy")),
               Is(Str("Forbid"))),
  Semantic("k8s-concurrency_policy_change", Always, Swap(Str("Replace"), Str("Forbid")),
           Is(Str("Forbid"))) >>

ScheduleTests == <<
  Misoperation("k8s-invalid_cronjob_schedule_change", Is(Str("InvalidSchedule")), Is(Str("0 * * * *"))),
  Semantic("k8s-cronjob_schedule_change", Always, Swap(Str("1 * * * *"), Str("0 * * * *")),
           Is(Str("0 * * * *"))) >>

-----------------------------------------------------------------------------
(* In the order in which test_generators/__init__.py imports the files *)

SemanticGenerators == <<
  OfProperty("concurrentPolicy", "string", ConcurrentPolicyTests),
  OfProperty("schedule", "string", ScheduleTests),
  OfK8s("apps.v1.DeploymentStrategy", "object", DeploymentStrategyTests),
  OfK8s("core.v1.Affinity", "object", AffinityTests),
  OfK8s("core.v1.PodSecurityContext", "object", PodSecurityContextTests),
  OfK8s("core.v1.Toleration", "object", TolerationTests),
  OfK8s("core.v1.Tolerations", "array", TolerationsTests),
  OfProperty("imagePullPolicy", "string", ImagePullPolicyTests),
  OfK8s("core.v1.GRPCAction", "object", GrpcActionTests),
  OfK8s("core.v1.Probe", "object", LivenessProbeTests),
  OfK8s("core.v1.Container", "object", ContainerTests),
  OfProperty("name", "string", InvalidNameTests),
  OfProperty("preemptionPolicy", "string", PreemptionPolicyTests),
  OfProperty("restartPolicy", "string", RestartPolicyTests),
  OfProperty("priorityClassName", "string", PriorityClassNameTests),
  OfProperty("serviceAccountName", "string", ServiceAccountNameTests),
  OfProperty("whenUnsatisfiable", "string", WhenUnsatisfiableTests),
  OfK8s("core.v1.TopologySpreadConstraint", "object", TopologySpreadConstraintTests),
  OfK8s("apimachinery.pkg.api.resource.Quantity", AnyClass, QuantityTests),
  OfK8s("core.v1.ResourceRequirements", "object", ResourceRequirementsTests),
  OfK8s("core.v1.VolumeResourceRequirements", "object", VolumeResourceRequirementsTests),
  OfK8s("networking.v1.IngressTLS", "object", IngressTlsTests),
  OfProperty("replicas", "integer", ReplicasTests),
  Generator(NoName, "updateStrategy", "object", "object", UpdateStrategyTests),
  OfProperty("accessModes", "array", AccessModeTests),
  OfProperty("apiVersion", "string", ApiVersionTests) >>
=============================================================================
