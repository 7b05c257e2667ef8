------------------------------ MODULE KnownSchemas ------------------------------
(***************************************************************************)
(* The Kubernetes types the consistency oracle knows                       *)
(* (acto/input/known_schemas), and the parts of a CRD that it takes for    *)
(* them (acto/input/get_matched_schemas.py).  A class is what its Match    *)
(* asks of a schema: its kind, its fields or the class of its items.  The  *)
(* generators and test cases of these classes are not used any more.       *)
(***************************************************************************)
EXTENDS Schemas, TLC

K8sObject == [is |-> "object"]
K8sArray == [is |-> "array"]
K8sString == [is |-> "string"]
K8sInteger == [is |-> "integer"]
K8sBoolean == [is |-> "boolean"]
K8sAnyOf == [is |-> "anyof"]
K8sOpaque == [is |-> "anything"]

\* An anyOf of nothing but strings and integers.
QuantitySchema == [is |-> "quantity"]

\* A map to quantities.
ResourceSchema == [is |-> "quantities"]

Each(keys, class) == [k \in keys |-> class]
ObjectOf(fields) == [is |-> "fields", fields |-> fields]
Requirements(fields) == [is |-> "requirements", fields |-> fields]
ArrayOf(item) == [is |-> "items", item |-> item]

IsQuantity(s) ==
  /\ s.kind = "anyof"
  /\ \A i \in DOMAIN s.options : s.options[i].kind \in {"string", "integer"}

\* Match: every field must be there, and match in turn.  The three kinds of
\* resource requirements allow no other property.
RECURSIVE Match(_, _)
Match(class, s) ==
  LET FieldsMatch == \A k \in DOMAIN class.fields :
                       Has(s.props, k) /\ Match(class.fields[k], s.props[k]) IN
  CASE class.is = "anything"     -> TRUE
    [] class.is = "quantity"     -> IsQuantity(s)
    [] class.is = "quantities"   -> s.kind = "object" /\ s.extra # << >> /\ IsQuantity(s.extra[1])
    [] class.is = "items"        -> s.kind = "array" /\ Match(class.item, s.item[1])
    [] class.is = "fields"       -> s.kind = "object" /\ FieldsMatch
    [] class.is = "requirements" -> /\ s.kind = "object" /\ FieldsMatch
                                    /\ Cardinality(DOMAIN s.props) = Cardinality(DOMAIN class.fields)
    [] OTHER                     -> s.kind = class.is

-----------------------------------------------------------------------------
(* The classes *)

LabelSelectorSchema == ObjectOf(Each({"matchLabels", "matchExpressions"}, K8sObject))

PodDisruptionBudgetSpecSchema == ObjectOf(Each({"minAvailable", "maxUnavailable"}, K8sAnyOf)
  @@ [selector |-> K8sObject])

PodDisruptionBudgetSchema == ObjectOf([metadata |-> K8sObject,
  spec |-> PodDisruptionBudgetSpecSchema])

ComputeResourceRequirementsSchema == Requirements(Each({"limits",
  "requests"}, ResourceSchema))

StorageResourceRequirementsSchema == Requirements(Each({"limits",
  "requests"}, ResourceSchema))

ResourceRequirementsSchema == Requirements(Each({"limits", "requests"}, ResourceSchema))

HandlerSchema == ObjectOf(Each({"exec", "httpGet", "tcpSocket"}, K8sObject))

LifecycleSchema == ObjectOf(Each({"postStart", "preStop"}, HandlerSchema))

EnvVarSchema == ObjectOf(Each({"name", "value"}, K8sString))

NodeAffinitySchema == ObjectOf([requiredDuringSchedulingIgnoredDuringExecution |-> K8sObject,
  preferredDuringSchedulingIgnoredDuringExecution |-> K8sArray])

PodAffinitySchema == ObjectOf(Each({"requiredDuringSchedulingIgnoredDuringExecution",
  "preferredDuringSchedulingIgnoredDuringExecution"}, K8sArray))

PodAntiAffinitySchema == ObjectOf(Each({"requiredDuringSchedulingIgnoredDuringExecution",
  "preferredDuringSchedulingIgnoredDuringExecution"}, K8sArray))

AffinitySchema == ObjectOf([nodeAffinity |-> NodeAffinitySchema,
  podAffinity |-> PodAffinitySchema, podAntiAffinity |-> PodAntiAffinitySchema])

PodSecurityContextSchema == ObjectOf(Each({"fsGroup", "runAsGroup",
  "runAsUser"}, K8sInteger) @@ Each({"seLinuxOptions", "windowsOptions"}, K8sObject) @@
  Each({"supplementalGroups", "sysctls"}, K8sArray) @@ [runAsNonRoot |-> K8sBoolean])

SecurityContextSchema == ObjectOf(Each({"allowPrivilegeEscalation", "privileged",
  "readOnlyRootFilesystem", "runAsNonRoot"}, K8sBoolean) @@ Each({"capabilities",
  "seLinuxOptions", "seccompProfile", "windowsOptions"}, K8sObject) @@ Each({"runAsGroup",
  "runAsUser"}, K8sInteger) @@ [procMount |-> K8sString])

TolerationSchema == ObjectOf(Each({"key", "operator", "value", "effect"}, K8sString) @@
  [tolerationSeconds |-> K8sInteger])

TolerationsSchema == ArrayOf(TolerationSchema)

GRPCSchema == ObjectOf([port |-> K8sInteger, service |-> K8sString])

LivenessProbeSchema == ObjectOf(Each({"exec", "httpGet", "tcpSocket"}, K8sObject) @@
  Each({"initialDelaySeconds", "timeoutSeconds", "periodSeconds", "successThreshold",
  "failureThreshold"}, K8sInteger))

ReadinessProbeSchema == ObjectOf(Each({"exec", "httpGet", "tcpSocket"}, K8sObject) @@
  Each({"initialDelaySeconds", "timeoutSeconds", "periodSeconds", "successThreshold",
  "failureThreshold"}, K8sInteger) @@ [grpc |-> GRPCSchema])

ArgsSchema == ArrayOf(K8sString)

ContainerSchema == ObjectOf(Each({"name", "image", "workingDir", "terminationMessagePath",
  "terminationMessagePolicy", "imagePullPolicy"}, K8sString) @@ Each({"command", "ports",
  "env", "volumeMounts"}, K8sArray) @@ Each({"readinessProbe", "lifecycle"}, K8sObject) @@
  Each({"stdin", "stdinOnce", "tty"}, K8sBoolean) @@ [args |-> ArgsSchema,
  resources |-> ComputeResourceRequirementsSchema, livenessProbe |-> LivenessProbeSchema,
  securityContext |-> SecurityContextSchema])

ContainersSchema == ArrayOf(ContainerSchema)

HostPathVolumeSource == ObjectOf(Each({"path", "type"}, K8sString))

VolumeSchema == ObjectOf(Each({"emptyDir", "gcePersistentDisk", "awsElasticBlockStore",
  "gitRepo"}, K8sObject) @@ [name |-> K8sString, hostPath |-> HostPathVolumeSource])

VolumesSchema == ArrayOf(VolumeSchema)

TopologySpreadConstraintSchema == ObjectOf(Each({"topologyKey",
  "whenUnsatisfiable"}, K8sString) @@ [maxSkew |-> K8sInteger, labelSelector |-> K8sObject])

TopologySpreadConstraintsSchema == ArrayOf(TopologySpreadConstraintSchema)

PodSpecSchema == ObjectOf(Each({"containers", "ephemeralContainers",
  "initContainers"}, ContainersSchema) @@ Each({"dnsConfig", "nodeSelector"}, K8sObject) @@
  Each({"dnsPolicy", "nodeName", "preemptionPolicy", "priorityClassName", "restartPolicy",
  "runtimeClassName", "schedulerName", "serviceAccountName"}, K8sString) @@
  Each({"priority", "terminationGracePeriodSeconds"}, K8sInteger) @@
  [affinity |-> AffinitySchema, enableServiceLinks |-> K8sBoolean,
  securityContext |-> PodSecurityContextSchema, tolerations |-> TolerationsSchema,
  topologySpreadConstraints |-> TopologySpreadConstraintsSchema, volumes |-> VolumesSchema])

PodTemplateSchema == ObjectOf([metadata |-> K8sObject, spec |-> PodSpecSchema])

RollingUpdateSchema == ObjectOf([partition |-> K8sInteger])

UpdateStrategySchema == ObjectOf([rollingUpdate |-> RollingUpdateSchema,
  type |-> K8sString])

StatefulSetSpecSchema == ObjectOf(Each({"podManagementPolicy", "serviceName"}, K8sString) @@
  [replicas |-> K8sInteger, selector |-> K8sObject, template |-> PodTemplateSchema,
  updateStrategy |-> UpdateStrategySchema, volumeClaimTemplates |-> K8sArray])

StatefulSetSchema == ObjectOf([metadata |-> K8sObject, spec |-> StatefulSetSpecSchema])

DeploymentSpecSchema == ObjectOf(Each({"minReadySeconds", "progressDeadlineSeconds",
  "replicas", "revisionHistoryLimit"}, K8sInteger) @@ [paused |-> K8sBoolean,
  selector |-> K8sObject, strategy |-> K8sString, template |-> PodTemplateSchema])

DeploymentSchema == ObjectOf([metadata |-> K8sObject, spec |-> DeploymentSpecSchema])

LoadBalancerSourceRangesSchema == ArrayOf(K8sString)

ServiceSpecSchema == ObjectOf(Each({"allocateLoadBalancerNodePorts",
  "publishNotReadyAddresses"}, K8sBoolean) @@ Each({"clusterIP", "externalName",
  "externalTrafficPolicy", "loadBalancerIP", "sessionAffinity", "type"}, K8sString) @@
  Each({"clusterIPs", "externalIPs", "ipFamilies", "ports", "topologyKeys"}, K8sArray) @@
  Each({"selector", "sessionAffinityConfig"}, K8sObject) @@
  [healthCheckNodePort |-> K8sInteger,
  loadBalancerSourceRanges |-> LoadBalancerSourceRangesSchema])

ServiceSchema == ObjectOf([metadata |-> K8sObject, spec |-> ServiceSpecSchema])

IngressTLSSchema == ObjectOf([hosts |-> K8sArray, secretName |-> K8sString])

IngressTLSArraySchema == ArrayOf(IngressTLSSchema)

IngressSpecSchema == ObjectOf([backend |-> K8sObject, ingressClassName |-> K8sString,
  rules |-> K8sArray, tls |-> IngressTLSArraySchema])

HostPathVolumeSourceSchema == ObjectOf(Each({"path", "type"}, K8sString))

AccessModesSchema == ArrayOf(K8sString)

PersistentVolumeClaimSpecSchema == ObjectOf(Each({"dataSource", "dataSourceRef",
  "selector"}, K8sObject) @@ Each({"storageClassName", "volumeMode",
  "volumeName"}, K8sString) @@ [accessModes |-> AccessModesSchema,
  resources |-> StorageResourceRequirementsSchema])

PersistentVolumeClaimSchema == ObjectOf(Each({"kind", "status"}, K8sOpaque) @@
  [apiVersion |-> K8sString, metadata |-> K8sObject,
  spec |-> PersistentVolumeClaimSpecSchema])

EmptyDirVolumeSourceSchema == ObjectOf([medium |-> K8sString, sizeLimit |-> QuantitySchema])

CronJobSpecSchema == ObjectOf(Each({"concurrencyPolicy", "schedule"}, K8sString) @@
  Each({"startingDeadlineSeconds", "successfulJobsHistoryLimit",
  "failedJobsHistoryLimit"}, K8sInteger) @@ [suspend |-> K8sBoolean,
  jobTemplate |-> K8sObject])

CronJobSchema == ObjectOf([metadata |-> K8sObject, spec |-> CronJobSpecSchema])

-----------------------------------------------------------------------------
(* The search *)

\* The classes that have "fields": only these are looked for.
Known == <<
  LabelSelectorSchema, PodDisruptionBudgetSpecSchema, PodDisruptionBudgetSchema,
  ComputeResourceRequirementsSchema, StorageResourceRequirementsSchema,
  ResourceRequirementsSchema, HandlerSchema, LifecycleSchema, EnvVarSchema,
  NodeAffinitySchema, PodAffinitySchema, PodAntiAffinitySchema, AffinitySchema,
  PodSecurityContextSchema, SecurityContextSchema, TolerationSchema, GRPCSchema,
  LivenessProbeSchema, ReadinessProbeSchema, ContainerSchema, HostPathVolumeSource,
  VolumeSchema, TopologySpreadConstraintSchema, PodSpecSchema, PodTemplateSchema,
  RollingUpdateSchema, UpdateStrategySchema, StatefulSetSpecSchema, StatefulSetSchema,
  DeploymentSpecSchema, DeploymentSchema, ServiceSpecSchema, ServiceSchema,
  IngressTLSSchema, IngressSpecSchema, HostPathVolumeSourceSchema,
  PersistentVolumeClaimSpecSchema, PersistentVolumeClaimSchema,
  EmptyDirVolumeSourceSchema, CronJobSpecSchema, CronJobSchema >>

\* An "enabled" that a CRD adds to a type does not matter; that every property is
\* among the fields is enough.
FieldMatched(s, class) ==
  \/ Match(class, s)
  \/ /\ "apiVersion" \notin DOMAIN s.props
     /\ DOMAIN s.props \subseteq DOMAIN class.fields \cup {"enabled"}

\* The search does not go below a match.
RECURSIVE FindMatchedSchema(_)
FindMatchedSchema(s) ==
  IF s.kind = "object" THEN
    IF \E i \in DOMAIN Known : FieldMatched(s, Known[i]) THEN {s.path}
    ELSE UNION {FindMatchedSchema(s.props[k]) : k \in DOMAIN s.props}
  ELSE IF s.kind = "array" THEN FindMatchedSchema(s.item[1])
  ELSE {}
=============================================================================
