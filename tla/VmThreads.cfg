SPECIFICATION Spec
CONSTANT
  Vcpus = {"vcpu"}
INVARIANT NoCircularWait
PROPERTY ThreadsProgress
