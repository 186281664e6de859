CONSTANT IdLimit = 3
SPECIFICATION Spec
PROPERTY RecoverableErrorIsReported
