---------------------- MODULE MCEnvironmentReconciler ----------------------
EXTENDS EnvironmentReconciler

CONSTANTS c1, c2
=============================================================================
